---------------------------- MODULE EpisodeFlow ----------------------------
(***************************************************************************)
(* The life of one HoloDub episode: transcription of its first chapter,    *)
(* glossary and chapterize tasks, the fan-out into chapter jobs, and the   *)
(* fan-in to the merged final video.                                       *)
(*                                                                         *)
(* A chapter job is seen from its episode: its stages up to asr_smart are  *)
(* one stage "asr", those from segment_review to tts_duration one stage    *)
(* "dub". Leases, attempts, requests in two calls and crashes are the      *)
(* subject of JobPipeline; here a stage has the lock that StageLock        *)
(* promises, a failure is one after the last attempt, and EnqueueStage is  *)
(* one step. Episode tasks have neither lease nor retry, as in the code.   *)
(***************************************************************************)
EXTENDS HoloTypes, FiniteSets

CONSTANTS
  Worker,       \* worker processes
  MaxChapters,  \* bound: chapters a plan may have
  Durations,    \* is the video longer than one chapter may be? subset of BOOLEAN
  ShortPlans,   \* chapters the LLM may plan for a short video, 0 for no plan
  LongPlans,    \* chapters the LLM may plan for a long one
  MaxFailures,  \* bound: chapter stages that fail for good
  MaxSlips,     \* bound: episode tasks that return an error
  MaxRepairs,   \* bound: retries that users ask for
  NoTask        \* what an idle worker holds

ASSUME EpisodeAssumption ==
  /\ MaxChapters \in Nat \ {0}
  /\ Durations \subseteq BOOLEAN
  /\ ShortPlans \cup LongPlans \subseteq 0..MaxChapters
  /\ MaxFailures \in Nat
  /\ MaxSlips \in Nat
  /\ MaxRepairs \in Nat

VARIABLES
  epStatus,    \* episodes.status
  total,       \* episodes.total_chapters
  plan,        \* length of episodes.llm_chapters, 0 when it is empty
  chapter,     \* the episode's job rows by ordinal: status, and how often merged
  transcribed, \* segments exist
  whole,       \* chapter 1 still spans the whole video
  long,        \* the video is longer than ChapterizeMaxChapterMs
  final,       \* what final.mp4 holds: the version of every chapter merged, <<>> when
               \* there is none, or one that no player opens
  lost,        \* history: a merge failed on final.mp4 and left it so
  emptied,     \* the file of chapter 1's output was truncated through a link to it
  ready,       \* Redis list holodub:tasks
  pc,          \* the call each worker makes next
  task,        \* the task each worker has popped
  seen,        \* what an episode task read at its start, and where its loop is
  failures, slips, repairs

rowVars == <<epStatus, total, plan, chapter, transcribed, whole, long, final, lost, emptied>>
fileVars == <<final, lost, emptied>>
countVars == <<failures, slips, repairs>>
vars == <<rowVars, ready, pc, task, seen, countVars>>

EpisodeStatus == {"pending", "chaptering", "dispatched", "running", "merging",
                  "judging", "reworking", "completed", "failed"}

\* EpisodeStatus.Transition.
Allowed ==
  [pending    |-> {"chaptering", "running", "failed"},
   chaptering |-> {"dispatched", "failed"},
   dispatched |-> {"running", "completed", "failed"},
   running    |-> {"merging", "completed", "failed"},
   merging    |-> {"judging", "failed"},
   judging    |-> {"reworking", "completed", "failed"},
   reworking  |-> {"running", "failed"},
   completed  |-> {},
   failed     |-> {"chaptering", "dispatched", "running", "merging", "completed"}]

\* EpisodeStatus.IsTerminal.
Over(st) == st \in {"completed", "failed"}

ChapterStage == {"asr", "dub", "merge"}
EpisodeStage == {"glossary", "chapterize", "ep_merge"}
Following == [asr |-> "dub", dub |-> "merge"]

\* TaskPayload; ch is 0 in an episode task. skip is SkipAutoAdvance.
Task == [what : ChapterStage, ch : 1..MaxChapters, skip : BOOLEAN]
          \cup [what : EpisodeStage, ch : {0}, skip : {FALSE}]
ChapterTask(c, s) == [what |-> s, ch |-> c, skip |-> FALSE]
EpisodeTask(s) == [what |-> s, ch |-> 0, skip |-> FALSE]

\* Program counters inside the leased part of a chapter stage.
Leased == {"asr", "park", "dub", "merge", "count", "enqueue", "complete", "shortcut",
           "running", "recount", "reenqueue", "refresh", "advance", "mirror", "fail_ep"}
MergeStep == {"concat", "write", "clamp", "record"}
EpisodeStep == {"glossary", "enqueue_chapterize", "chapterize", "plan", "resume", "slice",
                "create", "bump", "dispatch", "fan", "ep_merge"} \cup MergeStep

Unseen == [ep |-> "pending", first |-> "pending", plan |-> 0, cuts |-> 1, next |-> 1,
           count |-> 0]

Goto(w, label) == pc' = [pc EXCEPT ![w] = label]
Idle(w) ==
  /\ Goto(w, "idle")
  /\ task' = [task EXCEPT ![w] = NoTask]
  /\ seen' = [seen EXCEPT ![w] = Unseen]

\* UpdateJobState of one chapter.
SetStatus(c, st) == chapter' = [chapter EXCEPT ![c].status = st]

\* EnqueueStage: the row is queued and the task pushed.
EnqueueStage(c, s) ==
  /\ SetStatus(c, "queued")
  /\ ready' = Append(ready, ChapterTask(c, s))

\* UpdateEpisodeStatus: a transaction that refuses an illegal transition; every
\* caller logs the refusal and goes on.
UpdateEpisodeStatus(to) ==
  epStatus' = IF to \in Allowed[epStatus] THEN to ELSE epStatus

AllCompleted == \A c \in DOMAIN chapter : chapter[c].status = "completed"

\* CreateJob makes the episode with its first chapter; StartJob has enqueued it.
Init ==
  /\ epStatus = "pending"
  /\ total = 1
  /\ plan = 0
  /\ chapter = <<[status |-> "queued", version |-> 0]>>
  /\ transcribed = FALSE
  /\ whole = TRUE
  /\ long \in Durations
  /\ final = <<>> /\ lost = FALSE /\ emptied = FALSE
  /\ ready = <<ChapterTask(1, "asr")>>
  /\ pc = [w \in Worker |-> "idle"]
  /\ task = [w \in Worker |-> NoTask]
  /\ seen = [w \in Worker |-> Unseen]
  /\ failures = 0 /\ slips = 0 /\ repairs = 0

-----------------------------------------------------------------------------
(* The worker loop and the lock of a chapter stage.                        *)

\* HandleTask routes an episode task to handleEpisodeStage.
Pop(w) ==
  /\ pc[w] = "idle"
  /\ ready # <<>>
  /\ task' = [task EXCEPT ![w] = Head(ready)]
  /\ ready' = Tail(ready)
  /\ Goto(w, IF Head(ready).ch = 0 THEN Head(ready).what ELSE "start")
  /\ UNCHANGED <<rowVars, seen, countVars>>

Busy(t) ==
  \E v \in Worker : pc[v] \in Leased /\ task[v].what = t.what /\ task[v].ch = t.ch

\* The lease is free: the row becomes running, whatever it was.
StartStage(w) ==
  /\ pc[w] = "start"
  /\ ~Busy(task[w])
  /\ SetStatus(task[w].ch, "running")
  /\ Goto(w, task[w].what)
  /\ UNCHANGED <<epStatus, total, plan, transcribed, whole, long, fileVars, ready, task, seen,
                 countVars>>

\* The lease is taken: the task goes round again.
RequeueBusy(w) ==
  /\ pc[w] = "start"
  /\ Busy(task[w])
  /\ ready' = Append(ready, task[w])
  /\ Idle(w)
  /\ UNCHANGED <<rowVars, countVars>>

-----------------------------------------------------------------------------
(* The chapter stages, as far as the episode notices them.                 *)

\* After a stage: the last stage, and a task that skips auto-advance, complete
\* the job; otherwise the row is read again.
AfterStage(w) ==
  Goto(w, IF task[w].what = "merge" \/ task[w].skip THEN "complete" ELSE "refresh")

\* runASRSmart stores the segments and enqueues the glossary task; from the
\* segments in its memory it knows whether the video is long ...
Transcribe(w) ==
  /\ pc[w] = "asr"
  /\ transcribed' = TRUE
  /\ ready' = Append(ready, EpisodeTask("glossary"))
  /\ IF long /\ whole THEN Goto(w, "park") ELSE AfterStage(w)
  /\ UNCHANGED <<epStatus, total, plan, chapter, whole, long, fileVars, task, seen, countVars>>

\* ... and only then parks the chapter.
Park(w) ==
  /\ pc[w] = "park"
  /\ SetStatus(task[w].ch, "awaiting_chapterize")
  /\ AfterStage(w)
  /\ UNCHANGED <<epStatus, total, plan, transcribed, whole, long, fileVars, ready, task, seen,
                 countVars>>

Dub(w) ==
  /\ pc[w] = "dub"
  /\ AfterStage(w)
  /\ UNCHANGED <<rowVars, ready, task, seen, countVars>>

\* runMerge has written the chapter's video and its OutputRelPath.
MergeChapter(w) ==
  /\ pc[w] = "merge"
  /\ chapter' = [chapter EXCEPT ![task[w].ch].version = @ + 1]
  /\ emptied' = (emptied /\ task[w].ch # 1)
  /\ Goto(w, "count")
  /\ UNCHANGED <<epStatus, total, plan, transcribed, whole, long, final, lost, ready, task, seen,
                 countVars>>

\* maybeEnqueueEpisodeMerge, called by runMerge and again once the chapter has
\* completed: read all chapters, then push.
CountChapters(w) ==
  /\ pc[w] \in {"count", "recount"}
  /\ IF AllCompleted
       THEN Goto(w, IF pc[w] = "count" THEN "enqueue" ELSE "reenqueue") /\ UNCHANGED <<task, seen>>
       ELSE IF pc[w] = "count" THEN AfterStage(w) /\ UNCHANGED <<task, seen>> ELSE Idle(w)
  /\ UNCHANGED <<rowVars, ready, countVars>>

EnqueueMerge(w) ==
  /\ pc[w] \in {"enqueue", "reenqueue"}
  /\ ready' = Append(ready, EpisodeTask("ep_merge"))
  /\ IF pc[w] = "enqueue" THEN AfterStage(w) /\ UNCHANGED <<task, seen>> ELSE Idle(w)
  /\ UNCHANGED <<rowVars, countVars>>

CompleteChapter(w) ==
  /\ pc[w] = "complete"
  /\ SetStatus(task[w].ch, "completed")
  /\ Goto(w, "shortcut")
  /\ UNCHANGED <<epStatus, total, plan, transcribed, whole, long, fileVars, ready, task, seen,
                 countVars>>

\* Mutant: only the first chapter to complete counts the others.
Shortcut_PendingOnly(w) ==
  /\ pc[w] = "shortcut"
  /\ IF epStatus = "pending" THEN Goto(w, "running") /\ UNCHANGED <<task, seen>> ELSE Idle(w)
  /\ UNCHANGED <<rowVars, ready, countVars>>

\* maybeShortcutEpisodeCompleted looks at the episode ...
Shortcut(w) ==
  /\ pc[w] = "shortcut"
  /\ IF Over(epStatus)
       THEN Idle(w)
       ELSE /\ Goto(w, IF epStatus = "pending" THEN "running" ELSE "recount")
            /\ UNCHANGED <<task, seen>>
  /\ UNCHANGED <<rowVars, ready, countVars>>

\* ... and moves it from pending to running.
MarkEpisodeRunning(w) ==
  /\ pc[w] = "running"
  /\ UpdateEpisodeStatus("running")
  /\ Goto(w, "recount")
  /\ UNCHANGED <<total, plan, chapter, transcribed, whole, long, fileVars, ready, task, seen,
                 countVars>>

\* HandleTask leaves a parked chapter alone ...
RefreshJob(w) ==
  /\ pc[w] = "refresh"
  /\ IF chapter[task[w].ch].status \in ParkedStatus
       THEN Idle(w)
       ELSE Goto(w, "advance") /\ UNCHANGED <<task, seen>>
  /\ UNCHANGED <<rowVars, ready, countVars>>

\* ... and enqueues the next stage of every other one.
Advance(w) ==
  /\ pc[w] = "advance"
  /\ EnqueueStage(task[w].ch, Following[task[w].what])
  /\ Idle(w)
  /\ UNCHANGED <<epStatus, total, plan, transcribed, whole, long, fileVars, countVars>>

\* The last attempt of a stage fails: handleStageFailure writes the row ...
StageFails(w) ==
  /\ pc[w] \in ChapterStage
  /\ failures < MaxFailures
  /\ failures' = failures + 1
  /\ SetStatus(task[w].ch, "failed")
  /\ Goto(w, "mirror")
  /\ UNCHANGED <<epStatus, total, plan, transcribed, whole, long, fileVars, ready, task, seen,
                 slips, repairs>>

\* ... and maybeShortcutEpisodeFailed fails the episode of a single chapter.
MirrorFailure(w) ==
  /\ pc[w] = "mirror"
  /\ IF total > 1 \/ Over(epStatus)
       THEN Idle(w)
       ELSE Goto(w, "fail_ep") /\ UNCHANGED <<task, seen>>
  /\ UNCHANGED <<rowVars, ready, countVars>>

FailEpisode(w) ==
  /\ pc[w] = "fail_ep"
  /\ UpdateEpisodeStatus("failed")
  /\ Idle(w)
  /\ UNCHANGED <<total, plan, chapter, transcribed, whole, long, fileVars, ready, countVars>>

-----------------------------------------------------------------------------
(* ep_glossary_extract.                                                    *)

\* An empty transcript ends the task; otherwise the LLM answers, with or without
\* a plan of chapters (an empty plan is not stored), or fails.
ExtractGlossary(w) ==
  /\ pc[w] = "glossary"
  /\ IF ~transcribed
       THEN Idle(w) /\ UNCHANGED plan
       ELSE /\ \/ UNCHANGED plan
               \/ plan' \in (IF long THEN LongPlans ELSE ShortPlans) \ {0}
            /\ Goto(w, "enqueue_chapterize")
            /\ UNCHANGED <<task, seen>>
  /\ UNCHANGED <<epStatus, total, chapter, transcribed, whole, long, fileVars, ready, countVars>>

EnqueueChapterize(w) ==
  /\ pc[w] = "enqueue_chapterize"
  /\ ready' = Append(ready, EpisodeTask("chapterize"))
  /\ Idle(w)
  /\ UNCHANGED <<rowVars, countVars>>

-----------------------------------------------------------------------------
(* ep_chapterize.                                                          *)

\* Episode, chapters and segments are read; an episode with several chapters, or
\* without segments, is left alone.
LoadEpisode(w) ==
  /\ pc[w] = "chapterize"
  /\ IF Len(chapter) > 1 \/ ~transcribed
       THEN Idle(w)
       ELSE /\ seen' = [seen EXCEPT ![w].ep = epStatus, ![w].first = chapter[1].status,
                                    ![w].plan = plan]
            /\ Goto(w, "plan")
            /\ UNCHANGED task
  /\ UNCHANGED <<rowVars, ready, countVars>>

\* The episode moves from pending to chaptering, then the cuts are decided: the
\* LLM's plan, else one chapter for a short video, else what the DP finds.
DecideCuts(w) ==
  LET cuts == IF seen[w].plan > 0 THEN {seen[w].plan}
              ELSE IF long THEN 1..MaxChapters ELSE {1} IN
  /\ pc[w] = "plan"
  /\ IF seen[w].ep = "pending" THEN UpdateEpisodeStatus("chaptering") ELSE UNCHANGED epStatus
  /\ \E n \in cuts :
       IF n > 1
         THEN /\ seen' = [seen EXCEPT ![w].cuts = n]
              /\ Goto(w, "slice")
              /\ UNCHANGED task
         ELSE IF seen[w].first = "awaiting_chapterize"
                THEN Goto(w, "resume") /\ UNCHANGED <<task, seen>>
                ELSE Idle(w)
  /\ UNCHANGED <<total, plan, chapter, transcribed, whole, long, fileVars, ready, countVars>>

\* resumeChapter1IfWaiting, on the row as it was read.
ResumeChapter1(w) ==
  /\ pc[w] = "resume"
  /\ EnqueueStage(1, "dub")
  /\ Idle(w)
  /\ UNCHANGED <<epStatus, total, plan, transcribed, whole, long, fileVars, countVars>>

\* runFanOutChapters: the media are sliced and chapter 1 narrowed to the first cut.
NarrowChapter1(w) ==
  /\ pc[w] = "slice"
  /\ whole' = FALSE
  /\ seen' = [seen EXCEPT ![w].next = 2]
  /\ Goto(w, "create")
  /\ UNCHANGED <<epStatus, total, plan, chapter, transcribed, long, fileVars, ready, task,
                 countVars>>

\* Mutant: the loop runs one chapter too far.
CreateChapterJob_OneMore(w) ==
  /\ pc[w] = "create"
  /\ chapter' = Append(chapter, [status |-> "pending", version |-> 0])
  /\ seen' = [seen EXCEPT ![w].next = @ + 1]
  /\ Goto(w, IF seen[w].next > seen[w].cuts THEN "bump" ELSE "create")
  /\ UNCHANGED <<epStatus, total, plan, transcribed, whole, long, fileVars, ready, task, countVars>>

\* Chapters 2..n are inserted one by one, as pending rows.
CreateChapterJob(w) ==
  /\ pc[w] = "create"
  /\ chapter' = Append(chapter, [status |-> "pending", version |-> 0])
  /\ seen' = [seen EXCEPT ![w].next = @ + 1]
  /\ Goto(w, IF seen[w].next = seen[w].cuts THEN "bump" ELSE "create")
  /\ UNCHANGED <<epStatus, total, plan, transcribed, whole, long, fileVars, ready, task, countVars>>

\* The segments move to their chapters and the episode gets its total.
BumpTotal(w) ==
  /\ pc[w] = "bump"
  /\ total' = seen[w].cuts
  /\ Goto(w, "dispatch")
  /\ UNCHANGED <<epStatus, plan, chapter, transcribed, whole, long, fileVars, ready, task, seen,
                 countVars>>

DispatchEpisode(w) ==
  /\ pc[w] = "dispatch"
  /\ UpdateEpisodeStatus("dispatched")
  /\ seen' = [seen EXCEPT ![w].next = 1]
  /\ Goto(w, "fan")
  /\ UNCHANGED <<total, plan, chapter, transcribed, whole, long, fileVars, ready, task, countVars>>

\* Mutant: the loop ends one chapter early.
FanOut_OneShort(w) ==
  /\ pc[w] = "fan"
  /\ EnqueueStage(seen[w].next, "dub")
  /\ IF seen[w].next + 1 = seen[w].cuts
       THEN Idle(w)
       ELSE seen' = [seen EXCEPT ![w].next = @ + 1] /\ UNCHANGED <<pc, task>>
  /\ UNCHANGED <<epStatus, total, plan, transcribed, whole, long, fileVars, countVars>>

\* Every chapter is enqueued, the first one included.
FanOut(w) ==
  /\ pc[w] = "fan"
  /\ EnqueueStage(seen[w].next, "dub")
  /\ IF seen[w].next = seen[w].cuts
       THEN Idle(w)
       ELSE seen' = [seen EXCEPT ![w].next = @ + 1] /\ UNCHANGED <<pc, task>>
  /\ UNCHANGED <<epStatus, total, plan, transcribed, whole, long, fileVars, countVars>>

-----------------------------------------------------------------------------
(* ep_episode_merge.                                                       *)

\* Mutant: the episode is completed before its video is concatenated.
CheckChapters_Completes(w) ==
  /\ pc[w] = "ep_merge"
  /\ IF AllCompleted /\ \A c \in DOMAIN chapter : chapter[c].version > 0
       THEN /\ seen' = [seen EXCEPT ![w].ep = epStatus, ![w].count = Len(chapter)]
            /\ UpdateEpisodeStatus("completed")
            /\ Goto(w, "concat")
            /\ UNCHANGED task
       ELSE Idle(w) /\ UNCHANGED epStatus
  /\ UNCHANGED <<total, plan, chapter, transcribed, whole, long, fileVars, ready, countVars>>

\* Mutant: the chapters are not looked at again.
CheckChapters_Trusting(w) ==
  /\ pc[w] = "ep_merge"
  /\ seen' = [seen EXCEPT ![w].ep = epStatus, ![w].count = Len(chapter)]
  /\ Goto(w, "concat")
  /\ UNCHANGED <<rowVars, ready, task, countVars>>

\* Episode and chapters are read again: all must be completed, with an output.
CheckChapters(w) ==
  /\ pc[w] = "ep_merge"
  /\ IF AllCompleted /\ \A c \in DOMAIN chapter : chapter[c].version > 0
       THEN /\ seen' = [seen EXCEPT ![w].ep = epStatus, ![w].count = Len(chapter)]
            /\ Goto(w, "concat")
            /\ UNCHANGED task
       ELSE Idle(w)
  /\ UNCHANGED <<rowVars, ready, countVars>>

\* hardlinkOrCopy removes the destination, ffmpeg -y opens it and truncates it ...
Concat(w) ==
  /\ pc[w] = "concat"
  /\ final' = <<>>
  /\ Goto(w, "write")
  /\ UNCHANGED <<epStatus, total, plan, chapter, transcribed, whole, long, lost, emptied, ready,
                 task, seen, countVars>>

\* ... then the chapters that were read are linked, copied or concatenated from
\* their files as they are now; from an emptied one nothing comes.
WriteFinal(w) ==
  /\ pc[w] = "write"
  /\ ~emptied
  /\ final' = [c \in 1..seen[w].count |-> chapter[c].version]
  /\ lost' = FALSE
  /\ Goto(w, "clamp")
  /\ UNCHANGED <<epStatus, total, plan, chapter, transcribed, whole, long, emptied, ready, task,
                 seen, countVars>>

\* Another merge of the only chapter has linked the file since: the link fails, and
\* the copy truncates the file that final.mp4 and the chapter's output share.
EmptyOutput(w) ==
  /\ pc[w] = "write"
  /\ seen[w].count = 1
  /\ final # <<>>
  /\ \E v \in Worker : pc[v] = "clamp" /\ seen[v].count = 1
  /\ final' = <<>>
  /\ lost' = TRUE
  /\ emptied' = TRUE
  /\ Goto(w, "clamp")
  /\ UNCHANGED <<epStatus, total, plan, chapter, transcribed, whole, long, ready, task, seen,
                 countVars>>

\* ClampMuxedVideoDuration rewrites the video that is there.
Clamp(w) ==
  /\ pc[w] = "clamp"
  /\ final # <<>>
  /\ Goto(w, "record")
  /\ UNCHANGED <<rowVars, ready, task, seen, countVars>>

\* The paths are stored and the episode is completed, if its status allows.
RecordOutput(w) ==
  /\ pc[w] = "record"
  /\ IF seen[w].ep # "completed" THEN UpdateEpisodeStatus("completed") ELSE UNCHANGED epStatus
  /\ Idle(w)
  /\ UNCHANGED <<total, plan, chapter, transcribed, whole, long, fileVars, ready, countVars>>

\* The concatenation fails, which may leave nothing or a part of a file, or the
\* duration lock or the manifest after it: markEpisodeFailed, on the status that
\* was read.
MergeFails(w) ==
  /\ pc[w] \in MergeStep
  /\ slips < MaxSlips
  /\ slips' = slips + 1
  /\ final' \in IF pc[w] = "write" THEN {final, <<>>} ELSE {final}
  /\ lost' = (lost \/ (pc[w] = "write" /\ final' = <<>>))
  /\ IF Over(seen[w].ep) THEN UNCHANGED epStatus ELSE UpdateEpisodeStatus("failed")
  /\ Idle(w)
  /\ UNCHANGED <<total, plan, chapter, transcribed, whole, long, emptied, ready, failures, repairs>>

\* Any other call of an episode task fails: handleEpisodeStage returns the error,
\* and nothing retries the task.
EpisodeStageFails(w) ==
  /\ pc[w] \in EpisodeStep \ ({"plan", "dispatch"} \cup MergeStep)
  /\ slips < MaxSlips
  /\ slips' = slips + 1
  /\ Idle(w)
  /\ UNCHANGED <<rowVars, ready, failures, repairs>>

-----------------------------------------------------------------------------
\* A user retries a chapter at rest, with or without auto-advance: transcription
\* while there are no segments, a later stage afterwards.
RetryChapter(c, s, skip) ==
  /\ repairs < MaxRepairs
  /\ chapter[c].status \in {"failed", "completed"}
  /\ s = "asr" <=> ~transcribed
  /\ repairs' = repairs + 1
  /\ SetStatus(c, "queued")
  /\ ready' = Append(ready, [what |-> s, ch |-> c, skip |-> skip])
  /\ UNCHANGED <<epStatus, total, plan, transcribed, whole, long, fileVars, pc, task, seen,
                 failures, slips>>

HandleChapter(w) ==
  \/ StartStage(w) \/ RequeueBusy(w) \/ Transcribe(w) \/ Park(w) \/ Dub(w)
  \/ MergeChapter(w) \/ CountChapters(w) \/ EnqueueMerge(w) \/ CompleteChapter(w)
  \/ Shortcut(w) \/ MarkEpisodeRunning(w) \/ RefreshJob(w) \/ Advance(w)
  \/ StageFails(w) \/ MirrorFailure(w) \/ FailEpisode(w)

HandleEpisode(w) ==
  \/ ExtractGlossary(w) \/ EnqueueChapterize(w)
  \/ LoadEpisode(w) \/ DecideCuts(w) \/ ResumeChapter1(w)
  \/ NarrowChapter1(w) \/ CreateChapterJob(w) \/ BumpTotal(w) \/ DispatchEpisode(w) \/ FanOut(w)
  \/ CheckChapters(w) \/ Concat(w) \/ WriteFinal(w) \/ EmptyOutput(w) \/ Clamp(w)
  \/ RecordOutput(w) \/ MergeFails(w)
  \/ EpisodeStageFails(w)

Next ==
  \/ \E w \in Worker : Pop(w) \/ HandleChapter(w) \/ HandleEpisode(w)
  \/ \E c \in DOMAIN chapter, s \in ChapterStage, skip \in BOOLEAN : RetryChapter(c, s, skip)

Spec == Init /\ [][Next]_vars

-----------------------------------------------------------------------------
(* Properties.                                                             *)

\* Every variable keeps its type.
TypeOK ==
  /\ epStatus \in EpisodeStatus
  /\ total \in 1..MaxChapters
  /\ plan \in 0..MaxChapters
  /\ chapter \in Seq([status : JobStatus, version : Nat])
  /\ Len(chapter) \in 1..MaxChapters
  /\ transcribed \in BOOLEAN /\ whole \in BOOLEAN /\ long \in BOOLEAN
  /\ final \in Seq(Nat) /\ lost \in BOOLEAN /\ emptied \in BOOLEAN
  /\ ready \in Seq(Task)
  /\ pc \in [Worker -> {"idle", "start"} \cup Leased \cup EpisodeStep]
  /\ task \in [Worker -> Task \cup {NoTask}]
  /\ \A w \in Worker : pc[w] # "idle" => task[w] \in Task
  /\ seen \in [Worker -> [ep : EpisodeStatus, first : JobStatus, plan : 0..MaxChapters,
                          cuts : 1..MaxChapters, next : 1..MaxChapters + 1,
                          count : 0..MaxChapters]]
  /\ failures \in 0..MaxFailures /\ slips \in 0..MaxSlips /\ repairs \in 0..MaxRepairs

\* Nothing is queued and nobody works.
Quiet == ready = <<>> /\ \A w \in Worker : pc[w] = "idle"

\* The LLM's plan has split a video that was too short to be parked: its first
\* chapter was never held back, and may have been merged before the others came.
ShortSplit == ~long /\ Len(chapter) > 1

\* The final video holds an output of every chapter of the episode: stale or
\* duplicate merge tasks, retries and skipped stages never publish a part of it.
\* A short video that was split is the exception: its final video may hold the
\* first chapter alone.
FinalHasEveryChapter ==
  final # <<>> => /\ \A c \in DOMAIN final : final[c] > 0
                  /\ DOMAIN final = DOMAIN chapter \/ (ShortSplit /\ Len(final) = 1)

\* A completed episode has its final video: the row follows the disk, also when
\* several merge tasks of the episode run at once. It is without only while a
\* merge is writing the video again, or once such a merge has failed on it: the
\* old file is gone by then, and markEpisodeFailed leaves the status alone.
CompletedIsPublished ==
  epStatus = "completed" => final # <<>> \/ lost \/ \E w \in Worker : pc[w] = "write"

\* The fan-in is not missed: once nothing is left to do, an episode whose chapters
\* have all completed has been merged, whichever of them completed last and
\* however their completions and counts interleaved. A chapter of several may
\* have failed and been retried; an only chapter that fails ends its episode, and
\* so does the first of a short video that is split afterwards.
FanInFires ==
  /\ Quiet
  /\ AllCompleted
  /\ \A c \in DOMAIN chapter : chapter[c].version > 0
  /\ slips = 0
  /\ failures = 0 \/ (total > 1 /\ long)
  => final # <<>>

\* The fan-out reaches every chapter: unless an episode task failed, no chapter
\* stays pending when nothing is left to do.
FanOutReachesAll ==
  Quiet /\ slips = 0 => \A c \in DOMAIN chapter : chapter[c].status # "pending"

\* An episode whose final video has been merged is completed ("Episode ->
\* Completed happens inside runEpisodeMerge after the disk I/O succeeds").
MergedIsCompleted == Quiet /\ final # <<>> => epStatus = "completed"
=============================================================================
