---------------------------- MODULE CourseStatus -----------------------------
(***************************************************************************)
(* What the MIT 6.824 course tools compute from their files                *)
(* (tools/mit6824_course_tracker.py, mit6824_acceptance_status.py,         *)
(* mit6824_course_advance.py): the state of a lecture in the tracker, the  *)
(* acceptance status of its artifacts, and the next action of the course.  *)
(*                                                                         *)
(* An episode is [lecture, status]; its id is its place in the episode     *)
(* table. A lecture's directory is [asr, fit, pack, prov, fitStatus,       *)
(* manifest]: the episode each artifact was made from, 0 when the file is  *)
(* absent. prov stands for the provenance and the risk queue, which one    *)
(* call writes together; asr for the ASR report and the mixed audio.       *)
(***************************************************************************)
EXTENDS Naturals, Sequences, FiniteSetsExt

CONSTANT NumLectures \* the course is lectures 1..NumLectures

Lectures == 1..NumLectures

SourceStates    == {"missing", "empty", "ready"}
EpisodeStatuses == {"running", "completed", "failed"}
FitStatuses     == {"pass", "fail"} \* "review" is a warning and reads "pass" here

\* Every active status of an episode reads "running" here.
EpisodesOf(eps, l) == {i \in DOMAIN eps : eps[i].lecture = l}

MaxOr0(S) == IF S = {} THEN 0 ELSE Max(S)

LatestEpisode(eps, l) == MaxOr0(EpisodesOf(eps, l))

LatestCompleted(eps, l) ==
    MaxOr0({i \in EpisodesOf(eps, l) : eps[i].status = "completed"})

----------------------------------------------------------------------------
(* mit6824_course_tracker.py *)

(* classify_lecture: the latest episode decides; a failed one leaves only  *)
(* stale attempts.                                                         *)
ClassifyLecture(source, eps, l) ==
    LET latest == LatestEpisode(eps, l)
    IN  CASE source = "missing" -> "missing_source"
          [] source # "missing" /\ latest = 0 -> "not_started"
          [] source # "missing" /\ latest # 0 /\ eps[latest].status = "running" -> "in_progress"
          [] source # "missing" /\ latest # 0 /\ eps[latest].status = "completed" -> "episode_completed"
          [] source # "missing" /\ latest # 0 /\ eps[latest].status = "failed" -> "has_stale_attempts"

(* build_tracker: one row per lecture of the range.                        *)
TrackerRow(source, eps, l) ==
    LET latest == LatestEpisode(eps, l)
    IN  [status |-> ClassifyLecture(source, eps, l),
         latest |-> latest,
         latestDone |-> latest # 0 /\ eps[latest].status = "completed",
         completed |-> LatestCompleted(eps, l),
         source |-> source]

BuildTracker(source, eps) == [l \in Lectures |-> TrackerRow(source[l], eps, l)]

(* source_preflight (the tracker and course_advance judge alike): the file *)
(* is there and not empty; a missing duration is a warning.                *)
SourceReady(row) == row.source = "ready"

----------------------------------------------------------------------------
(* mit6824_acceptance_status.py *)

NoManifest == [episode |-> 0, asr |-> FALSE, pack |-> FALSE,
               accepted |-> FALSE, blocked |-> FALSE]

EmptyDir == [asr |-> 0, fit |-> 0, pack |-> 0, prov |-> 0, fitStatus |-> "pass",
             manifest |-> NoManifest]

(* An unfinished latest episode hides the manifest and every default file. *)
LatestIncomplete(row) == row.latest # 0 /\ ~row.latestDone

ManifestOnBoard(row, d) == IF LatestIncomplete(row) THEN NoManifest ELSE d.manifest

(* lecture_acceptance's lookups: the path the manifest names, else the     *)
(* default place. The mixed audio has no default that a tool writes.       *)
BoardMissing(row, d) ==
    LET shown == ~LatestIncomplete(row)
        named == ManifestOnBoard(row, d).episode # 0
        found == [final_video |-> named \/ (shown /\ row.completed # 0),
                  final_audio |-> named /\ d.asr # 0,
                  final_mix_asr_report |-> shown /\ d.asr # 0,
                  fit_audit |-> shown /\ d.fit # 0,
                  human_review_pack |-> shown /\ d.pack # 0,
                  risk_queue |-> shown /\ d.prov # 0,
                  adapter_profile_provenance |-> shown /\ d.prov # 0]
    IN  {a \in DOMAIN found : ~found[a]}

(* acceptance_content_readiness: what keeps a lecture from review. A gate  *)
(* that did not pass and a fit audit marked for review are warnings only.  *)
ContentErrors(manifest, missing, d) ==
    missing
    \cup (IF manifest.episode = 0 THEN {"missing_acceptance_action"} ELSE {})
    \cup (IF d.fit # 0 /\ d.fitStatus = "fail" THEN {"fit_audit_not_pass"} ELSE {})

AcceptanceStatuses ==
    {"not_started", "in_progress", "missing_acceptance_artifacts", "review_blocked",
     "awaiting_human_acceptance", "accepted"}

(* lecture_acceptance: the first of these that applies. A failed latest    *)
(* episode reads in_progress too, and the manifest is taken for the latest *)
(* completed episode's whichever episode it names.                         *)
AcceptanceStatus(row, d, missing) ==
    LET manifest == ManifestOnBoard(row, d)
    IN  CASE row.status = "not_started" -> "not_started"
          [] row.status # "not_started" /\ LatestIncomplete(row) -> "in_progress"
          [] OTHER -> IF missing # {} THEN "missing_acceptance_artifacts"
                      ELSE IF manifest.accepted THEN "accepted"
                      ELSE IF manifest.blocked THEN "review_blocked"
                      ELSE "awaiting_human_acceptance"

LectureAcceptance(row, d) ==
    LET missing == BoardMissing(row, d)
    IN  [status |-> AcceptanceStatus(row, d, missing),
         ready |-> ContentErrors(ManifestOnBoard(row, d), missing, d) = {}]

(* build_status of the acceptance table.                                   *)
AcceptanceTable(tracker, dirs) ==
    [l \in Lectures |-> LectureAcceptance(tracker[l], dirs[l])]

----------------------------------------------------------------------------
(* mit6824_course_advance.py *)

FinalizeStatuses == {"missing", "waiting", "finalized_for_human_review", "timeout"}

(* active_finalizer_status: only the last status a finalizer wrote counts; *)
(* it writes none before its first attempt has ended.                      *)
FinalizerLooksActive(finStatus) == finStatus = "waiting"

\* Mutant: a lecture that waits for its reviewer is passed over.
DecideNextAction_SkipsAwaiting(tracker, acc, finStatus, gate) ==
    LET open == {l \in Lectures : acc[l].status \notin {"accepted", "awaiting_human_acceptance"}}
        l == Min(open)
        act(status) == [status |-> status, lecture |-> l]
    IN  IF open = {} THEN [status |-> "all_lectures_accepted", lecture |-> 0]
        ELSE IF l = 1 /\ ~gate THEN act("waiting_for_regression_fixture")
        ELSE CASE acc[l].status = "not_started" ->
                    act(IF SourceReady(tracker[l]) THEN "ready_to_start"
                        ELSE "waiting_for_source_preflight")
               [] acc[l].status = "in_progress" -> act("waiting_for_episode_completion")
               [] acc[l].status = "missing_acceptance_artifacts" ->
                    act(IF FinalizerLooksActive(finStatus[l]) THEN "waiting_for_finalizer"
                        ELSE "ready_to_finalize")
               [] acc[l].status = "review_blocked" -> act("waiting_for_review_blocker_repair")

(* decide_next_action: the first lecture not accepted decides, and only    *)
(* the first lecture of the course waits for the regression gate.          *)
DecideNextAction(tracker, acc, finStatus, gate) ==
    LET open == {l \in Lectures : acc[l].status # "accepted"}
        l == Min(open)
        act(status) == [status |-> status, lecture |-> l]
    IN  IF open = {} THEN [status |-> "all_lectures_accepted", lecture |-> 0]
        ELSE IF l = 1 /\ ~gate THEN act("waiting_for_regression_fixture")
        ELSE CASE acc[l].status = "not_started" ->
                    act(IF SourceReady(tracker[l]) THEN "ready_to_start"
                        ELSE "waiting_for_source_preflight")
               [] acc[l].status = "in_progress" -> act("waiting_for_episode_completion")
               [] acc[l].status = "missing_acceptance_artifacts" ->
                    act(IF FinalizerLooksActive(finStatus[l]) THEN "waiting_for_finalizer"
                        ELSE "ready_to_finalize")
               [] acc[l].status = "review_blocked" -> act("waiting_for_review_blocker_repair")
               [] acc[l].status = "awaiting_human_acceptance" -> act("waiting_for_human_acceptance")

ActionStatuses ==
    {"all_lectures_accepted", "waiting_for_regression_fixture", "ready_to_start",
     "waiting_for_source_preflight", "waiting_for_episode_completion",
     "waiting_for_finalizer", "ready_to_finalize", "waiting_for_review_blocker_repair",
     "waiting_for_human_acceptance"}

\* Mutant: the source of the next lecture is not looked at.
AfterAcceptancePreview_IgnoresSource(tracker, acc, l) ==
    IF l + 1 > NumLectures THEN "all_lectures_accepted_after_current_acceptance"
    ELSE IF acc[l + 1].status # "not_started" THEN "next_lecture_started"
    ELSE "ready_to_start_after_acceptance"

(* after_acceptance_preview: what lecture l's acceptance would lead to.    *)
AfterAcceptancePreview(tracker, acc, l) ==
    IF l + 1 > NumLectures THEN "all_lectures_accepted_after_current_acceptance"
    ELSE IF acc[l + 1].status # "not_started" THEN "next_lecture_started"
    ELSE IF SourceReady(tracker[l + 1]) THEN "ready_to_start_after_acceptance"
    ELSE "source_preflight_blocked_after_acceptance"

(* terminal_watch_status: a started lecture, or one that failed to start,  *)
(* ends the watch as well.                                                 *)
WatchEnds(action) ==
    action.status \in {"waiting_for_human_acceptance", "waiting_for_source_preflight",
                       "all_lectures_accepted", "waiting_for_review_blocker_repair",
                       "ready_to_start"}
=============================================================================
