---------------------------- MODULE CourseControl ----------------------------
(***************************************************************************)
(* The processes that carry the course from lecture to lecture and share   *)
(* nothing but files and the episode table: the auto-advance watcher of    *)
(* the first lecture (tools/mit6824_auto_advance.py), course_advance as a  *)
(* watcher and as the accept tool runs it, the finalizers they spawn       *)
(* (mit6824_finalize_lecture.py), and the reviewer with the accept and     *)
(* record-blockers tools.                                                  *)
(***************************************************************************)
EXTENDS CourseStatus

CONSTANTS
    Finalizers,   \* slots for finalizer processes
    MaxEpisodes,  \* bound on the episodes ever created
    InitialSources, \* the states the source videos may start in
    MaxReviews,   \* bound on the reviewer's decisions
    MaxFaults     \* bound on failed refreshes, refused or failed starts, failed audits
                  \* and dead finalizers

ASSUME CourseAssumption ==
    /\ NumLectures \in Nat \ {0} /\ MaxEpisodes \in Nat /\ MaxFaults \in Nat
    /\ NumLectures <= MaxEpisodes
    /\ InitialSources \subseteq [Lectures -> SourceStates] /\ MaxReviews \in Nat

(* course_advance runs as a watcher and inside the accept tool.            *)
Advancers == {"watch", "accept"}

VARIABLES
    source,       \* the source video of each lecture
    episodes,     \* the episode table
    gate,         \* the regression gate of the first lecture is ready
    dirs,         \* each lecture's acceptance directory
    tracker,      \* mit6824_course_tracker.json
    accTable,     \* mit6824_acceptance_status.json
    finStatus,    \* each lecture's finalize_status.json
    finalizer,    \* the finalizer processes
    advancer,     \* the course_advance processes
    auto,         \* the auto-advance watcher
    reviewer,     \* the accept or record-blockers run
    everAccepted, \* the lectures a reviewer has accepted so far
    reviews,      \* the decisions the reviewer has taken
    faults

worldVars   == <<source, episodes, gate>>
fileVars    == <<dirs, tracker, accTable, finStatus>>
processVars == <<finalizer, advancer, auto, reviewer>>
reviewVars  == <<everAccepted, reviews>>
courseVars  == <<worldVars, fileVars, processVars, everAccepted, reviews, faults>>

Nothing == [status |-> "none", lecture |-> 0]
Gone    == [pc |-> "gone", lecture |-> 0, episode |-> 0]
Away    == [pc |-> "away", lecture |-> 0, manifest |-> NoManifest]

FinalizerPlaces == {"gone", "poll", "audit", "publish"}
AdvancerPlaces  == {"idle", "start", "spawn", "stopped"}

(* The first lecture's finalizer watcher is started by hand with the two   *)
(* watchers (mit6824_watchdog.py expects the three of them).               *)
FirstFinalizer == CHOOSE f \in Finalizers : TRUE

CourseInit ==
    /\ source \in InitialSources
    /\ episodes = <<>>
    /\ gate = FALSE
    /\ dirs = [l \in Lectures |-> EmptyDir]
    /\ tracker = BuildTracker(source, episodes)
    /\ accTable = AcceptanceTable(tracker, dirs)
    /\ finStatus = [l \in Lectures |-> "missing"]
    /\ finalizer = [f \in Finalizers |->
                       IF f = FirstFinalizer THEN [pc |-> "poll", lecture |-> 1, episode |-> 0]
                       ELSE Gone]
    /\ advancer = [a \in Advancers |->
                      [pc |-> IF a = "watch" THEN "idle" ELSE "stopped", action |-> Nothing]]
    /\ auto = "waiting"
    /\ reviewer = Away
    /\ everAccepted = {}
    /\ reviews = 0 /\ faults = 0

----------------------------------------------------------------------------
(* The world: sources arrive, episodes end, the regression suite finishes. *)

SourceArrives(l) ==
    /\ source[l] # "ready"
    /\ source' = [source EXCEPT ![l] = "ready"]
    /\ UNCHANGED <<episodes, gate, fileVars, processVars, reviewVars, faults>>

EpisodeEnds(i, outcome) ==
    /\ episodes[i].status = "running"
    /\ episodes' = [episodes EXCEPT ![i].status = outcome]
    /\ UNCHANGED <<source, gate, fileVars, processVars, reviewVars, faults>>

GateOpens ==
    /\ ~gate /\ gate' = TRUE
    /\ UNCHANGED <<source, episodes, fileVars, processVars, reviewVars, faults>>

Unstarted == {l \in Lectures : EpisodesOf(episodes, l) = {}}

(* The bound on episodes leaves every lecture its first one.               *)
NewEpisode(l) ==
    /\ Len(episodes) + Cardinality(Unstarted \ {l}) < MaxEpisodes
    /\ episodes' = Append(episodes, [lecture |-> l, status |-> "running"])

(* The operator inspects a failed or blocked attempt and posts it again.   *)
OperatorRestarts(l) ==
    /\ LatestEpisode(episodes, l) # 0
    /\ episodes[LatestEpisode(episodes, l)].status # "running"
    /\ dirs[l].manifest.blocked \/ episodes[LatestEpisode(episodes, l)].status = "failed"
    /\ NewEpisode(l)
    /\ UNCHANGED <<source, gate, fileVars, processVars, reviewVars, faults>>

Fault == faults < MaxFaults /\ faults' = faults + 1
NoFault == UNCHANGED faults

(* Every tool that refreshes the tracker goes on with the old file when    *)
(* the database cannot be read, except the auto-advance watcher.           *)
TrackerRefreshed ==
    \/ tracker' = BuildTracker(source, episodes) /\ NoFault
    \/ UNCHANGED tracker /\ Fault

----------------------------------------------------------------------------
(* mit6824_finalize_lecture.py *)

FreeSlot(f) == finalizer[f].pc = "gone"

(* spawn_background: which slot a process takes does not matter.           *)
Spawned(l) ==
    /\ \E f \in Finalizers : FreeSlot(f)
    /\ LET f == CHOOSE g \in Finalizers : FreeSlot(g)
       IN  finalizer' = [finalizer EXCEPT ![f] = [pc |-> "poll", lecture |-> l, episode |-> 0]]

(* selected_episode: a completed episode is preferred to a newer one that  *)
(* is still running.                                                       *)
SelectedEpisode(row) == IF row.completed # 0 THEN row.completed ELSE row.latest

\* Mutant: a newer episode that is still running hides the completed one.
Finalizable_Latest(row) == row.latestDone

Finalizable(row) == row.completed # 0

(* one_attempt up to the waiting statuses: the tracker is refreshed and    *)
(* read. An episode that has not completed leaves a status and another     *)
(* poll; a completed one starts the audits, and the status file keeps what *)
(* it said before.                                                         *)
Poll(f) ==
    LET l == finalizer[f].lecture
        row == tracker'[l]
    IN  /\ finalizer[f].pc = "poll"
        /\ \/ /\ TrackerRefreshed
              /\ Finalizable(row)
              /\ finalizer' = [finalizer EXCEPT ![f].pc = "audit", ![f].episode = SelectedEpisode(row)]
              /\ UNCHANGED finStatus
           \/ /\ TrackerRefreshed
              /\ ~Finalizable(row)
              /\ finStatus' = [finStatus EXCEPT ![l] = "waiting"]
              /\ UNCHANGED finalizer
        /\ UNCHANGED <<dirs, accTable>>

(* main's deadline: the last attempt waited as well.                       *)
WatchTimesOut(f) ==
    LET l == finalizer[f].lecture
    IN  /\ finalizer[f].pc = "poll"
        /\ tracker' = BuildTracker(source, episodes)
        /\ ~Finalizable(tracker'[l])
        /\ finStatus' = [finStatus EXCEPT ![l] = "timeout"]
        /\ finalizer' = [finalizer EXCEPT ![f] = Gone]
        /\ Fault
        /\ UNCHANGED <<worldVars, dirs, accTable, advancer, auto, reviewer, reviewVars>>

(* run_final_mix_asr and run_fit_audit, whose failures stop nothing. The   *)
(* ASR audit writes the segment rows before its report, and the fit audit  *)
(* reads what rows there are: without the ASR audit those of an earlier    *)
(* one, and none skip it.                                                  *)
Audit(f) ==
    LET l == finalizer[f].lecture
        e == finalizer[f].episode
        audited(asr, fit, verdict) ==
            [dirs EXCEPT ![l].asr = asr, ![l].fit = fit, ![l].fitStatus = verdict]
    IN  /\ finalizer[f].pc = "audit"
        /\ \E verdict \in FitStatuses :
              \/ dirs' = audited(e, e, verdict) /\ NoFault
              \/ dirs' = audited(dirs[l].asr, e, verdict) /\ Fault
              \/ dirs' = audited(dirs[l].asr, dirs[l].asr, verdict) /\ dirs[l].asr # 0 /\ Fault
              \/ dirs' = audited(e, dirs[l].fit, dirs[l].fitStatus) /\ Fault
              \/ UNCHANGED dirs /\ Fault
        /\ finalizer' = [finalizer EXCEPT ![f].pc = "publish"]
        /\ UNCHANGED <<tracker, accTable, finStatus>>

(* mit6824_status_refresh.py as the other tools call it: both tables are   *)
(* rewritten, or neither.                                                  *)
StatusRefreshed ==
    \/ /\ tracker' = BuildTracker(source, episodes)
       /\ accTable' = AcceptanceTable(tracker', dirs')
       /\ NoFault
    \/ UNCHANGED <<tracker, accTable>> /\ Fault

(* run_review_pack, write_acceptance_manifest, refresh_course_status, and  *)
(* main's last status: whatever the old manifest said is gone.             *)
Publish(f) ==
    LET l == finalizer[f].lecture
        e == finalizer[f].episode
        manifest == [episode |-> e, asr |-> dirs[l].asr # 0, pack |-> TRUE,
                     accepted |-> FALSE, blocked |-> FALSE]
    IN  /\ finalizer[f].pc = "publish"
        /\ \/ /\ dirs' = [dirs EXCEPT ![l].pack = e, ![l].prov = e, ![l].manifest = manifest]
              /\ StatusRefreshed
           \/ /\ dirs' = [dirs EXCEPT ![l].prov = e, ![l].manifest =
                             [manifest EXCEPT !.pack = dirs[l].pack # 0]]
              /\ UNCHANGED <<tracker, accTable>> /\ Fault
        /\ finStatus' = [finStatus EXCEPT ![l] = "finalized_for_human_review"]
        /\ finalizer' = [finalizer EXCEPT ![f] = Gone]

(* The process dies; its files stay as they are.                           *)
FinalizerDies(f) ==
    /\ finalizer[f].pc # "gone"
    /\ finalizer' = [finalizer EXCEPT ![f] = Gone]
    /\ Fault
    /\ UNCHANGED <<worldVars, fileVars, advancer, auto, reviewer, reviewVars>>

----------------------------------------------------------------------------
(* mit6824_start_lecture.py: the tracker file decides whether a lecture    *)
(* has been started; the episode table is not asked.                       *)
MayStart(row) == row.status = "not_started" /\ row.source # "missing"

(* mit6824_auto_advance.py, one_attempt: once the gate is ready and the    *)
(* regression suite is frozen, the tracker is refreshed and the first      *)
(* lecture started. While the regression run still blocks a start, before  *)
(* the refresh or after it, the watcher polls on; whatever fails ends it.  *)
AutoStart ==
    /\ auto = "waiting" /\ gate
    /\ \/ UNCHANGED <<tracker, episodes>> /\ auto' = "done" /\ Fault
       \/ /\ tracker' = BuildTracker(source, episodes)
          /\ \/ MayStart(tracker'[1]) /\ NewEpisode(1) /\ auto' = "done" /\ NoFault
             \/ MayStart(tracker'[1]) /\ UNCHANGED <<episodes, auto>> /\ NoFault
             \/ ~MayStart(tracker'[1]) /\ UNCHANGED episodes /\ auto' = "done" /\ NoFault
             \/ UNCHANGED episodes /\ auto' = "done" /\ Fault
    /\ UNCHANGED <<source, gate, dirs, accTable, finStatus, finalizer, advancer, reviewer, reviewVars>>

----------------------------------------------------------------------------
(* mit6824_course_advance.py *)

(* main: the watcher polls again unless the status ends it; the accept     *)
(* tool's run makes one pass.                                              *)
Passed(a, action) ==
    [pc |-> IF a = "watch" /\ ~WatchEnds(action) THEN "idle" ELSE "stopped", action |-> Nothing]

PassEnds(a) == advancer' = [advancer EXCEPT ![a] = Passed(a, @.action)]

\* Mutant: the decision is taken on the tables as they were before --refresh.
Decided_BeforeRefresh == DecideNextAction(tracker, accTable, finStatus, gate)

Decided == DecideNextAction(tracker', accTable', finStatus, gate)

(* build_status: --refresh, then the decision. A failed tracker refresh    *)
(* leaves the acceptance table alone, and the pass goes on with whatever   *)
(* the files say; execute_action has nothing to do for a waiting status.   *)
Decide(a) ==
    LET action == Decided
    IN  /\ advancer[a].pc = "idle"
        /\ \/ /\ tracker' = BuildTracker(source, episodes)
              /\ \/ accTable' = AcceptanceTable(tracker', dirs) /\ NoFault
                 \/ UNCHANGED accTable /\ Fault
           \/ UNCHANGED <<tracker, accTable>> /\ Fault
        /\ advancer' = [advancer EXCEPT ![a] =
              CASE action.status = "ready_to_start" -> [pc |-> "start", action |-> action]
                [] action.status = "ready_to_finalize" -> [pc |-> "spawn", action |-> action]
                [] OTHER -> Passed(a, action)]
        /\ UNCHANGED <<episodes, finalizer>>

(* execute_action: start_lecture validates its row of the tracker file and *)
(* posts the job; a start that succeeded spawns the lecture's finalizer,   *)
(* one that was refused (the regression run is active) or failed does not. *)
StartLecture(a) ==
    LET l == advancer[a].action.lecture
    IN  /\ advancer[a].pc = "start"
        /\ \/ MayStart(tracker[l]) /\ NewEpisode(l) /\ NoFault
              /\ advancer' = [advancer EXCEPT ![a].pc = "spawn"]
           \/ ~MayStart(tracker[l]) /\ UNCHANGED episodes /\ PassEnds(a) /\ NoFault
           \/ UNCHANGED episodes /\ PassEnds(a) /\ Fault
        /\ UNCHANGED <<tracker, accTable, finalizer>>

SpawnFinalizer(a) ==
    /\ advancer[a].pc = "spawn"
    /\ Spawned(advancer[a].action.lecture)
    /\ PassEnds(a)
    /\ UNCHANGED <<episodes, tracker, accTable, faults>>

(* The operator starts a watcher that has ended, or a finalizer for a      *)
(* lecture the board asks to have finalized.                               *)
WatchAgain ==
    /\ advancer["watch"].pc = "stopped"
    /\ advancer' = [advancer EXCEPT !["watch"].pc = "idle"]
    /\ UNCHANGED <<worldVars, fileVars, finalizer, auto, reviewer, reviewVars, faults>>

LiveFinalizers(l) == {f \in Finalizers : finalizer[f].pc # "gone" /\ finalizer[f].lecture = l}

OperatorFinalizes(l) ==
    /\ LiveFinalizers(l) = {}
    /\ \/ accTable[l].status \in {"missing_acceptance_artifacts", "review_blocked"}
       \/ accTable[l].status = "awaiting_human_acceptance" /\ ~accTable[l].ready
    /\ Spawned(l)
    /\ UNCHANGED <<worldVars, fileVars, advancer, auto, reviewer, reviewVars, faults>>

----------------------------------------------------------------------------
(* mit6824_accept_lecture.py and mit6824_record_review_blockers.py *)

(* artifact_status: the accept tool looks where the manifest points only.  *)
AcceptMissing(d) ==
    LET found == [final_video |-> d.manifest.episode # 0,
                  final_audio |-> d.asr # 0,
                  final_mix_asr_report |-> d.manifest.asr /\ d.asr # 0,
                  fit_audit |-> d.fit # 0,
                  human_review_pack |-> d.manifest.pack /\ d.pack # 0,
                  risk_queue |-> d.prov # 0,
                  adapter_profile_provenance |-> d.prov # 0]
    IN  {a \in DOMAIN found : ~found[a]}

\* Mutant: the files themselves are not looked for.
AcceptOutcome_ContentOnly(d) ==
    IF d.manifest.accepted THEN "already_accepted"
    ELSE IF ContentErrors(d.manifest, {}, d) # {} THEN "content_readiness_failed"
    ELSE "accepted"

\* accept_manifest's verdict.
AcceptOutcome(d) ==
    CASE AcceptMissing(d) # {} -> "missing_artifacts"
      [] AcceptMissing(d) = {} /\ d.manifest.accepted -> "already_accepted"
      [] OTHER -> IF ContentErrors(d.manifest, {}, d) # {} THEN "content_readiness_failed"
                  ELSE "accepted"

Review == reviews < MaxReviews /\ reviews' = reviews + 1

\* --auto-advance-next.
AcceptAdvances == advancer' = [advancer EXCEPT !["accept"].pc = "idle"]

(* The tools read the manifest here and write their copy later. Accepting  *)
(* an accepted lecture once more runs the advance once more.               *)
AcceptReads(l) ==
    /\ reviewer.pc = "away" /\ advancer["accept"].pc = "stopped"
    /\ dirs[l].manifest.episode # 0
    /\ \/ /\ AcceptOutcome(dirs[l]) = "accepted" /\ Review
          /\ reviewer' = [pc |-> "accept", lecture |-> l, manifest |-> dirs[l].manifest]
          /\ UNCHANGED advancer
       \/ /\ AcceptOutcome(dirs[l]) = "already_accepted"
          /\ reviewer' = [pc |-> "advance", lecture |-> l, manifest |-> NoManifest]
          /\ AcceptAdvances /\ UNCHANGED reviews
    /\ UNCHANGED <<worldVars, fileVars, finalizer, auto, everAccepted, faults>>

(* The manifest is written, and --auto-advance-next runs course_advance.   *)
AcceptWrites ==
    LET l == reviewer.lecture
    IN  /\ reviewer.pc = "accept"
        /\ dirs' = [dirs EXCEPT ![l].manifest = [reviewer.manifest EXCEPT !.accepted = TRUE]]
        /\ everAccepted' = everAccepted \cup {l}
        /\ reviewer' = [pc |-> "advance", lecture |-> l, manifest |-> NoManifest]
        /\ AcceptAdvances
        /\ UNCHANGED <<worldVars, tracker, accTable, finStatus, finalizer, auto, reviews, faults>>

BlockReads(l) ==
    /\ reviewer.pc = "away" /\ Review
    /\ dirs[l].manifest.episode # 0
    /\ reviewer' = [pc |-> "block", lecture |-> l, manifest |-> dirs[l].manifest]
    /\ UNCHANGED <<worldVars, fileVars, finalizer, advancer, auto, everAccepted, faults>>

BlockWrites ==
    LET l == reviewer.lecture
    IN  /\ reviewer.pc = "block"
        /\ dirs' = [dirs EXCEPT ![l].manifest =
                       [reviewer.manifest EXCEPT !.accepted = FALSE, !.blocked = TRUE]]
        /\ reviewer' = [pc |-> "refresh", lecture |-> l, manifest |-> NoManifest]
        /\ UNCHANGED <<worldVars, tracker, accTable, finStatus, finalizer, advancer, auto,
                       reviewVars, faults>>

(* --refresh-status, after the advance when there is one.                  *)
ReviewEnds ==
    /\ \/ reviewer.pc = "refresh"
       \/ reviewer.pc = "advance" /\ advancer["accept"].pc = "stopped"
    /\ UNCHANGED dirs /\ StatusRefreshed
    /\ reviewer' = Away
    /\ UNCHANGED <<worldVars, finStatus, finalizer, advancer, auto, reviewVars>>

----------------------------------------------------------------------------
(* A finalizer writes files, its own place, and nothing else; course_advance *)
(* never touches an acceptance directory.                                  *)
FinalizerStep(f) ==
    /\ UNCHANGED <<worldVars, advancer, auto, reviewer, reviewVars>>
    /\ Poll(f) \/ Audit(f) \/ Publish(f)

AdvancerStep(a) ==
    /\ UNCHANGED <<source, gate, dirs, finStatus, auto, reviewer, reviewVars>>
    /\ Decide(a) \/ StartLecture(a) \/ SpawnFinalizer(a)

CourseNext ==
    \/ \E l \in Lectures : SourceArrives(l) \/ OperatorRestarts(l) \/ OperatorFinalizes(l)
    \/ \E i \in DOMAIN episodes : \E outcome \in {"completed", "failed"} : EpisodeEnds(i, outcome)
    \/ GateOpens \/ WatchAgain
    \/ \E f \in Finalizers : FinalizerStep(f) \/ WatchTimesOut(f) \/ FinalizerDies(f)
    \/ AutoStart
    \/ \E a \in Advancers : AdvancerStep(a)
    \/ \E l \in Lectures : AcceptReads(l) \/ BlockReads(l)
    \/ AcceptWrites \/ BlockWrites \/ ReviewEnds

(* A finalizer that lives takes its steps, and so does the accept tool's   *)
(* advance, which the tool waits for; no failure is owed to either. Nothing *)
(* obliges the operator, the reviewer or the watchers, which may end at    *)
(* any time.                                                               *)
CourseFairness ==
    /\ \A f \in Finalizers : WF_courseVars(NoFault /\ FinalizerStep(f))
    /\ WF_courseVars(NoFault /\ AdvancerStep("accept"))

CourseSpec == CourseInit /\ [][CourseNext]_courseVars /\ CourseFairness

----------------------------------------------------------------------------
(* Properties *)

Manifests == [episode : 0..MaxEpisodes, asr : BOOLEAN, pack : BOOLEAN,
              accepted : BOOLEAN, blocked : BOOLEAN]
Dirs == [asr : 0..MaxEpisodes, fit : 0..MaxEpisodes, pack : 0..MaxEpisodes,
         prov : 0..MaxEpisodes, fitStatus : FitStatuses, manifest : Manifests]
TrackerStatuses == {"missing_source", "not_started", "in_progress", "episode_completed",
                    "has_stale_attempts"}
TrackerRows == [status : TrackerStatuses, latest : 0..MaxEpisodes, latestDone : BOOLEAN,
                completed : 0..MaxEpisodes, source : SourceStates]
Actions == [status : ActionStatuses \cup {"none"}, lecture : 0..NumLectures]

(* The tables, directories and processes have the shapes their tools write *)
(* and read.                                                               *)
CourseTypeOK ==
    /\ source \in [Lectures -> SourceStates] /\ gate \in BOOLEAN
    /\ episodes \in Seq([lecture : Lectures, status : EpisodeStatuses])
    /\ Len(episodes) <= MaxEpisodes
    /\ dirs \in [Lectures -> Dirs]
    /\ tracker \in [Lectures -> TrackerRows]
    /\ accTable \in [Lectures -> [status : AcceptanceStatuses, ready : BOOLEAN]]
    /\ finStatus \in [Lectures -> FinalizeStatuses]
    /\ finalizer \in [Finalizers -> [pc : FinalizerPlaces, lecture : 0..NumLectures,
                                     episode : 0..MaxEpisodes]]
    /\ advancer \in [Advancers -> [pc : AdvancerPlaces, action : Actions]]
    /\ auto \in {"waiting", "done"}
    /\ reviewer \in [pc : {"away", "accept", "advance", "block", "refresh"},
                     lecture : 0..NumLectures, manifest : Manifests]
    /\ everAccepted \subseteq Lectures /\ reviews \in 0..MaxReviews /\ faults \in 0..MaxFaults

(* No lecture gets an episode before a reviewer has accepted every lecture *)
(* before it, whichever process starts it and however old its files are    *)
(* (decide_next_action, "previous lecture must be human accepted").        *)
StartsInOrder ==
    \A i \in DOMAIN episodes : 1..(episodes[i].lecture - 1) \subseteq everAccepted

(* A lecture that counts as accepted has all seven artifacts where its     *)
(* manifest says, although the accept tool writes a copy it read earlier   *)
(* and finalizers rewrite the directory meanwhile (accept_manifest).       *)
AcceptedIsComplete ==
    \A l \in Lectures : dirs[l].manifest.accepted => AcceptMissing(dirs[l]) = {}

\* simulate_acceptance_status_for_preview.
SimulateAcceptance(acc, l) == [acc EXCEPT ![l].status = "accepted"]

(* What course_advance tells the reviewer an acceptance will start is what *)
(* it decides once that acceptance is in the table, and what the accept    *)
(* tool's dry run shows.                                                   *)
PreviewMatchesDecision ==
    LET now == DecideNextAction(tracker, accTable, finStatus, gate)
        l == now.lecture
    IN  now.status = "waiting_for_human_acceptance" =>
            (AfterAcceptancePreview(tracker, accTable, l) = "ready_to_start_after_acceptance"
             <=> DecideNextAction(tracker, SimulateAcceptance(accTable, l), finStatus, gate)
                    = [status |-> "ready_to_start", lecture |-> l + 1])

Standing(l) == dirs[l].manifest.accepted

(* A newer attempt than the completed one is running or has failed: a      *)
(* restart, or a second start from a tracker that did not show the first.  *)
Reattempted(l) == LatestEpisode(episodes, l) # LatestCompleted(episodes, l)

(* The acceptance of a lecture whose successor has its source starts the   *)
(* successor (accept --auto-advance-next), unless a tool failed on the     *)
(* way, some lecture up to it lost its acceptance, or one has a newer      *)
(* attempt that did not complete: the board then reads "in progress" and   *)
(* hides the acceptance, also after a double start nobody asked for.       *)
AcceptanceStartsNext ==
    \A l \in 1..(NumLectures - 1) :
        (reviewer.pc = "advance" /\ reviewer.lecture = l /\ advancer["accept"].pc = "idle"
             /\ source[l + 1] = "ready")
            ~> \/ EpisodesOf(episodes, l + 1) # {}
               \/ \E m \in 1..l : ~Standing(m) \/ Reattempted(m)
               \/ faults > 0

(* A finalizer that watches a lecture one of whose episodes has completed  *)
(* comes to publish a completed episode of it, whatever newer attempts are *)
(* running or have failed meanwhile (one_attempt, selected_episode).       *)
FinalizerDelivers ==
    \A f \in Finalizers :
        (finalizer[f].pc = "poll" /\ LatestCompleted(episodes, finalizer[f].lecture) # 0)
            ~> \/ /\ finalizer[f].pc = "publish"
                  /\ episodes[finalizer[f].episode]
                        = [lecture |-> finalizer[f].lecture, status |-> "completed"]
               \/ faults > 0

(* course_advance "avoids spawning duplicate finalizer watchers for the    *)
(* same lecture" (docs/mit6824-dub-production-plan.md:394): it does not    *)
(* decide to finalize a lecture some finalizer has begun to finalize.      *)
NoSecondFinalizer ==
    [][\A a \in Advancers, f \in Finalizers :
          advancer[a].pc = "idle" /\ advancer'[a].pc = "spawn"
              => ~(finalizer[f].pc \in {"audit", "publish"}
                   /\ finalizer[f].lecture = advancer'[a].action.lecture)]_courseVars
=============================================================================
