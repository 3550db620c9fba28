----------------------------- MODULE ShadowAudit -----------------------------
(***************************************************************************)
(* The tools that follow a shadow episode until it is ready for human      *)
(* review: lora_episode_candidate_autofinalize.py polls                    *)
(* lora_episode_candidate_finalize.py, which monitors the segments, waits  *)
(* for the final mix, has every segment of it transcribed                  *)
(* (lora_final_mix_asr_audit.py) by a batch process inside the ML          *)
(* container, and builds a review pack. All of them keep their state in    *)
(* one run directory, which an operator may use again for the next shadow  *)
(* or after a failure, and which the batch process outlives its client to  *)
(* write to.                                                               *)
(***************************************************************************)
EXTENDS CandidatePolicy, FiniteSets

CONSTANTS
    Shadows,     \* the shadow episodes
    Slots,       \* per shadow: the sequence of its segments' slots [start, end]
    FinalMs,     \* per shadow: the length of the final mix
    Shapes,      \* per segment: the shapes it may have
    Takes,       \* per segment: the takes it may end with
    Silent,      \* the segments without speech
    Ready,       \* the shadows that were merged before
    Focus,       \* the segments the operator always wants to hear
    MaxLow,      \* the gate's limit on rows of low similarity
    MaxReworks,  \* bound on segments synthesised again
    MaxStarts,   \* bound on the operator's starts
    MaxFaults    \* bound on failed calls and killed processes

Segments(e) == DOMAIN Slots[e]
AllSegments == UNION {{<<e, i>> : i \in Segments(e)} : e \in Shadows}

(* A take: what the agent loop settled on. The candidate request was not   *)
(* made, chose a candidate's audio, or fell back; the drift in             *)
(* milliseconds, the implied tempo change in thousandths, whether the hard *)
(* cap was exceeded, and a judge score at or below the threshold.          *)
TakeSpace ==
    [request : {"none", "candidate", "fallback"}, drift : Int, fit : Nat,
     capped : BOOLEAN, lowJudge : BOOLEAN]

ASSUME ShadowAssumption ==
    /\ Focus \subseteq AllSegments /\ Silent \subseteq AllSegments /\ Ready \subseteq Shadows
    /\ \A s \in AllSegments : Takes[s] \subseteq TakeSpace
    /\ \A s \in AllSegments \ Silent : s[1] \in Ready => Shapes[s] # {} /\ Takes[s] # {}
    /\ Slots \in [Shadows -> Seq([start : Nat, end : Nat])] /\ FinalMs \in [Shadows -> Nat]
    /\ \A e \in Shadows : \A i \in Segments(e) :
          /\ Slots[e][i].start < Slots[e][i].end /\ Slots[e][i].start < FinalMs[e]
          /\ i > 1 => Slots[e][i - 1].start < Slots[e][i].start
    /\ MaxLow \in Nat /\ MaxReworks \in Nat /\ MaxStarts \in Nat /\ MaxFaults \in Nat

VARIABLES
    segment,   \* the rows of the segment table
    merged,    \* the shadows whose episode is completed, with a final mix
    files,     \* the run directory
    auto,      \* the auto-finalize process and the tools it runs; "changed" is
               \* a history: segments reworked since its monitor read them
    autoStatus, \* auto_finalize_status.json
    batch,     \* the batch process the audit waits for
    orphan,    \* a batch process whose client is gone
    haunted,   \* an orphan has written into the directory of a later audit
    counts     \* reworks, starts and faults so far

shadowVars == <<segment, merged, files, auto, autoStatus, batch, orphan, haunted, counts>>
hostVars   == <<files, auto, autoStatus, batch, orphan, haunted>>

Pending == [status |-> "pending"]
Skipped == [status |-> "skipped"]

(* A synthesised segment: the plan its request was made on, the plan       *)
(* stored in its metadata, what is_eligible says of it, whether it speaks  *)
(* the text it displays, and whether the two rules read that one alike.    *)
Synthesized(shape, take) ==
    [status |-> "synthesized", asked |-> Planned(shape.spoken),
     planned |-> Planned(shape.display), eligible |-> MonitorEligible(shape.display),
     spokenAsShown |-> shape.spoken = shape.display,
     alike |-> ReadAlike(shape.display.text), take |-> take]

Done(row) == row.status \in {"synthesized", "skipped"}

----------------------------------------------------------------------------
(* lora_episode_candidate_monitor.py                                       *)

Eligible(row) == row.eligible \/ row.planned

Magnitude(n) == IF n < 0 THEN -n ELSE n

(* The reasons for which summarize raises a validation issue, each with a  *)
(* row of the risk queue. (Failure rows concern segments without audio.)   *)
Issues(row) ==
    IF row.status # "synthesized" THEN {}
    ELSE {r \in {"without_candidate_audio", "fallback", "hard_drift", "hard_cap", "fit_delta"} :
             CASE r = "without_candidate_audio" ->
                      Eligible(row) /\ row.take.request # "candidate"
               [] r = "fallback"   -> Eligible(row) /\ row.take.request = "fallback"
               [] r = "hard_drift" -> Magnitude(row.take.drift) > 500
               [] r = "hard_cap"   -> row.take.capped
               [] OTHER            -> row.take.fit > 50}

(* The risk queue has two more reasons.                                    *)
Risks(row) ==
    Issues(row) \cup
    (IF row.status # "synthesized" THEN {}
     ELSE (IF Magnitude(row.take.drift) \in 301..500 THEN {"review_drift"} ELSE {})
          \cup (IF row.take.lowJudge THEN {"low_judge"} ELSE {}))

\* Mutant: the segments that were skipped count as remaining.
Remaining_Skipped(e) ==
    {i \in Segments(e) : segment[<<e, i>>].status # "synthesized"}

Remaining(e) == {i \in Segments(e) : ~Done(segment[<<e, i>>])}

(* review_segment_ids: what the pack must hold, from the monitor's report. *)
\* Mutant: only the segments with a validation issue are taken.
ReviewIds_IssuesOnly(e) ==
    {s \in AllSegments : s[1] = e /\ (s \in Focus \/ Issues(segment[s]) # {})}

ReviewIds(e) ==
    {s \in AllSegments : s[1] = e /\ (s \in Focus \/ Risks(segment[s]) # {})}

----------------------------------------------------------------------------
(* lora_final_mix_asr_audit.py: which part of the mix belongs to a segment *)

PostPad == 250
NextGap == 50
MinWindow == 500
ChunkMin == 20000

Least(a, b) == IF a < b THEN a ELSE b
Greatest(a, b) == IF a < b THEN b ELSE a

(* tts_duration_ms; a segment without audio has none.                      *)
SpokenMs(e, i) ==
    LET row == segment[<<e, i>>]
    IN  IF row.status # "synthesized" THEN 0
        ELSE Slots[e][i].end - Slots[e][i].start + row.take.drift

(* window_for_row without padding before the segment: up to the end of the *)
(* slot or of the audio and a little more, never less than the minimum,    *)
(* but not into the next segment or past the mix.                          *)
\* Mutant: the minimum is applied after the bound of the next segment.
WindowEnd_MinimumLast(e, i) ==
    LET start == Slots[e][i].start
        next  == IF i = Len(Slots[e]) THEN FinalMs[e]
                 ELSE Greatest(start + 1, Slots[e][i + 1].start - NextGap)
        planned == Greatest(Slots[e][i].end, start + SpokenMs(e, i)) + PostPad
    IN  Least(Greatest(start + MinWindow, Least(planned, next)), FinalMs[e])

WindowEnd(e, i) ==
    LET start == Slots[e][i].start
        next  == IF i = Len(Slots[e]) THEN FinalMs[e]
                 ELSE Greatest(start + 1, Slots[e][i + 1].start - NextGap)
        planned == Greatest(Slots[e][i].end, start + SpokenMs(e, i)) + PostPad
    IN  Least(Greatest(start + MinWindow, Least(planned, next)), Least(next, FinalMs[e]))

WindowMs(e, i) == WindowEnd(e, i) - Slots[e][i].start

(* What a transcription of a window may give: text close to the expected   *)
(* one, further away, or a row the gate refuses (far away, nothing, or a   *)
(* failed request, which leaves a row like any other). Nothing is expected *)
(* of a skipped segment, and its row is flagged whatever is heard.         *)
Hearings == {"good", "low", "bad"}

HearingsOf(s) == IF s \in Silent THEN {"bad"} ELSE Hearings

(* A second transcription in chunks replaces the text by a better one.     *)
Improvements(s, hearing) ==
    IF s \in Silent THEN {hearing}
    ELSE IF hearing = "bad" THEN Hearings
    ELSE {hearing, "good"}

Row(s, hearing) == [seg |-> s, heard |-> files.wav, hearing |-> hearing]

Rows == [seg : AllSegments, heard : Shadows, hearing : Hearings]

Labels(rows) == {r.seg : r \in rows}

(* by_label: a newer row replaces an older one.                            *)
Overridden(older, newer) == {r \in older : r.seg \notin Labels(newer)} \cup newer

(* The rows a resumed audit goes on from: those of its own episode.        *)
\* Mutant: rows of any episode are taken, as before the incident.
KnownRows_AnyEpisode(e) == Overridden(files.raw, files.rest)

KnownRows(e) ==
    LET own(rows) == {r \in rows : r.seg[1] = e}
    IN  Overridden(own(files.raw), own(files.rest))

(* gate_summary, with the mean similarities left out.                      *)
Heard(rows, hearings) == {r \in rows : r.hearing \in hearings}

GatePasses(rows) ==
    /\ Heard(rows, {"bad"}) = {}
    /\ Cardinality(Heard(rows, {"low"})) <= MaxLow

----------------------------------------------------------------------------
(* The shadow episode: segments are synthesised, skipped or sent back by a *)
(* judge, and the finished chapters are merged into the final mix.         *)

Count(what, bound) ==
    /\ counts[what] < bound
    /\ counts' = [counts EXCEPT ![what] = @ + 1]

(* The rows a segment may end with. Candidates are executed, as            *)
(* docker-compose.lora-shadow.yml has it: a request is made by the plan of *)
(* the text that is spoken, or by the escalation of a later attempt.       *)
SynthesizedRows ==
    [s \in AllSegments |->
        {Synthesized(p[1], p[2]) :
            p \in {q \in Shapes[s] \X Takes[s] :
                     IF Planned(q[1].spoken) THEN q[2].request # "none"
                     ELSE q[2].request = "none" \/ Escalated(q[1].spoken, 2)}}]

Synthesize(s) ==
    /\ segment[s] = Pending /\ s \notin Silent
    /\ \E made \in SynthesizedRows[s] : segment' = [segment EXCEPT ![s] = made]
    /\ UNCHANGED <<merged, hostVars, counts>>

SkipSegment(s) ==
    /\ segment[s] = Pending /\ s \in Silent
    /\ segment' = [segment EXCEPT ![s] = Skipped]
    /\ UNCHANGED <<merged, hostVars, counts>>

ReworkSegment(s) ==
    /\ segment[s].status = "synthesized"
    /\ s[1] \notin merged
    /\ segment' = [segment EXCEPT ![s] = Pending]
    /\ auto' = [auto EXCEPT !.changed = IF auto.pc = "query" THEN @ \cup {s} ELSE @]
    /\ Count("reworks", MaxReworks)
    /\ UNCHANGED <<merged, files, autoStatus, batch, orphan, haunted>>

MergeShadow(e) ==
    /\ e \notin merged
    /\ \A i \in Segments(e) : Done(segment[<<e, i>>])
    /\ merged' = merged \cup {e}
    /\ UNCHANGED <<segment, hostVars, counts>>

EpisodeStep ==
    \/ \E s \in AllSegments : Synthesize(s) \/ SkipSegment(s) \/ ReworkSegment(s)
    \/ \E e \in Shadows : MergeShadow(e)

----------------------------------------------------------------------------
(* The auto-finalize process, with the finalize attempt and the audit it   *)
(* waits for. The place it is at says which of them runs.                  *)

NoBatch == [shadow |-> "none", todo |-> {}, rows |-> {}]
NoPaper == [shadow |-> "none"]

AutoPlaces == {"stopped", "monitor", "query", "extract", "read", "asr", "retry", "report",
            "pack", "sleep"}

Stopped == [pc |-> "stopped", shadow |-> "none", ids |-> {}, changed |-> {}, known |-> {}]

Start(e) ==
    /\ auto.pc = "stopped"
    /\ auto' = [Stopped EXCEPT !.pc = "monitor", !.shadow = e]
    /\ Count("starts", MaxStarts)
    /\ UNCHANGED <<segment, merged, files, autoStatus, batch, orphan, haunted>>

GoTo(place) == auto' = [auto EXCEPT !.pc = place]

(* A finalize attempt that returns 2 is tried again after a pause; any     *)
(* other failure ends the process.                                         *)
WaitForEpisode ==
    /\ auto' = [Stopped EXCEPT !.pc = "sleep", !.shadow = auto.shadow]
    /\ autoStatus' = "waiting_for_episode"

FinalizeFails ==
    /\ auto' = Stopped
    /\ autoStatus' = "finalize_failed"
    /\ Count("faults", MaxFaults)

UnchangedHere == UNCHANGED <<segment, merged, orphan, haunted>>

(* run_monitor and remaining_segments                                      *)
RunMonitor ==
    /\ auto.pc = "monitor"
    /\ \/ /\ Remaining(auto.shadow) # {}
          /\ WaitForEpisode
          /\ UNCHANGED counts
       \/ /\ Remaining(auto.shadow) = {}
          /\ auto' = [auto EXCEPT !.pc = "query", !.ids = ReviewIds(auto.shadow)]
          /\ UNCHANGED <<autoStatus, counts>>
       \/ FinalizeFails
    /\ UNCHANGED <<files, batch>> /\ UnchangedHere

(* query_episode_completion and final_mix_wait_reason                      *)
QueryCompletion ==
    /\ auto.pc = "query"
    /\ \/ auto.shadow \notin merged /\ WaitForEpisode /\ UNCHANGED counts
       \/ auto.shadow \in merged /\ GoTo("extract") /\ UNCHANGED <<autoStatus, counts>>
       \/ FinalizeFails
    /\ UNCHANGED <<files, batch>> /\ UnchangedHere

(* The pause ends, or the deadline has passed before it.                   *)
WakeUp ==
    /\ auto.pc = "sleep"
    /\ \/ GoTo("monitor") /\ UNCHANGED <<autoStatus, counts>>
       \/ auto' = Stopped /\ autoStatus' = "timeout" /\ Count("faults", MaxFaults)
    /\ UNCHANGED <<files, batch>> /\ UnchangedHere

(* extract_episode_audio_wav: one name for the audio of every episode.     *)
ExtractAudio ==
    /\ auto.pc = "extract"
    /\ \/ /\ files' = [files EXCEPT !.wav = auto.shadow]
          /\ GoTo("read") /\ UNCHANGED <<autoStatus, counts>>
       \/ FinalizeFails /\ UNCHANGED files
    /\ UNCHANGED <<batch>> /\ UnchangedHere

(* run_asr_batch up to the docker call                                     *)
StartBatch ==
    LET e == auto.shadow
        todo == Segments(e) \ {s[2] : s \in Labels(KnownRows(e))}
    IN  /\ auto.pc = "read"
        /\ \/ /\ todo = {}
              /\ files' = [files EXCEPT !.raw = KnownRows(e)]
              /\ GoTo("retry") /\ UNCHANGED batch
           \/ /\ todo # {}
              /\ files' = [files EXCEPT !.rest = {}]
              /\ batch' = [shadow |-> e, todo |-> todo, rows |-> {}]
              /\ auto' = [auto EXCEPT !.pc = "asr", !.known = KnownRows(e)]
        /\ UNCHANGED <<autoStatus, counts>> /\ UnchangedHere

(* One item of a batch process: whatever the file is by now, it is         *)
(* rewritten with all the rows of this process.                            *)
NextItem(b) == <<b.shadow, FirstOf(b.todo)>>

AfterItem(b, hearing) ==
    [b EXCEPT !.todo = @ \ {FirstOf(b.todo)}, !.rows = @ \cup {Row(NextItem(b), hearing)}]

BatchRow ==
    /\ batch.todo # {}
    /\ \E hearing \in HearingsOf(NextItem(batch)) : batch' = AfterItem(batch, hearing)
    /\ files' = [files EXCEPT !.rest = batch'.rows]
    /\ UNCHANGED <<auto, autoStatus, counts>> /\ UnchangedHere

OrphanRow ==
    /\ orphan.todo # {}
    /\ \E hearing \in HearingsOf(NextItem(orphan)) :
          LET o == AfterItem(orphan, hearing)
          IN  /\ files' = [files EXCEPT !.rest = o.rows]
              /\ orphan' = IF o.todo = {} THEN NoBatch ELSE o
    /\ haunted' = (haunted \/ auto.pc # "stopped" \/ files.wav # orphan.shadow)
    /\ UNCHANGED <<segment, merged, auto, autoStatus, batch, counts>>

MergedRows == Overridden(auto.known, files.rest)

BatchEnds ==
    /\ auto.pc = "asr" /\ batch.todo = {}
    /\ files' = [files EXCEPT !.raw = MergedRows]
    /\ batch' = NoBatch
    /\ auto' = [auto EXCEPT !.pc = "retry", !.known = {}]
    /\ UNCHANGED <<autoStatus, counts>> /\ UnchangedHere

(* The docker call fails or runs out of time: what was heard so far is     *)
(* kept, and in the latter case the process in the container goes on.      *)
BatchFails ==
    /\ auto.pc = "asr"
    /\ files' = [files EXCEPT !.raw = IF files.rest = {} THEN @ ELSE MergedRows]
    /\ batch' = NoBatch
    /\ \/ UNCHANGED orphan
       \/ batch.todo # {} /\ orphan = NoBatch /\ orphan' = batch
    /\ FinalizeFails
    /\ UNCHANGED <<segment, merged, haunted>>

(* The processes on the host are killed; nothing is written any more.      *)
HostKilled ==
    /\ auto.pc # "stopped"
    /\ orphan = NoBatch
    /\ auto' = Stopped
    /\ batch' = NoBatch
    /\ orphan' = IF batch.todo = {} THEN NoBatch ELSE batch
    /\ Count("faults", MaxFaults)
    /\ UNCHANGED <<segment, merged, files, autoStatus, haunted>>

(* retry_low_similarity_with_chunked_asr: long windows that were not       *)
(* understood are transcribed once more in chunks.                         *)
Retryable == {r \in files.raw : r.hearing \notin {"good"} /\ WindowMs(r.seg[1], r.seg[2]) >= ChunkMin}

ChunkRetry ==
    /\ auto.pc = "retry"
    /\ \/ /\ \E heard \in [Retryable -> Hearings] :
                /\ \A r \in Retryable : heard[r] \in Improvements(r.seg, r.hearing)
                /\ files' = [files EXCEPT !.raw =
                       (@ \ Retryable) \cup {[r EXCEPT !.hearing = heard[r]] : r \in Retryable}]
          /\ GoTo("report") /\ UNCHANGED <<autoStatus, counts>>
       \/ Retryable # {} /\ FinalizeFails /\ UNCHANGED files
    /\ UNCHANGED <<batch>> /\ UnchangedHere

(* main: analyze_results, summarize, gate_summary and the report.          *)
WriteReport ==
    /\ auto.pc = "report"
    /\ files' = [files EXCEPT !.report =
           [shadow |-> auto.shadow, rows |-> files.raw, pass |-> GatePasses(files.raw)]]
    /\ GoTo("pack")
    /\ UNCHANGED <<autoStatus, batch, counts>> /\ UnchangedHere

(* run_review_pack: the report's verdict does not matter here.             *)
BuildPack ==
    /\ auto.pc = "pack"
    /\ \/ /\ files' = [files EXCEPT !.pack = [shadow |-> auto.shadow, ids |-> auto.ids]]
          /\ auto' = Stopped /\ autoStatus' = "finalized" /\ UNCHANGED counts
       \/ FinalizeFails /\ UNCHANGED files
    /\ UNCHANGED <<batch>> /\ UnchangedHere

AutoStep ==
    \/ RunMonitor \/ QueryCompletion \/ WakeUp \/ ExtractAudio \/ StartBatch
    \/ BatchRow \/ BatchEnds \/ ChunkRetry \/ WriteReport \/ BuildPack

ShadowNext ==
    \/ EpisodeStep
    \/ \E e \in Shadows : Start(e)
    \/ AutoStep \/ BatchFails \/ HostKilled \/ OrphanRow

ReadyRow(s) ==
    IF s \in Silent THEN Skipped
    ELSE Synthesized(CHOOSE shape \in Shapes[s] : TRUE, CHOOSE take \in Takes[s] : TRUE)

ShadowInit ==
    /\ segment = [s \in AllSegments |-> IF s[1] \in Ready THEN ReadyRow(s) ELSE Pending]
    /\ merged = Ready
    /\ files = [wav |-> "none", raw |-> {}, rest |-> {}, report |-> NoPaper, pack |-> NoPaper]
    /\ auto = Stopped /\ autoStatus = "none"
    /\ batch = NoBatch /\ orphan = NoBatch
    /\ haunted = FALSE
    /\ counts = [reworks |-> 0, starts |-> 0, faults |-> 0]

(* A process that runs goes on to its next step or fails.                  *)
ShadowFairness == WF_shadowVars(AutoStep)

ShadowSpec == ShadowInit /\ [][ShadowNext]_shadowVars /\ ShadowFairness

----------------------------------------------------------------------------
(* Properties *)

ShadowTypeOK ==
    /\ segment \in [AllSegments -> {Pending, Skipped} \cup
          [status : {"synthesized"}, asked : BOOLEAN, planned : BOOLEAN, eligible : BOOLEAN,
           spokenAsShown : BOOLEAN, alike : BOOLEAN, take : UNION {Takes[s] : s \in AllSegments}]]
    /\ merged \subseteq Shadows /\ haunted \in BOOLEAN
    /\ files.raw \subseteq Rows /\ files.rest \subseteq Rows
    /\ auto.pc \in AutoPlaces /\ auto.known \subseteq Rows /\ auto.ids \cup auto.changed \subseteq AllSegments
    /\ autoStatus \in {"none", "waiting_for_episode", "finalize_failed", "timeout", "finalized"}

(* The report that decides whether an episode goes to review is about this *)
(* episode: one row for each of its segments, heard in its own final mix,  *)
(* however often the directory was used before and for whatever shadow;    *)
(* and a passed gate means that every segment was understood. Excepted is  *)
(* a directory an orphaned batch process wrote into.                       *)
ReportIsTheEpisode ==
    files.report # NoPaper /\ ~haunted =>
        LET report == files.report
        IN  /\ \A r \in report.rows : r.heard = report.shadow
            /\ Labels(report.rows) = {<<report.shadow, i>> : i \in Segments(report.shadow)}
            /\ Cardinality(report.rows) = Len(Slots[report.shadow])
            /\ report.pass => \A r \in report.rows : r.hearing \in {"good", "low"}

(* The audit listens to every segment in a part of the mix of its own: the *)
(* windows are not empty, follow each other, and none reaches into the     *)
(* next segment, however short a slot is or far a take overruns it.        *)
WindowsDisjoint ==
    \A e \in Shadows : \A i \in Segments(e) :
        /\ WindowMs(e, i) > 0
        /\ i < Len(Slots[e]) => WindowEnd(e, i) <= Slots[e][i + 1].start

(* A segment whose stored plan wants a candidate, or that the pipeline     *)
(* asked a candidate for by the text it displays, and that shipped none,   *)
(* or whose take is off by more than 300 ms, stretched, capped or judged   *)
(* low, is in the review pack, unless it was synthesised again after the   *)
(* monitor had read it. Excepted are requests that only the spoken text    *)
(* plans or a retry escalates: nothing the monitor reads tells of their    *)
(* plan, and when they fall back nobody is told.                           *)
Worrying(row) ==
    /\ row.status = "synthesized"
    /\ \/ /\ row.planned \/ (row.asked /\ row.spokenAsShown)
          /\ row.take.request # "candidate"
       \/ Magnitude(row.take.drift) > 300
       \/ row.take.capped \/ row.take.lowJudge \/ row.take.fit > 50

RisksAreReviewed ==
    [][files'.pack # files.pack =>
          \A i \in Segments(auto.shadow) :
              Worrying(segment[<<auto.shadow, i>>]) =>
                  <<auto.shadow, i>> \in files'.pack.ids \cup auto.changed]_shadowVars

(* The monitor expects candidate audio of the segments whose stored plan   *)
(* wants it, whenever the two read the marks of the text alike; and of the *)
(* segments the pipeline asked candidates for, if it speaks the text that  *)
(* is displayed. A number spelt out may move a text across a threshold.    *)
MonitorMirrorsPolicy ==
    \A s \in AllSegments :
        segment[s].status = "synthesized" /\ segment[s].alike =>
            /\ segment[s].eligible = segment[s].planned
            /\ segment[s].spokenAsShown => segment[s].eligible = segment[s].asked

(* Once its episode is merged, a running auto-finalize delivers the pack,  *)
(* unless a call fails or a process is killed.                             *)
AutoFinalizes ==
    \A e \in Shadows :
        (auto.shadow = e /\ e \in merged)
            ~> \/ autoStatus = "finalized" /\ files.pack.shadow = e
               \/ auto.pc = "stopped" /\ counts.faults > 0
==============================================================================
