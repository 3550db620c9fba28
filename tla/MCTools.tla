------------------------------ MODULE MCTools -------------------------------
(* Instance of the operator's tools for TLC, which have nothing to do with *)
(* each other: a run exercises the tools behind a shadow episode, the      *)
(* rescue of a stalled stage, or the status board of the course.           *)
EXTENDS ShadowAudit, StageRescue, CourseBoard

CONSTANTS e1, e2, w1, w2

MCShadows == {e1, e2}

Slot(start, end) == [start |-> start, end |-> end]

(* A slot below the least window, a window long enough for chunks, and     *)
(* another shadow of one segment.                                          *)
MCSlots == e1 :> <<Slot(0, 300), Slot(300, 22000)>> @@ e2 :> <<Slot(0, 3000)>>
MCFinalMs == e1 :> 22000 @@ e2 :> 3000

Text(ms, chars, text) == [ms |-> ms, chars |-> chars, text |-> text]

AsShown(t) == [display |-> t, spoken |-> t]

(* Slots and rates on both sides of every threshold; texts with and        *)
(* without the two kinds of anchors, one of them read differently.         *)
Texts2 ==
    {<<>>, <<"cue", "wide?", "good", "verb">>, <<"cue", "ascii?", "good", "verb">>,
     <<"cue", "wide?", "verb">>, <<"numbered", "unnumbered">>, <<"unnumbered", "numbered">>}

(* Texts whose labels, spelt out, move them across a threshold either way. *)
Rewritten ==
    {[display |-> Text(16000, 69, <<>>), spoken |-> Text(16000, 71, <<>>)],
     [display |-> Text(16000, 71, <<>>), spoken |-> Text(16000, 69, <<>>)]}

ManyShapes ==
    {AsShown(Text(ms, chars, text)) :
        ms \in {4999, 6000, 9000, 10000, 16000}, chars \in {29, 30, 33, 50, 69, 70},
        text \in Texts2}
    \cup {AsShown(Text(ms, 89, <<>>)) : ms \in {17999, 18000, 10001}}
    \cup {AsShown(Text(9001, 180, <<>>))} \cup Rewritten

LongShape == AsShown(Text(21700, 100, <<>>))

MCShapes == <<e1, 1>> :> ManyShapes @@ <<e1, 2>> :> {LongShape} @@ <<e2, 1>> :> {LongShape}

Take(request, drift) ==
    [request |-> request, drift |-> drift, fit |-> 0, capped |-> FALSE, lowJudge |-> FALSE]

MCTakes ==
    <<e1, 1>> :> {Take("none", 0), Take("fallback", 400)}
    @@ <<e1, 2>> :> {[Take("candidate", 0) EXCEPT !.lowJudge = TRUE]}
    @@ <<e2, 1>> :> {}

MCSilent == {<<e2, 1>>}
MCReady == {}
MCFocus == MCSilent

MCRescuers == {w1, w2}

----------------------------------------------------------------------------
(* The worlds the board starts from: lecture 8 waits for the regression    *)
(* jobs, runs, waits for its reviewer, is accepted.                        *)

Evidence0 == [risk |-> <<>>, asr |-> <<>>, other |-> <<>>, signal |-> FALSE, minutes |-> 0]
Trouble(n, minutes) == [Evidence0 EXCEPT !.asr = <<"join_or_pause">>,
        !.risk = [i \in 1..n |-> "flat_prosody"], !.minutes = minutes]

Full(e) == [asr |-> e, fit |-> e, pack |-> e, prov |-> e, fitStatus |-> "pass",
            manifest |-> [NoManifest EXCEPT !.episode = e, !.asr = TRUE, !.pack = TRUE]]
AcceptedDir(e) == [Full(e) EXCEPT !.manifest.accepted = TRUE]

Finished(l) == [lecture |-> l, status |-> "completed"]
Running(l) == [lecture |-> l, status |-> "running"]
NoDryRun == [post |-> [status |-> "none", lecture |-> 0], start |-> 0]
DryRunOf(l) == [post |-> [status |-> "ready_to_start", lecture |-> l + 1], start |-> l + 1]

Base ==
    [source |-> [l \in Lectures |-> "ready"], eps |-> <<>>,
     dirs |-> [l \in Lectures |-> EmptyDir], fin |-> [l \in Lectures |-> "missing"],
     gate |-> FALSE, auto |-> "waiting_for_finalize", health |-> "running_recent", docker |-> TRUE,
     running |-> Watchers \ {"lecture8_finalizer"}, pendingFallback |-> FALSE,
     evidence |-> [l \in Lectures |-> Evidence0], dryRuns |-> [l \in 0..NumLectures |-> NoDryRun]]

Later == [Base EXCEPT !.gate = TRUE, !.auto = "started", !.health = "complete"]

MCWorlds ==
    {Base, [Base EXCEPT !.pendingFallback = TRUE], [Base EXCEPT !.health = "complete"],
     [Base EXCEPT !.health = "complete", !.auto = "regression_freeze_failed"],
     [Later EXCEPT !.eps = <<Running(1)>>, !.fin[1] = "waiting"],
     [Later EXCEPT !.eps = <<Finished(1), Running(2), Running(1)>>],
     [Later EXCEPT !.eps = <<Finished(1)>>, !.dirs[1] = Full(1), !.dryRuns[1] = DryRunOf(1)],
     [Later EXCEPT !.eps = <<Finished(1), Finished(2)>>, !.dirs[1] = AcceptedDir(1), !.dirs[2] = Full(2),
         !.dryRuns[2] = DryRunOf(2)],
     [Later EXCEPT !.eps = <<Finished(1), Finished(2)>>, !.dirs[1] = AcceptedDir(1), !.dirs[2] = AcceptedDir(2),
         !.evidence[1] = Trouble(2, 20), !.evidence[2] = Trouble(1, 12)],
     [Later EXCEPT !.eps = <<Finished(1), Finished(2)>>, !.dirs[1] = AcceptedDir(1), !.dirs[2] = AcceptedDir(2),
         !.evidence[1] = Trouble(2, 10), !.evidence[2] = [Trouble(1, 12) EXCEPT !.risk = <<>>]]}

----------------------------------------------------------------------------
VARIABLE active \* which of them this behaviour is about

vars == <<shadowVars, rescueVars, boardVars, active>>

(* What is not exercised has nothing that is bound to go on.               *)
RescueOff ==
    /\ stage = "merge" /\ segments = "synthesized"
    /\ row = [status |-> "completed", here |-> FALSE, stale |-> TRUE]
    /\ run = [id |-> 0, status |-> "none"]
    /\ queues = [ready |-> 0, delayed |-> 0]
    /\ lease = [exists |-> FALSE, young |-> FALSE]
    /\ worker = [w \in Workers |-> "idle"]
    /\ tool = [IdleTool EXCEPT !.pc = "off"] /\ torn = FALSE /\ mishaps = 0

BoardOff ==
    /\ world = {} /\ board = {} /\ moves = MaxMoves
    /\ lap = [todo |-> <<>>, full |-> TRUE, quiet |-> FALSE, again |-> FALSE, n |-> MaxLaps]

MCInit ==
    /\ active \in {"shadow", "rescue", "board"}
    /\ ShadowInit
    /\ IF active = "rescue" THEN RescueInit ELSE RescueOff
    /\ IF active = "board" THEN BoardInit ELSE BoardOff

MCNext ==
    /\ UNCHANGED active
    /\ \/ active = "shadow" /\ ShadowNext /\ UNCHANGED <<rescueVars, boardVars>>
       \/ active = "rescue" /\ RescueNext /\ UNCHANGED <<shadowVars, boardVars>>
       \/ active = "board" /\ BoardNext /\ UNCHANGED <<shadowVars, rescueVars>>

MCSpec == MCInit /\ [][MCNext]_vars /\ ShadowFairness /\ RescueFairness
=============================================================================
