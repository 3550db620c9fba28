---------------------------- MODULE LoraCandidate ----------------------------
(***************************************************************************)
(* One request of the LoRA candidate service                               *)
(* (ml_service/app/services/lora_candidate.py): a default candidate, then  *)
(* candidates joined from split parts, then rescue plans, until one is     *)
(* strong enough, and the choice of the audio that is written to the       *)
(* request's output file.                                                  *)
(*                                                                         *)
(* What the recogniser and the audio analysis measure of a candidate is    *)
(* any element of Measurements: similarity, critical-term recall and tempo *)
(* change in thousandths, drift in milliseconds, pitch range in tenths of  *)
(* a semitone, and how well its parts join.                                *)
(***************************************************************************)
EXTENDS SplitPlan, FiniteSets

CONSTANTS
    LoraRequests,  \* records [text, targetMs, families, splitPlanning, eligible, rescue]
    Hosts,         \* records [execute, adapter, inline]: the settings that gate execution
    Measurements,  \* what can be measured of one audio
    PlanTable,     \* the split plan of every request under every strategy
    Nil            \* a value that is not there

VARIABLES
    lora,        \* the request
    machine,     \* the service's settings
    step,        \* where _run_candidates is
    strategy,    \* index of the current split strategy, 0: the automatic plan
    candidates,
    partCache,   \* the parts synthesised so far: <<strategy, family, index>>
    plans,       \* the automatic plan and the alternates tried, <<strategy, plan>>
    stop,        \* candidate_generation_stop_reason
    output,      \* the candidate whose audio the output file holds
    result       \* the candidate_result returned

candidateVars == <<lora, machine, step, strategy, candidates, partCache, plans,
                   stop, output, result>>

(***************************************************************************)
(* The gates                                                               *)
(***************************************************************************)

AbsDrift(c) == IF c.drift < 0 THEN -c.drift ELSE c.drift

TermAtLeast(c, recall) == c.term = Nil \/ c.term >= recall

(* A loud jump at a join is forgiven when the rest is nearly perfect and   *)
(* the edges are quiet and tight ("edge": only such a jump was found).     *)
JoinRescued(c) ==
    /\ c.join = "edge"
    /\ c.sim >= 995 /\ AbsDrift(c) <= 50 /\ c.fit <= 50
    /\ TermAtLeast(c, 950)

RejectReasons(c) ==
    (IF c.sim < 970 THEN {"low_asr"} ELSE {})
    \cup (IF AbsDrift(c) > 500 THEN {"high_drift"} ELSE {})
    \cup (IF c.fit > 50 THEN {"high_fit_delta"} ELSE {})
    \cup (IF ~TermAtLeast(c, 800) THEN {"low_term_recall"} ELSE {})
    \cup (IF c.join \in {"bad", "edge"} /\ ~JoinRescued(c) THEN {"bad_join_quality"} ELSE {})

\* Mutant: a gate decides by the similarity alone.
GatePass_SimilarityOnly(c) == c.sim >= 970

GatePass(c) == RejectReasons(c) = {}

StrongGatePass(c) ==
    /\ GatePass(c)
    /\ c.sim >= 985 /\ AbsDrift(c) <= 300 /\ c.fit <= 50
    /\ TermAtLeast(c, 950) /\ c.latin
    /\ c.f0 = Nil \/ c.f0 >= 45
    /\ c.join \in {"none", "pass"}

(* _candidate_score, in hundred-thousandths.                               *)
CandidateScore(c) ==
    28 * LargerOf(0, 1000 - 2 * AbsDrift(c))
    + 42 * SmallerOf(1050, (1000 * c.sim) \div 985)
    + 15 * (IF c.f0 = Nil \/ c.f0 = 0 THEN 600 ELSE SmallerOf(1150, (1000 * c.f0) \div 54))
    + 12 * (IF c.term = Nil THEN 1000 ELSE SmallerOf(1050, (1000 * c.term) \div 950))
    - 3 * SmallerOf(400, 3 * c.fit)

(* max() keeps the first of equals.                                        *)
FirstBest(all, among, better(_, _)) ==
    all[CHOOSE i \in among : \A j \in among :
            IF j < i THEN better(all[i], all[j]) ELSE ~better(all[j], all[i])]

Scores(c, d) == CandidateScore(c) > CandidateScore(d)

(* _part_quality_key, compared lexicographically.                          *)
QualityKey(c) == <<IF GatePass(c) THEN 1 ELSE 0, c.sim,
                   IF c.term = Nil THEN 1000 ELSE c.term,
                   -AbsDrift(c), CandidateScore(c)>>

BetterQuality(c, d) ==
    LET p == QualityKey(c)  q == QualityKey(d) IN
    \E i \in DOMAIN p : p[i] > q[i] /\ \A j \in 1..(i - 1) : p[j] = q[j]

Passed(all) == {i \in DOMAIN all : GatePass(all[i])}

PreferredMixes(all) ==
    {i \in Passed(all) : /\ all[i].family = "split_mix"
                         /\ all[i].sim >= 985 /\ AbsDrift(all[i]) <= 300
                         /\ TermAtLeast(all[i], 950)}

\* Mutant: a mix that passed is preferred however much worse it is.
SelectCandidate_AnyMix(all) ==
    IF Passed(all) = {} THEN FirstBest(all, DOMAIN all, BetterQuality)
    ELSE IF PreferredMixes(all) # {} THEN FirstBest(all, PreferredMixes(all), Scores)
    ELSE FirstBest(all, Passed(all), Scores)

(* _select_candidate: the best score that passed, but a good split_mix     *)
(* within 0.05 of it is preferred.                                         *)
SelectCandidate(all) ==
    LET best == FirstBest(all, Passed(all), Scores)
        mix  == FirstBest(all, PreferredMixes(all), Scores)
    IN  IF Passed(all) = {} THEN FirstBest(all, DOMAIN all, BetterQuality)
        ELSE IF PreferredMixes(all) # {} /\ CandidateScore(best) - CandidateScore(mix) <= 5000
        THEN mix
        ELSE best

(* _text_compression_recommendation: complete candidates of at least two   *)
(* strategies all speak too slowly.                                        *)
OverSlow(c) ==
    /\ c.family # "default"
    /\ {"high_fit_delta", "high_drift"} \subseteq RejectReasons(c)
    /\ c.sim >= 985 /\ TermAtLeast(c, 950) /\ c.join \in {"none", "pass"}
    /\ c.drift > 0 /\ c.fit >= 65

NeedsShorterText(all) ==
    LET slow == {i \in DOMAIN all : OverSlow(all[i])} IN
    /\ Cardinality(slow) >= 4
    /\ Cardinality({all[i].strategy : i \in slow}) >= 2

(***************************************************************************)
(* The split strategies                                                    *)
(***************************************************************************)

(* SplitPlanOptions of the automatic plan and of the rescue plans; concat  *)
(* overrides the pause the parts are joined with.                          *)
Options(parts, partMs, pause) ==
    [DefaultOptions EXCEPT !.maxParts = parts, !.maxPartMs = partMs, !.pauseMs = pause]

AutomaticOptions == Options(4, 16000, 180)

RescueSpecs ==
    <<[name |-> "balanced_four_part", opts |-> Options(4, 10500, 180), concat |-> Nil],
      [name |-> "micro_clause_six_part", opts |-> Options(6, 8500, 180), concat |-> Nil],
      [name |-> "micro_clause_tight_concat", opts |-> Options(6, 8500, 180), concat |-> 40],
      [name |-> "micro_clause_tight_pause", opts |-> Options(6, 8500, 40), concat |-> Nil],
      [name |-> "micro_clause_zero_concat", opts |-> Options(6, 8500, 180), concat |-> 0],
      [name |-> "micro_clause_zero_pause", opts |-> Options(6, 8500, 0), concat |-> Nil],
      [name |-> "semantic_two_part", opts |-> Options(2, 999000, 180), concat |-> Nil]>>

JoinedWith(concat, plan) ==
    IF concat = Nil THEN plan ELSE [plan EXCEPT !.pauseMs = concat]

PlanUnder(r, k) ==
    LET opts   == IF k = 0 THEN AutomaticOptions ELSE RescueSpecs[k].opts
        concat == IF k = 0 THEN Nil ELSE RescueSpecs[k].concat
    IN  JoinedWith(concat, BuildSplitPlan(r.text, r.targetMs, opts))

SplitPlans == [r \in LoraRequests |-> [k \in 0..Len(RescueSpecs) |-> PlanUnder(r, k)]]

ASSUME PlanTableAssumption == PlanTable = SplitPlans

(* A segment without text is not dubbed (shouldSkipDubbing).               *)
ASSUME RequestAssumption ==
    \A r \in LoraRequests : r.text \in Texts \ {<<>>} /\ r.targetMs \in Nat

ASSUME MeasurementAssumption ==
    Measurements \subseteq
        [sim : Int, drift : Int, fit : Int, term : Int \cup {Nil}, latin : BOOLEAN,
         f0 : Int \cup {Nil}, join : {"none", "pass", "edge", "bad"}]

StrategyPlan(k) == PlanTable[lora][k]

(* _is_distinct_split_plan                                                 *)
DistinctPlans(p, q) ==
    \/ p.parts # q.parts
    \/ p.pauseMs # q.pauseMs
    \/ p.planningPauseMs # q.planningPauseMs

ShouldSplitCandidate ==
    ShouldSplit(lora.text, lora.targetMs, AutomaticOptions) \/ lora.eligible

(***************************************************************************)
(* The request                                                             *)
(***************************************************************************)

Steps == {"start", "default", "plan", "light", "mix", "rescue", "select", "done"}

\* Mutant: the strategy starts at the number of rescue plans.
CandidateInit_Strategy ==
    /\ lora \in LoraRequests /\ machine \in Hosts
    /\ step = "start"
    /\ strategy = Len(RescueSpecs) + 1
    /\ candidates = <<>> /\ partCache = {} /\ plans = <<>>
    /\ stop = "none" /\ output = Nil /\ result = Nil

CandidateInit ==
    /\ lora \in LoraRequests
    /\ machine \in Hosts
    /\ step = "start"
    /\ strategy = 0
    /\ candidates = <<>>
    /\ partCache = {}
    /\ plans = <<>>
    /\ stop = "none"
    /\ output = Nil
    /\ result = Nil

(* _fallback_response: the plain synthesis writes the output file.         *)
PlainAudio == [family |-> "plain"]

FallBack ==
    /\ output' = PlainAudio
    /\ result' = [family |-> "default", status |-> "skipped", compress |-> FALSE]
    /\ step' = "done"
    /\ UNCHANGED <<lora, machine, strategy, candidates, partCache, plans, stop>>

Open == machine.execute /\ machine.adapter /\ machine.inline

Refuse == step = "start" /\ ~Open /\ FallBack

Begin ==
    /\ step = "start" /\ Open
    /\ step' = "default"
    /\ UNCHANGED <<lora, machine, strategy, candidates, partCache, plans, stop,
                   output, result>>

(* An exception anywhere in the candidates ends in the plain synthesis.    *)
Fail == step \notin {"start", "done"} /\ FallBack

Measured(family, m) ==
    [family |-> family, strategy |-> strategy, sim |-> m.sim, drift |-> m.drift,
     fit |-> m.fit, term |-> m.term, latin |-> m.latin, f0 |-> m.f0,
     join |-> IF family = "default" THEN "none" ELSE m.join]

(* Every generated candidate is measured; a strong one ends the search.    *)
AddCandidate(family, reason) ==
    \E m \in Measurements :
        LET c == Measured(family, m) IN
        /\ candidates' = Append(candidates, c)
        /\ stop' = IF StrongGatePass(c) THEN reason ELSE stop

DefaultCandidate ==
    /\ step = "default"
    /\ AddCandidate("default", "default_strong_gate_pass")
    /\ step' = "plan"
    /\ UNCHANGED <<lora, machine, strategy, partCache, plans, output, result>>

PlanSplit ==
    /\ step = "plan"
    /\ IF stop = "none" /\ lora.splitPlanning /\ ShouldSplitCandidate
       THEN \E plan \in {StrategyPlan(0)} :
            /\ plans' = <<[strategy |-> 0, plan |-> plan]>>
            /\ stop' = IF plan.needsTextCompression
                       THEN "needs_text_compression_speech_rate" ELSE stop
            /\ step' = "light"
       ELSE step' = "select" /\ UNCHANGED <<plans, stop>>
    /\ UNCHANGED <<lora, machine, strategy, candidates, partCache, output, result>>

(* _cached_part, for all parts of the current plan.                        *)
SynthesiseParts(families) ==
    LET parts == plans[Len(plans)].plan.parts
        keys  == {<<strategy, f, i>> : f \in families, i \in DOMAIN parts}
    IN  partCache' = partCache \cup keys

SplitLightVector ==
    /\ step = "light" /\ stop = "none" /\ "split_light_vector" \in lora.families
    /\ SynthesiseParts({"split_light_vector"})
    /\ AddCandidate("split_light_vector", "split_light_vector_strong_gate_pass")
    /\ step' = "mix"
    /\ UNCHANGED <<lora, machine, strategy, plans, output, result>>

SplitMix ==
    /\ step = "mix" /\ stop = "none" /\ "split_mix" \in lora.families
    /\ SynthesiseParts({"split_light_vector", "split_emotext"})
    /\ AddCandidate("split_mix", "split_mix_strong_gate_pass")
    /\ step' = "rescue"
    /\ UNCHANGED <<lora, machine, strategy, plans, output, result>>

SkipFamily ==
    /\ \/ step = "light" /\ (stop # "none" \/ "split_light_vector" \notin lora.families)
          /\ step' = "mix"
       \/ step = "mix" /\ (stop # "none" \/ "split_mix" \notin lora.families)
          /\ step' = "rescue"
    /\ UNCHANGED <<lora, machine, strategy, candidates, partCache, plans, stop,
                   output, result>>

(* After a rescue strategy the slow candidates are counted (not after the  *)
(* automatic plan); then the next distinct plan is tried.                  *)
SpeaksTooSlowly == strategy > 0 /\ stop = "none" /\ NeedsShorterText(candidates)

RescueOver ==
    \/ ~lora.rescue \/ stop # "none" \/ SpeaksTooSlowly
    \/ \E i \in DOMAIN candidates : GatePass(candidates[i])

FreshPlans ==
    {t \in {[strategy |-> k, plan |-> StrategyPlan(k)] : k \in (strategy + 1)..Len(RescueSpecs)} :
        \A i \in DOMAIN plans : DistinctPlans(plans[i].plan, t.plan)}

Rescue ==
    /\ step = "rescue"
    /\ stop' = IF SpeaksTooSlowly THEN "needs_text_compression_high_fit_delta" ELSE stop
    /\ \E fresh \in {IF RescueOver THEN {} ELSE FreshPlans} :
          \/ /\ fresh = {}
             /\ step' = "select"
             /\ UNCHANGED <<strategy, plans>>
          \/ \E next \in fresh :
                /\ \A t \in fresh : next.strategy <= t.strategy
                /\ strategy' = next.strategy
                /\ plans' = Append(plans, next)
                /\ step' = "light"
    /\ UNCHANGED <<lora, machine, candidates, partCache, output, result>>

(* The selected audio is copied to the output file, and the default one    *)
(* over it when nothing passed.                                            *)
Select ==
    /\ step = "select"
    /\ LET best == SelectCandidate(candidates)
           chosen == IF GatePass(best) THEN best ELSE candidates[1]
           compress == \/ plans # <<>> /\ plans[1].plan.needsTextCompression
                       \/ NeedsShorterText(candidates)
       IN  /\ output' = chosen
           /\ result' = [family |-> chosen.family,
                         status |-> IF GatePass(best) THEN "selected" ELSE "fallback",
                         compress |-> compress]
    /\ step' = "done"
    /\ UNCHANGED <<lora, machine, strategy, candidates, partCache, plans, stop>>

CandidateNext ==
    \/ Refuse \/ Begin \/ Fail
    \/ DefaultCandidate \/ PlanSplit
    \/ SplitLightVector \/ SplitMix \/ SkipFamily \/ Rescue
    \/ Select

CandidateSpec == CandidateInit /\ [][CandidateNext]_candidateVars

(***************************************************************************)
(* Properties                                                              *)
(***************************************************************************)

CandidateTypeOK ==
    /\ lora \in LoraRequests /\ machine \in Hosts /\ step \in Steps
    /\ strategy \in 0..Len(RescueSpecs)
    /\ \A i \in DOMAIN candidates : candidates[i].strategy \in 0..strategy

(* The output file holds audio that understands to the text, keeps the     *)
(* slot and the terms and joins well, or the audio without the adapter.    *)
ShipsGatedAudio ==
    output \notin {Nil, PlainAudio} /\ output.family # "default" =>
        /\ output.sim >= 970 /\ AbsDrift(output) <= 500 /\ output.fit <= 50
        /\ TermAtLeast(output, 800) /\ output.join # "bad"

(* What ships passed the gates; no candidate that passed is clearly better *)
(* than it, and nothing that passed is discarded for a default that did    *)
(* not.                                                                    *)
ShipsTheBest ==
    /\ ShipsGatedAudio
    /\ step = "done" /\ result.status # "skipped" =>
        \A i \in DOMAIN candidates :
            GatePass(candidates[i]) =>
                /\ result.status = "selected"
                /\ CandidateScore(candidates[i]) <= CandidateScore(output) + 5000

(* A plan speaks the whole text in the target duration: its parts and the  *)
(* pauses it was planned with add up to the target, but for parts at the   *)
(* 50 ms minimum.                                                          *)
PlansFillTheSlot ==
    \A i \in DOMAIN plans :
        LET plan == plans[i].plan
            spoken == Total([k \in DOMAIN plan.parts |-> plan.parts[k].ms])
            pauses == plan.planningPauseMs * (Len(plan.parts) - 1)
        IN  /\ Total([k \in DOMAIN plan.parts |-> CountChars(plan.parts[k].text)])
                   = CountChars(lora.text)
            /\ spoken + pauses >= lora.targetMs
            /\ (\A k \in DOMAIN plan.parts : plan.parts[k].ms > 50)
                   => spoken + pauses = lora.targetMs
==============================================================================
