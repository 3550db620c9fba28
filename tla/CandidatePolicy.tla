--------------------------- MODULE CandidatePolicy ---------------------------
(***************************************************************************)
(* Which segments get LoRA candidates, decided twice: by the pipeline when *)
(* it synthesises (internal/pipeline/lora_candidate_strategy.go) and by    *)
(* the monitor of a shadow episode when it looks for segments that should  *)
(* have had candidate audio (tools/lora_episode_candidate_monitor.py).     *)
(*                                                                         *)
(* A text in its slot is [ms, chars, text]: the slot, the characters, and  *)
(* the marks the two look at, in order: a full-width or ASCII question     *)
(* mark, a question cue, "good" (an agreement the pipeline reads) or       *)
(* "bare" (one only the monitor reads), a verb of going on, and a term     *)
(* marker after a number or after something else.  Rates are characters    *)
(* per ten seconds.  A segment's shape is the text it displays and the     *)
(* text it speaks, in which numbers and server labels are spelt out.       *)
(***************************************************************************)
EXTENDS Integers, Sequences

Marks == {"wide?", "ascii?", "cue", "good", "bare", "verb", "numbered", "unnumbered"}

(* The defaults of the configuration, and of the monitor's parse_args.     *)
PolicyThresholds ==
    [minMs |-> 18000, minChars |-> 180, denseMs |-> 9000, denseRate |-> 49,
     nearMs |-> 16000, nearChars |-> 70,
     dense      |-> [from |-> 6000, to |-> 9000, rate |-> 55],
     transition |-> [from |-> 5000, to |-> 10000, rate |-> 50],
     term       |-> [from |-> 6000, to |-> 9000, rate |-> 48]]

\* Mutant: one default of the monitor is an older one.
MonitorThresholds_Older == [PolicyThresholds EXCEPT !.dense.rate = 50]

MonitorThresholds ==
    [minMs |-> 18000, minChars |-> 180, denseMs |-> 9000, denseRate |-> 49,
     nearMs |-> 16000, nearChars |-> 70,
     dense      |-> [from |-> 6000, to |-> 9000, rate |-> 55],
     transition |-> [from |-> 5000, to |-> 10000, rate |-> 50],
     term       |-> [from |-> 6000, to |-> 9000, rate |-> 48]]

Reaches(s, rate) == s.ms > 0 /\ s.chars * 10000 >= rate * s.ms

InBand(s, band) ==
    /\ band.from > 0 /\ band.to > 0 /\ band.rate > 0
    /\ s.ms \in band.from..band.to
    /\ Reaches(s, band.rate)

(* newLoraCandidatePlan's rule. A threshold of zero switches the two plain *)
(* rules to "always", the others to "never".                               *)
ByThresholds(t, s, transition, term) ==
    \/ t.minMs <= 0 \/ s.ms >= t.minMs
    \/ t.minChars <= 0 \/ s.chars >= t.minChars
    \/ t.denseMs > 0 /\ t.denseRate > 0 /\ s.ms >= t.denseMs /\ Reaches(s, t.denseRate)
    \/ t.nearMs > 0 /\ t.nearChars > 0 /\ s.ms >= t.nearMs /\ s.chars >= t.nearChars
    \/ InBand(s, t.dense)
    \/ InBand(s, t.transition) /\ transition
    \/ InBand(s, t.term) /\ term

Places(text, marks) == {i \in DOMAIN text : text[i] \in marks}

FirstOf(places) == CHOOSE i \in places : \A j \in places : i <= j

(* A question with a cue before the mark at q, and an agreement and a verb *)
(* of going on after it.                                                   *)
AroundQuestion(text, q, agreements) ==
    /\ \E i \in Places(text, {"cue"}) : i < q
    /\ \E i \in Places(text, agreements) : i > q
    /\ \E i \in Places(text, {"verb"}) : i > q

(* The pipeline looks for a full-width mark before an ASCII one.           *)
PolicyTransition(text) ==
    LET wide  == Places(text, {"wide?"})
        ascii == Places(text, {"ascii?"})
    IN  \/ wide # {} /\ AroundQuestion(text, FirstOf(wide), {"good"})
        \/ wide = {} /\ ascii # {} /\ AroundQuestion(text, FirstOf(ascii), {"good"})

(* The monitor takes the first of either.                                  *)
MonitorTransition(text) ==
    LET marks == Places(text, {"wide?", "ascii?"})
    IN  marks # {} /\ AroundQuestion(text, FirstOf(marks), {"good", "bare"})

(* Only the first term marker counts.                                      *)
TermNumber(text) ==
    LET terms == Places(text, {"numbered", "unnumbered"})
    IN  terms # {} /\ text[FirstOf(terms)] = "numbered"

(* newLoraCandidatePlan. The request of an attempt is planned on the text  *)
(* it speaks, the plan stored with the segment on the text it displays.    *)
Planned(s) == ByThresholds(PolicyThresholds, s, PolicyTransition(s.text), TermNumber(s.text))

(* maybeEscalateLoraCandidateForRetry and its eligibility, at the defaults *)
(* of the configuration: a later attempt of a segment without a plan.      *)
Escalated(s, attempt) ==
    /\ attempt >= 2
    /\ ~Planned(s)
    /\ s.ms \in 5000..12000 /\ s.chars >= 28 /\ Reaches(s, 45)

(* is_eligible                                                             *)
MonitorEligible(s) ==
    ByThresholds(MonitorThresholds, s, MonitorTransition(s.text), TermNumber(s.text))

(* Texts that the two transition rules read alike.                         *)
ReadAlike(text) ==
    /\ Places(text, {"bare"}) = {}
    /\ Places(text, {"wide?"}) = {} \/ Places(text, {"ascii?"}) = {}
==============================================================================
