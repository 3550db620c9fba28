-------------------------------- MODULE MCTts --------------------------------
(* The parts of the ml-service, checked side by side: a run exercises the  *)
(* token budget of plain requests, the candidates of one LoRA request,     *)
(* what concurrent requests share, or the process with its models.         *)
EXTENDS MlService, TtsBudget, TtsSharing, LoraCandidate, TLC

CONSTANTS r1, r2, r3, warm, asrModel, vadModel

MCThreads == {r1, r2, r3}
MCCandidates == {r1, r2}

MCCallers == {r1, r2}
MCKeys    == {asrModel, vadModel}
WarmHangs == {warm}

(* Inline TTS hosts that separate media between synthesis calls, with the  *)
(* two documented permit counts, and a recognition host.                   *)
TtsHost(n) == [inline |-> TRUE, endpoints |-> {"tts", "separate"}, gpu_concurrency |-> n]
AsrHost    == [inline |-> FALSE, endpoints |-> {"asr"}, gpu_concurrency |-> 2]
NoHost     == [inline |-> FALSE, endpoints |-> {}, gpu_concurrency |-> 1]
AllHosts   == {TtsHost(1), TtsHost(2), AsrHost, NoHost}

(* Clauses on both sides of every threshold of the chunker.                *)
Plain(pieces) == [pieces |-> pieces, dropped |-> 0]

TextsUpTo(k, lengths) ==
    {Plain(pieces) : pieces \in UNION {[1..n -> lengths] : n \in 1..k}}

(* Texts with repeated marks: cut, in one chunk, and of marks only.        *)
MarkedTexts ==
    {[pieces |-> <<73, 73>>, dropped |-> 3], [pieces |-> <<100>>, dropped |-> 30],
     [pieces |-> <<>>, dropped |-> 130], [pieces |-> <<40, 60>>, dropped |-> 1]}

EdgeTexts ==
    {Plain(<<1, 111>>), Plain(<<111, 111>>), Plain(<<1>>), Plain(<<73, 40, 230>>)}
    \cup MarkedTexts

(* INDEXTTS2_DURATION_PIECEWISE_TOKEN_RATES's default, in sixteenths.      *)
DefaultTable ==
    <<[limitMs |-> 15000, rate |-> 375], [limitMs |-> 23000, rate |-> 480],
      [limitMs |-> 0, rate |-> 520]>>

TwoGroups == <<[chars |-> 40, targetMs |-> 2000], [chars |-> 73, targetMs |-> 5000]>>

MCSynthRequests ==
    [text : TextsUpTo(2, {40, 73, 230}) \cup EdgeTexts, targetMs : {50, 14000, 40000},
     allowedMs : {0, 14500}, timingMs : {0, 3000}, headroom : {0},
     durationMode : {"off", "embedding"}, minControlMs : {1200},
     usePiecewise : {TRUE}, piecewise : {DefaultTable}, rate : {800},
     groups : {<<>>, TwoGroups}, noChunking : {FALSE}]
    \cup
    [text : TextsUpTo(3, {40, 73}), targetMs : {20, 14000}, allowedMs : {0}, timingMs : {0},
     headroom : {0, 512}, durationMode : {"embedding"}, minControlMs : {50},
     usePiecewise : BOOLEAN, piecewise : {DefaultTable}, rate : {0, 800},
     groups : {<<>>}, noChunking : BOOLEAN]

Clauses(lengths) ==
    [i \in DOMAIN lengths |->
        [n |-> lengths[i], end |-> IF i % 2 = 0 THEN "hard" ELSE "soft"]]

LoraRequest(lengths, ms, families, rescue) ==
    [text |-> Clauses(lengths), targetMs |-> ms, families |-> families,
     splitPlanning |-> TRUE, eligible |-> TRUE, rescue |-> rescue]

BothFamilies == {"split_light_vector", "split_mix"}

(* A short text, one for which four rescue plans differ, once with one     *)
(* family only, and one that cannot be spoken in its slot.                 *)
MCLoraRequests ==
    {LoraRequest(<<30, 44>>, 15000, BothFamilies, FALSE),
     LoraRequest(<<40, 30, 30>>, 20000, BothFamilies, TRUE),
     LoraRequest(<<40, 30, 30>>, 20000, {"split_mix"}, TRUE),
     LoraRequest(<<90, 90>>, 12000, BothFamilies, TRUE)}

MCHosts == [execute : {TRUE}, adapter : BOOLEAN, inline : {TRUE}]

Measured5(sim, drift, fit, term, join) ==
    [sim |-> sim, drift |-> drift, fit |-> fit, term |-> term, latin |-> TRUE,
     f0 |-> 50, join |-> join]

(* Strong; passing but not strong; much too slow; unintelligible; perfect  *)
(* but for a loud join.                                                    *)
MCMeasurements ==
    {Measured5(988, 150, 20, 1000, "pass"), Measured5(980, 450, 10, Nil, "pass"),
     Measured5(990, 900, 70, Nil, "pass"), Measured5(900, 0, 0, 700, "bad"),
     Measured5(996, 20, 10, 1000, "edge")}

(* The parts that a run does not exercise have nothing left to do.         *)
BudgetOff ==
    /\ request = CHOOSE r \in SynthRequests : TRUE
    /\ feedback = NoFeedback /\ calls = <<>> /\ attempts = MaxAttempts

SharingOff ==
    /\ where = [r \in Requests |-> "done"]
    /\ mode = [r \in Requests |-> "plain"] /\ parts = [r \in Requests |-> 0]
    /\ saved = [r \in Requests |-> FALSE] /\ adapter = FALSE
    /\ clip = None /\ tmp = None /\ whole = {}
    /\ writing = [r \in Requests |-> None] /\ prompt = [r \in Requests |-> None]
    /\ crashes = MaxCrashes

CandidateOff ==
    /\ lora = CHOOSE r \in LoraRequests : TRUE
    /\ machine = CHOOSE h \in Hosts : TRUE
    /\ step = "done" /\ strategy = 0
    /\ candidates = <<>> /\ partCache = {} /\ plans = <<>> /\ stop = "none"
    /\ output = PlainAudio
    /\ result = [family |-> "default", status |-> "skipped", compress |-> FALSE]

ServiceOff == Init /\ host = NoHost

mcVars == <<vars, budgetVars, sharingVars, candidateVars>>

MCInit ==
    \/ Init /\ host # NoHost /\ BudgetOff /\ SharingOff /\ CandidateOff
    \/ ServiceOff /\ BudgetInit /\ SharingOff /\ CandidateOff
    \/ ServiceOff /\ BudgetOff /\ SharingInit /\ CandidateOff
    \/ ServiceOff /\ BudgetOff /\ SharingOff /\ CandidateInit

MCNext ==
    \/ host # NoHost /\ Next /\ UNCHANGED <<budgetVars, sharingVars, candidateVars>>
    \/ Attempt /\ UNCHANGED <<vars, sharingVars, candidateVars>>
    \/ SharingNext /\ UNCHANGED <<vars, budgetVars, candidateVars>>
    \/ CandidateNext /\ UNCHANGED <<vars, budgetVars, sharingVars>>

MCSpec == MCInit /\ [][MCNext]_mcVars /\ Fairness
==============================================================================
