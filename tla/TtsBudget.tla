------------------------------ MODULE TtsBudget ------------------------------
(***************************************************************************)
(* How the inline IndexTTS2 adapter (ml_service/app/adapters/tts.py) turns *)
(* a synthesis request into infer calls: the mel-token budget and its      *)
(* feedback across attempts, the duration control, the split of long text  *)
(* into chunks and the budget of each chunk.                               *)
(*                                                                         *)
(* Durations are milliseconds.  A text is what the chunker's regular       *)
(* expression makes of it: the speakable lengths of the pieces it matches, *)
(* each a clause with the boundary mark that ends it, and the number of    *)
(* marks it leaves out, those that follow another mark or lead the text.   *)
(* Token rates are integers per UnitRate.                                  *)
(***************************************************************************)
EXTENDS Sums

CONSTANTS
    SynthRequests, \* the requests considered, records with the fields used below
    MaxAttempts    \* bound on the attempts of one segment

ASSUME BudgetAssumption ==
    /\ MaxAttempts \in Nat
    /\ \A req \in SynthRequests :
          /\ req.text.pieces \in Seq(Nat) /\ req.text.dropped \in Nat
          /\ {req.targetMs, req.allowedMs, req.timingMs, req.headroom} \subseteq Nat
          /\ req.rate \in Int
          /\ req.piecewise \in Seq([limitMs : Nat, rate : Int])
          /\ req.groups \in Seq([chars : Int, targetMs : Int])

Least(a, b)    == IF a < b THEN a ELSE b
Greatest(a, b) == IF a < b THEN b ELSE a

(* round(): to the nearest integer, ties to the even one.                  *)
RoundDiv(n, d) ==
    LET q == n \div d  r == n % d IN
    IF 2 * r > d \/ (2 * r = d /\ q % 2 = 1) THEN q + 1 ELSE q

(***************************************************************************)
(* _split_long_tts_text and _split_oversized_piece                         *)
(***************************************************************************)

MinChars    == 120   \* _LONG_TEXT_CHUNK_MIN_CHARS
TargetChars == 72    \* _LONG_TEXT_CHUNK_TARGET_CHARS
MaxChars    == 110   \* _LONG_TEXT_CHUNK_MAX_CHARS
GapMs       == 80    \* _LONG_TEXT_CHUNK_GAP_SEC

OversizedParts(piece) ==
    IF piece <= MaxChars
    THEN <<piece>>
    ELSE LET full == [i \in 1..(piece \div TargetChars) |-> TargetChars]
             rest == piece % TargetChars
         IN  IF rest = 0 THEN full ELSE Append(full, rest)

(* The loop's state: the finished chunks and the current one (0: empty).   *)
AddPart(state, part) ==
    IF state.current = 0
    THEN [state EXCEPT !.current = part]
    ELSE IF state.current >= TargetChars \/ state.current + part > MaxChars
    THEN [chunks |-> Append(state.chunks, state.current), current |-> part]
    ELSE [state EXCEPT !.current = @ + part]

PackChunks(pieces) ==
    LET parts == FlattenSeq([i \in DOMAIN pieces |-> OversizedParts(pieces[i])])
        end   == FoldLeft(AddPart, [chunks |-> <<>>, current |-> 0], parts)
    IN  IF end.current = 0 THEN end.chunks ELSE Append(end.chunks, end.current)

Speakable(text) == Total(text.pieces) + text.dropped

(* A text of nothing but marks is one piece.                               *)
TextPieces(text) == IF text.pieces = <<>> THEN <<text.dropped>> ELSE text.pieces

\* Mutant: the last chunk is lost.
SplitLongText_NoLast(text) ==
    IF Speakable(text) < MinChars \/ Len(PackChunks(TextPieces(text))) <= 1
    THEN <<Speakable(text)>>
    ELSE Front(PackChunks(TextPieces(text)))

(* A short text, or one that makes a single chunk, is spoken as it is.     *)
SplitLongText(text) ==
    IF Speakable(text) < MinChars \/ Len(PackChunks(TextPieces(text))) <= 1
    THEN <<Speakable(text)>>
    ELSE PackChunks(TextPieces(text))

(***************************************************************************)
(* Token rates and the duration control                                    *)
(***************************************************************************)

TokensPerSec == 50

(* Rates per character are in hundredths: PRIOR_TOKENS_PER_CHAR is 13.5.   *)
PriorPerChar == 1350

\* Mutant: the blended rate has no floor.
BlendTokensPerChar_NoFloor(observed) ==
    IF observed <= 0
    THEN PriorPerChar
    ELSE (6 * observed + 4 * PriorPerChar) \div 10

(* _blend_tokens_per_char: 0.6 observed + 0.4 prior, at least half the     *)
(* prior; 0 stands for no observation.                                     *)
BlendTokensPerChar(observed) ==
    IF observed <= 0
    THEN PriorPerChar
    ELSE Greatest((6 * observed + 4 * PriorPerChar) \div 10, PriorPerChar \div 2)

(* The duration rates are in sixteenths of a token per second, which holds *)
(* the default table "15:23.4375,23:30,default:32.5" exactly.  An entry    *)
(* with limit 0 is the default one; bad entries have been skipped.         *)
UnitRate == 16

ConstantRate(rate) == IF rate <= 0 THEN 50 * UnitRate ELSE rate

(* The first limit above the target, else the last default entry.          *)
DurationTokenRate(req, targetMs) ==
    LET table    == req.piecewise
        usable   == {i \in DOMAIN table : table[i].rate > 0}
        limits   == {i \in usable : table[i].limitMs > 0 /\ targetMs < table[i].limitMs}
        defaults == {i \in usable : table[i].limitMs = 0}
    IN  IF ~req.usePiecewise THEN ConstantRate(req.rate)
        ELSE IF limits # {} THEN table[Min(limits)].rate
        ELSE IF defaults # {} THEN table[Max(defaults)].rate
        ELSE ConstantRate(req.rate)

DurationTokens(req, targetMs) ==
    Greatest(1, RoundDiv(Greatest(50, targetMs) * DurationTokenRate(req, targetMs),
                         1000 * UnitRate))

DurationMaxTokens(req, current, target, allowedMs, targetMs) ==
    LET rate     == DurationTokenRate(req, IF targetMs = 0 THEN allowedMs ELSE targetMs)
        allowed  == (Greatest(50, allowedMs) * rate) \div (1000 * UnitRate)
        ceiling  == IF allowed <= 0 THEN target ELSE allowed
        headroom == target + Least(128, Greatest(24, target \div 4))
    IN  Greatest(64, Least(Greatest(current, headroom),
                           Least(Greatest(target, ceiling), 4096)))

(***************************************************************************)
(* The budget of one infer call                                            *)
(***************************************************************************)

(* target_sec: no slot is shorter than a tenth of a second.                *)
TargetMs(req) == Greatest(100, req.targetMs)

(* Off below the minimum duration (duration_control_min_sec).              *)
Embedding(req) == req.durationMode = "embedding" /\ TargetMs(req) >= req.minControlMs

AllowedMs(req) == IF req.allowedMs > 0 THEN req.allowedMs ELSE TargetMs(req)

Chars(req) == Greatest(1, Speakable(req.text))

Observed(feedback) ==
    IF feedback.actualMs > 0 /\ feedback.chars > 0
    THEN (feedback.actualMs * TokensPerSec) \div (10 * feedback.chars)
    ELSE 0

TokensFromText(req, feedback) ==
    (Chars(req) * BlendTokensPerChar(Observed(feedback)) * 105) \div 10000

TokensFromAllowed(req) == (AllowedMs(req) * TokensPerSec) \div 1000

\* Mutant: the ceiling of the allowed duration is dropped.
TextBudget_NoCeiling(req, feedback) ==
    Greatest(64, Least(TokensFromText(req, feedback), 4096))

(* Text budget under the hard ceiling, then the duration control, then the *)
(* timing plan, then the optional headroom.                                *)
TextBudget(req, feedback) ==
    Greatest(64, Least(Least(TokensFromText(req, feedback), TokensFromAllowed(req)), 4096))

ControlledBudget(req, feedback) ==
    IF Embedding(req)
    THEN DurationMaxTokens(req, TextBudget(req, feedback),
                           DurationTokens(req, TargetMs(req)), AllowedMs(req), TargetMs(req))
    ELSE TextBudget(req, feedback)

MaxMelTokens(req, feedback) ==
    LET timed == IF req.timingMs > 0
                 THEN Greatest(64, Least(ControlledBudget(req, feedback),
                                         (req.timingMs * TokensPerSec) \div 1000))
                 ELSE ControlledBudget(req, feedback)
    IN  IF req.headroom > 0 THEN Least(4096, timed + req.headroom) ELSE timed

(* Timing groups count only when their text is the request's text.         *)
UsableGroups(groups) ==
    FlattenSeq([i \in DOMAIN groups |->
        IF groups[i].chars > 0 /\ groups[i].targetMs > 0 THEN <<groups[i]>> ELSE <<>>])

GroupChars(groups) == [i \in DOMAIN groups |-> groups[i].chars]

TimingGroups(req) ==
    LET usable == UsableGroups(req.groups)
    IN  IF Total(GroupChars(usable)) = Speakable(req.text) THEN usable ELSE <<>>

(* The infer calls: for each chunk its characters and its token budget.    *)
CallChars(req) ==
    IF TimingGroups(req) # <<>> THEN GroupChars(TimingGroups(req))
    ELSE IF req.noChunking THEN <<Speakable(req.text)>>
    ELSE SplitLongText(req.text)

(* The chunk's part of a whole that is shared by characters.               *)
CharShare(req, whole, i) ==
    (whole * CallChars(req)[i]) \div Greatest(1, Total(CallChars(req)))

CallMs(req, i) ==
    IF TimingGroups(req) # <<>> THEN TimingGroups(req)[i].targetMs
    ELSE CharShare(req, TargetMs(req), i)

ChunkTokens(req, budget, i) ==
    LET share == IF TimingGroups(req) # <<>>
                 THEN (TimingGroups(req)[i].targetMs * TokensPerSec) \div 1000
                 ELSE CharShare(req, budget, i)
        text  == Greatest(64, Least(share, 2048))
        ms    == CallMs(req, i)
    IN  IF Embedding(req)
        THEN Least(2048, DurationMaxTokens(req, text, DurationTokens(req, ms), ms + 500, ms))
        ELSE text

InferCalls(req, feedback) ==
    LET budget == MaxMelTokens(req, feedback)
        chunks == CallChars(req)
    IN  [i \in DOMAIN chunks |->
            [chars  |-> chunks[i],
             tokens |-> IF Len(chunks) = 1 THEN budget ELSE ChunkTokens(req, budget, i)]]

CallTokens(calls) == Total([i \in DOMAIN calls |-> calls[i].tokens])

(***************************************************************************)
(* Attempts on one segment.  The caller reports the audio of an attempt    *)
(* back with the next one, or reports nothing.                             *)
(***************************************************************************)

VARIABLES
    request,   \* the segment's request
    feedback,  \* prev_actual_sec, prev_text_chars
    calls,     \* the infer calls of the last attempt
    attempts

budgetVars == <<request, feedback, calls, attempts>>

NoFeedback == [actualMs |-> 0, chars |-> 0]

BudgetInit ==
    /\ request \in SynthRequests
    /\ feedback = NoFeedback
    /\ calls = <<>>
    /\ attempts = 0

(* The model stops anywhere between one token and its budget per call.     *)
ActualMs(used) == (1000 * used) \div TokensPerSec + GapMs * (Len(calls') - 1)

Attempt ==
    /\ attempts < MaxAttempts
    /\ attempts' = attempts + 1
    /\ calls' = InferCalls(request, feedback)
    /\ \E used \in {Len(calls'), CallTokens(calls') \div 2, CallTokens(calls')},
          reported \in BOOLEAN :
          feedback' = IF reported
                      THEN [actualMs |-> ActualMs(used), chars |-> Chars(request)]
                      ELSE NoFeedback
    /\ UNCHANGED request

BudgetSpec == BudgetInit /\ [][Attempt]_budgetVars

(***************************************************************************)
(* Properties                                                              *)
(***************************************************************************)

(* No sequence of truncated or rushed attempts drives the text budget      *)
(* below the one half the prior rate gives: the feedback cannot ratchet    *)
(* it down.                                                                *)
BudgetNeverCollapses ==
    TokensFromText(request, feedback)
        >= (Chars(request) * (PriorPerChar \div 2) * 105) \div 10000

(* Without headroom, timing groups and duration control, the calls of one  *)
(* attempt together stay in the slot the segment may fill, but for the     *)
(* minimum of 64 tokens every call is given.                               *)
CallsStayInSlot ==
    ~Embedding(request) /\ request.headroom = 0 /\ TimingGroups(request) = <<>> =>
        CallTokens(calls) <= TokensFromAllowed(request) + 64 * Len(calls)

SpokenChars == Total([i \in DOMAIN calls |-> calls[i].chars])

(* The calls of an attempt speak the whole text, except that a long text   *)
(* cut into chunks loses the marks that follow another mark: every word is *)
(* spoken, but the pause of the second mark is not.                        *)
CallsSpeakTheText ==
    calls # <<>> =>
        \/ SpokenChars = Speakable(request.text)
        \/ /\ Len(calls) > 1 /\ TimingGroups(request) = <<>> /\ ~request.noChunking
           /\ SpokenChars = Total(request.text.pieces)

(* The calls speak the text, and their token budgets neither collapse nor  *)
(* overrun the slot.                                                       *)
BudgetIsSane == BudgetNeverCollapses /\ CallsStayInSlot /\ CallsSpeakTheText

\* What one infer call may be given: the clamp of every budget.
TokenRange == 1..4096

BudgetTypeOK ==
    /\ request \in SynthRequests
    /\ attempts \in 0..MaxAttempts
    /\ feedback.actualMs >= 0 /\ feedback.chars >= 0
    /\ \A i \in DOMAIN calls : calls[i].tokens \in TokenRange
==============================================================================
