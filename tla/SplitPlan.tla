------------------------------ MODULE SplitPlan ------------------------------
(***************************************************************************)
(* The split planner of the LoRA candidates                                *)
(* (ml_service/app/services/lora_candidate_split.py): a text is cut into   *)
(* parts at clause boundaries, every part gets a share of the target       *)
(* duration, and a part that would have to be spoken too fast is flagged.  *)
(*                                                                         *)
(* A text is a sequence of clauses [n, end]: n characters, and the kind of *)
(* punctuation they end with: "hard" (. ! ?), "soft" (,) or "none".  Texts *)
(* hold none of the protected terms, preferred prefixes and weak endings   *)
(* of the scoring tables; times are milliseconds.                          *)
(***************************************************************************)
EXTENDS Sums

Texts == Seq([n : Nat \ {0}, end : {"hard", "soft", "none"}])

OptionSets ==
    [minTargetMs : Nat, minTextChars : Nat, maxPartMs : Nat, maxPartChars : Nat,
     minPartChars : Nat, maxParts : Nat, pauseMs : Nat, maxRate : Nat]

CeilDiv(n, d) == (n + d - 1) \div d
SmallerOf(a, b) == IF a < b THEN a ELSE b
LargerOf(a, b)  == IF a < b THEN b ELSE a

(* count_chars                                                             *)
CountChars(text) == Total([i \in DOMAIN text |-> text[i].n])

CountAll(texts) == Total([i \in DOMAIN texts |-> CountChars(texts[i])])

(* SplitPlanOptions; rates are characters per 1000 seconds.                *)
DefaultOptions ==
    [minTargetMs |-> 18000, minTextChars |-> 180, maxPartMs |-> 16000,
     maxPartChars |-> 170, minPartChars |-> 24, maxParts |-> 4,
     pauseMs |-> 180, maxRate |-> 5600]

ShouldSplit(text, targetMs, opts) ==
    targetMs >= opts.minTargetMs \/ CountChars(text) >= opts.minTextChars

(***************************************************************************)
(* Cutting                                                                 *)
(***************************************************************************)

(* split_with_delimiters: a group ends with a clause of one of the kinds.  *)
EndGroup(ends, acc, c) ==
    IF c.end \in ends
    THEN [done |-> Append(acc.done, Append(acc.open, c)), open |-> <<>>]
    ELSE [acc EXCEPT !.open = Append(@, c)]

Groups(text, ends) ==
    LET out == FoldLeft(LAMBDA acc, c : EndGroup(ends, acc, c),
                        [done |-> <<>>, open |-> <<>>], text)
    IN  IF out.open = <<>> THEN out.done ELSE Append(out.done, out.open)

(* The positions after which a punctuation mark stands.                    *)
Boundaries(text) ==
    {CountChars(SubSeq(text, 1, i)) : i \in {j \in DOMAIN text : text[j].end # "none"}}

(* split_index_score, lower is better.                                     *)
SplitIndexScore(cut, desired, boundaries) ==
    (IF cut > desired THEN cut - desired ELSE desired - cut)
    - (IF cut \in boundaries THEN 10 ELSE 0)
    + (IF cut + 1 \in boundaries THEN 8 ELSE 0)

(* The cuts looked at: around the wanted one, not too close to the ends.   *)
CutWindow(len, desired) ==
    LET window == LargerOf(8, SmallerOf(30, CeilDiv(len, 4)))
        side   == LargerOf(1, SmallerOf(8, len \div 5))
    IN  LargerOf(side, desired - window)..SmallerOf(len - side, desired + window)

LowestCut(cuts, desired, marks) ==
    LET score == [c \in cuts |-> SplitIndexScore(c, desired, marks)] IN
    CHOOSE c \in cuts : \A d \in cuts :
        IF d < c THEN score[c] < score[d] ELSE score[c] <= score[d]

(* choose_safe_split_index                                                 *)
ChooseSplitIndex(text, wanted) ==
    LET len     == CountChars(text)
        desired == LargerOf(1, SmallerOf(wanted, len - 1))
        near    == CutWindow(len, desired)
    IN  LowestCut(IF near = {} THEN 1..(len - 1) ELSE near, desired, Boundaries(text))

CharsBefore(text, i) == CountChars(SubSeq(text, 1, i - 1))

(* The clause that holds the last character before the cut.                *)
ClauseAt(text, cut) ==
    CHOOSE i \in DOMAIN text : /\ CharsBefore(text, i) < cut
                               /\ cut <= CharsBefore(text, i) + text[i].n

(* What stands left and right of so many characters inside a clause.       *)
LeftAt(text, at, inside) ==
    LET end == IF inside = text[at].n THEN text[at].end ELSE "none"
    IN  Append(SubSeq(text, 1, at - 1), [n |-> inside, end |-> end])

RightAt(text, at, inside) ==
    LET rest == SubSeq(text, at + 1, Len(text))
    IN  IF inside = text[at].n THEN rest
        ELSE <<[n |-> text[at].n - inside, end |-> text[at].end]>> \o rest

(* text[:cut] and text[cut:]                                               *)
LeftOf(text, cut) ==
    LET at == ClauseAt(text, cut) IN LeftAt(text, at, cut - CharsBefore(text, at))

RightOf(text, cut) ==
    LET at == ClauseAt(text, cut) IN RightAt(text, at, cut - CharsBefore(text, at))

(* split_long_run: chunks are cut off until the rest fits.                 *)
RestFrom(text, start) == IF start = 0 THEN text ELSE RightOf(text, start)

ChunksFrom(text, maxChars) ==
    LET chunks[start \in 0..CountChars(text)] ==
            LET rest == RestFrom(text, start)
                cut  == ChooseSplitIndex(rest, maxChars)
            IN  IF CountChars(rest) <= maxChars THEN <<rest>>
                ELSE <<LeftOf(rest, cut)>> \o chunks[start + cut]
    IN  chunks

SplitLongRun(text, maxChars) ==
    IF text = <<>> THEN <<>>
    ELSE IF maxChars = 0 THEN <<text>>
    ELSE ChunksFrom(text, maxChars)[0]

(* split_breath_groups: sentences, long ones at their clauses, long        *)
(* clauses by length.                                                      *)
Pieces(text, maxChars) ==
    IF CountChars(text) <= maxChars THEN <<text>> ELSE SplitLongRun(text, maxChars)

ExpandGroup(group, maxChars) ==
    LET soft == Groups(group, {"soft"}) IN
    IF CountChars(group) <= maxChars THEN <<group>>
    ELSE FlattenSeq([i \in DOMAIN soft |-> Pieces(soft[i], maxChars)])

BreathGroups(text, maxChars) ==
    LET groups == Groups(text, {"hard"})
    IN  FlattenSeq([i \in DOMAIN groups |-> ExpandGroup(groups[i], maxChars)])

(***************************************************************************)
(* Packing                                                                 *)
(***************************************************************************)

AppendToLast(parts, text) == [parts EXCEPT ![Len(parts)] = @ \o text]

(* pack_short_groups: groups of at least minChars; a short rest joins the  *)
(* last one.                                                               *)
PackShort(minChars, acc, g) ==
    LET open == acc.open \o g IN
    IF CountChars(open) >= minChars
    THEN [packed |-> Append(acc.packed, open), open |-> <<>>]
    ELSE [acc EXCEPT !.open = open]

PackShortGroups(groups, minChars) ==
    LET out == FoldLeft(LAMBDA acc, g : PackShort(minChars, acc, g),
                        [packed |-> <<>>, open |-> <<>>], groups)
    IN  IF Len(groups) <= 1 \/ minChars = 0 THEN groups
        ELSE IF out.open = <<>> THEN out.packed
        ELSE IF out.packed # <<>> THEN AppendToLast(out.packed, out.open)
        ELSE <<out.open>>

ChoosePartCount(chars, targetMs, opts) ==
    LargerOf(2, SmallerOf(LargerOf(opts.maxParts, 1),
                          LargerOf(CeilDiv(targetMs, opts.maxPartMs),
                                   CeilDiv(chars, opts.maxPartChars))))

(* pack_to_part_count: even shares, never more than count parts.           *)
PackPart(target, count, acc, g) ==
    IF acc.open # <<>> /\ CountChars(acc.open) >= target /\ Len(acc.packed) < count - 1
    THEN [packed |-> Append(acc.packed, acc.open), open |-> g]
    ELSE [acc EXCEPT !.open = @ \o g]

PackToPartCount(groups, count) ==
    LET target == LargerOf(1, CeilDiv(CountAll(groups), count))
        out == FoldLeft(LAMBDA acc, g : PackPart(target, count, acc, g),
                        [packed |-> <<>>, open |-> <<>>], groups)
    IN  IF Len(groups) <= count THEN groups
        ELSE IF out.open = <<>> THEN out.packed ELSE Append(out.packed, out.open)

(* The groups the parts are packed from.                                   *)
PartGroups(text, opts) ==
    PackShortGroups(BreathGroups(text, opts.maxPartChars), opts.minPartChars)

(* When packing leaves one part, the text is cut in the middle.            *)
AtLeastTwo(parts, text) ==
    IF Len(parts) > 1 THEN parts
    ELSE SplitLongRun(text, LargerOf(1, CeilDiv(CountChars(text), 2)))

SplitPartOnce(text, opts) ==
    IF CountChars(text) <= 1 THEN <<text>>
    ELSE AtLeastTwo(PackToPartCount(PartGroups(text, opts), 2), text)

(* merge_tiny_islands: parts of at most three characters join a neighbour. *)
Tiny(text) == CountChars(text) <= 3

MergeTiny(merged, text) ==
    IF merged = <<>> THEN <<text>>
    ELSE IF Tiny(text) \/ (Len(merged) = 1 /\ Tiny(merged[1]))
    THEN AppendToLast(merged, text)
    ELSE Append(merged, text)

MergeTinyIslands(parts) == FoldLeft(MergeTiny, <<>>, parts)

\* Mutant: the pauses are not taken off the speech time.
SpeechMs_NoPause(parts, targetMs, opts) == LargerOf(50 * Len(parts), targetMs)

(* The duration left for speech: estimated_part_seconds.                   *)
SpeechMs(parts, targetMs, opts) ==
    LargerOf(50 * Len(parts), targetMs - opts.pauseMs * (Len(parts) - 1))

(* A part's estimate is its share by characters; it is kept exact, in      *)
(* milliseconds times the characters of all parts.                         *)
EstimatedMs(parts, targetMs, opts) ==
    [i \in DOMAIN parts |-> SpeechMs(parts, targetMs, opts) * CountChars(parts[i])]

Longest(ms) ==
    CHOOSE i \in DOMAIN ms : \A j \in DOMAIN ms :
        IF j < i THEN ms[j] < ms[i] ELSE ms[j] <= ms[i]

(* enforce_max_part_seconds: the longest part is split while it is too     *)
(* long and there is room for another part.                                *)
JoinFrom(split, room) ==
    IF Len(split) - 1 <= room THEN split
    ELSE Append(SubSeq(split, 1, room),
                FlattenSeq(SubSeq(split, room + 1, Len(split))))

ReplacePart(parts, w, split) ==
    SubSeq(parts, 1, w - 1) \o split \o SubSeq(parts, w + 1, Len(parts))

(* The parts w makes take the room that is left.                           *)
WithSplit(parts, w, split, room) ==
    IF Len(split) < 2 THEN parts ELSE ReplacePart(parts, w, JoinFrom(split, room))

SplitLongest(parts, targetMs, opts) ==
    LET ms   == EstimatedMs(parts, targetMs, opts)
        w    == Longest(ms)
        room == LargerOf(1, opts.maxParts) - Len(parts)
    IN  IF room <= 0 \/ ms[w] <= opts.maxPartMs * CountAll(parts) THEN parts
        ELSE WithSplit(parts, w, SplitPartOnce(parts[w], opts), room)

SplitLongParts(parts, targetMs, opts) ==
    LET after[n \in 0..opts.maxParts] ==
            IF n = 0 THEN parts ELSE SplitLongest(after[n - 1], targetMs, opts)
    IN  after[opts.maxParts]

EnforceMaxPartMs(parts, targetMs, opts) ==
    IF Len(parts) < 2 THEN parts
    ELSE MergeTinyIslands(SplitLongParts(parts, targetMs, opts))

(***************************************************************************)
(* The plan                                                                *)
(***************************************************************************)

SplitParts(text, targetMs, opts) ==
    LET count  == ChoosePartCount(CountChars(text), targetMs, opts)
        packed == PackToPartCount(PartGroups(text, opts), count)
    IN  MergeTinyIslands(EnforceMaxPartMs(AtLeastTwo(packed, text), targetMs, opts))

(* round(): ties to even.                                                  *)
RoundMs(n, d) ==
    LET q == n \div d  r == n % d IN
    IF 2 * r > d \/ (2 * r = d /\ q % 2 = 1) THEN q + 1 ELSE q

(* Every part but the last gets its share, the last one what is left.      *)
ShareMs(parts, speech, i) ==
    LargerOf(50, RoundMs(speech * CountChars(parts[i]), LargerOf(1, CountAll(parts))))

PartMs(parts, speech) ==
    LET share == [i \in DOMAIN parts |-> ShareMs(parts, speech, i)] IN
    [share EXCEPT ![Len(parts)] =
        LargerOf(50, speech - Total(SubSeq(share, 1, Len(parts) - 1)))]

PlanOfParts(parts, targetMs, opts) ==
    LET ms == PartMs(parts, SpeechMs(parts, targetMs, opts))
    IN  [parts   |-> [i \in DOMAIN parts |-> [text |-> parts[i], ms |-> ms[i]]],
         pauseMs |-> opts.pauseMs,
         planningPauseMs |-> opts.pauseMs,
         needsTextCompression |->
             \E i \in DOMAIN parts : 1000000 * CountChars(parts[i]) > opts.maxRate * ms[i]]

(* build_split_plan                                                        *)
BuildSplitPlan(text, targetMs, opts) ==
    PlanOfParts(SplitParts(text, targetMs, opts), targetMs, opts)
==============================================================================
