---------------------------- MODULE ShadowProofs -----------------------------
(***************************************************************************)
(* Proofs about ShadowAudit: the audit listens to every segment in a part  *)
(* of the mix of its own, its report is about the episode it is for        *)
(* although the run directory is used again and again, what worries the    *)
(* monitor is in the review pack, and the monitor expects candidate audio  *)
(* where the pipeline plans it. They hold for any shadows, slots, texts    *)
(* and takes, and for any number of reworks, starts and faults.            *)
(***************************************************************************)
EXTENDS ShadowAudit, FiniteSetTheorems, SequenceTheorems, WellFoundedInduction, TLAPS

----------------------------------------------------------------------------
(* What the segment table holds                                            *)

Made(s, row) == \E shape \in Shapes[s], take \in Takes[s] : row = Synthesized(shape, take)

(* A segment is pending, skipped, or has a take of its own, with the plan  *)
(* and the eligibility that one of its texts gives.                        *)
RowsAreMade ==
    /\ segment = [s \in AllSegments |-> segment[s]]
    /\ \A s \in AllSegments :
          segment[s] = Pending \/ segment[s] = Skipped \/ Made(s, segment[s])

(* The three kinds of rows are told apart by their status.                 *)
LEMMA RowKinds ==
    /\ Pending.status = "pending" /\ Skipped.status = "skipped"
    /\ \A shape, take :
          LET row == Synthesized(shape, take)
          IN  /\ row.status = "synthesized" /\ row.take = take
              /\ row.planned = Planned(shape.display) /\ row.eligible = MonitorEligible(shape.display)
              /\ row.asked = Planned(shape.spoken)
              /\ row.spokenAsShown = (shape.spoken = shape.display)
              /\ row.alike = ReadAlike(shape.display.text)
BY DEF Pending, Skipped, Synthesized

LEMMA RowsAreMadeInit == ShadowInit => RowsAreMade
<1> SUFFICES ASSUME ShadowInit PROVE RowsAreMade
  OBVIOUS
<1>1. segment = [s \in AllSegments |-> IF s[1] \in Ready THEN ReadyRow(s) ELSE Pending]
  BY DEF ShadowInit
<1>2. ASSUME NEW s \in AllSegments, s[1] \in Ready, s \notin Silent
      PROVE  Made(s, ReadyRow(s))
  <2>1. Shapes[s] # {} /\ Takes[s] # {}
    BY <1>2, ShadowAssumption
  <2>2. PICK shape \in Shapes[s], take \in Takes[s] : ReadyRow(s) = Synthesized(shape, take)
    BY <1>2, <2>1 DEF ReadyRow
  <2> QED
    BY <2>2 DEF Made
<1>3. ASSUME NEW s \in AllSegments, s \in Silent
      PROVE  ReadyRow(s) = Skipped
  BY <1>3 DEF ReadyRow
<1>4. ASSUME NEW s \in AllSegments
      PROVE  segment[s] = Pending \/ segment[s] = Skipped \/ Made(s, segment[s])
  BY <1>1, <1>2, <1>3
<1> QED
  BY <1>1, <1>4 DEF RowsAreMade

(* A step writes at most the row of one segment.                           *)
LEMMA SegmentStep ==
    ASSUME [ShadowNext]_shadowVars
    PROVE  \/ UNCHANGED segment
           \/ \E s \in AllSegments : Synthesize(s) \/ SkipSegment(s) \/ ReworkSegment(s)
<1>1. CASE UNCHANGED shadowVars
  BY <1>1 DEF shadowVars
<1>2. CASE EpisodeStep
  BY <1>2 DEF EpisodeStep, MergeShadow
<1>3. CASE \E e \in Shadows : Start(e)
  BY <1>3 DEF Start
<1>4. CASE AutoStep
  BY <1>4 DEF AutoStep, RunMonitor, QueryCompletion, WakeUp, ExtractAudio, StartBatch, BatchRow,
        BatchEnds, ChunkRetry, WriteReport, BuildPack, UnchangedHere
<1>5. CASE BatchFails \/ HostKilled \/ OrphanRow
  BY <1>5 DEF BatchFails, HostKilled, OrphanRow
<1> QED
  BY <1>1, <1>2, <1>3, <1>4, <1>5 DEF ShadowNext

LEMMA RowsAreMadeStep == RowsAreMade /\ [ShadowNext]_shadowVars => RowsAreMade'
<1> SUFFICES ASSUME RowsAreMade, [ShadowNext]_shadowVars PROVE RowsAreMade'
  OBVIOUS
<1>1. CASE UNCHANGED segment
  BY <1>1 DEF RowsAreMade, Made
<1>2. ASSUME NEW s \in AllSegments, Synthesize(s) \/ SkipSegment(s) \/ ReworkSegment(s)
      PROVE  RowsAreMade'
  <2>1. PICK row : /\ segment' = [segment EXCEPT ![s] = row]
                   /\ row = Pending \/ row = Skipped \/ Made(s, row)
    <3>1. CASE SkipSegment(s) \/ ReworkSegment(s)
      BY <3>1 DEF SkipSegment, ReworkSegment
    <3>2. CASE Synthesize(s)
      <4>1. PICK made \in SynthesizedRows[s] : segment' = [segment EXCEPT ![s] = made]
        BY <3>2 DEF Synthesize
      <4>2. PICK p \in Shapes[s] \X Takes[s] : made = Synthesized(p[1], p[2])
        BY <4>1 DEF SynthesizedRows
      <4>3. Made(s, made)
        BY <4>2 DEF Made
      <4> QED
        BY <4>1, <4>3
    <3> QED
      BY <1>2, <3>1, <3>2
  <2>2. ASSUME NEW t \in AllSegments
        PROVE  segment'[t] = IF t = s THEN row ELSE segment[t]
    BY <2>1, <2>2 DEF RowsAreMade
  <2>3. segment' = [t \in AllSegments |-> segment'[t]]
    BY <2>1 DEF RowsAreMade
  <2>4. ASSUME NEW t \in AllSegments
        PROVE  segment'[t] = Pending \/ segment'[t] = Skipped \/ Made(t, segment'[t])
    BY <2>1, <2>2 DEF RowsAreMade
  <2>5. \A t \in AllSegments : Made(t, segment'[t]) <=> Made(t, segment[t])'
    BY DEF Made
  <2> QED
    BY <2>3, <2>4, <2>5 DEF RowsAreMade
<1> QED
  BY <1>1, <1>2, SegmentStep

LEMMA RowsStayMade == ShadowSpec => []RowsAreMade
<1> QED
  BY RowsAreMadeInit, RowsAreMadeStep, PTL DEF ShadowSpec

----------------------------------------------------------------------------
(* The monitor and the pipeline read a text                                *)

(* A text without a bare agreement and without both kinds of question      *)
(* marks is a transition for the one when it is for the other.             *)
LEMMA TransitionsAgree ==
    ASSUME NEW text, ReadAlike(text)
    PROVE  PolicyTransition(text) <=> MonitorTransition(text)
<1> DEFINE wide  == Places(text, {"wide?"})
           ascii == Places(text, {"ascii?"})
           both  == Places(text, {"wide?", "ascii?"})
<1>1. Places(text, {"good", "bare"}) = Places(text, {"good"})
  BY DEF ReadAlike, Places
<1>2. \A q : AroundQuestion(text, q, {"good", "bare"}) <=> AroundQuestion(text, q, {"good"})
  BY <1>1 DEF AroundQuestion
<1>3. both = wide \cup ascii /\ (wide = {} \/ ascii = {})
  BY DEF ReadAlike, Places
<1> HIDE DEF wide, ascii, both
<1>4. CASE wide = {}
  <2>1. both = ascii
    BY <1>3, <1>4
  <2> QED
    BY <1>2, <1>4, <2>1 DEF PolicyTransition, MonitorTransition, wide, ascii, both
<1>5. CASE wide # {}
  <2>1. both = wide
    BY <1>3, <1>5
  <2> QED
    BY <1>2, <1>5, <2>1 DEF PolicyTransition, MonitorTransition, wide, ascii, both
<1> QED
  BY <1>4, <1>5

LEMMA PlansAgree ==
    ASSUME NEW text, ReadAlike(text.text)
    PROVE  MonitorEligible(text) = Planned(text)
<1>1. PolicyThresholds = MonitorThresholds
  BY DEF PolicyThresholds, MonitorThresholds
<1>2. MonitorEligible(text) <=> Planned(text)
  BY <1>1, TransitionsAgree DEF MonitorEligible, Planned, ByThresholds
<1> QED
  BY <1>2 DEF MonitorEligible, Planned, ByThresholds

(* The monitor finds every segment whose stored plan wants a candidate,    *)
(* and no other, where the two read the text alike; and those the pipeline *)
(* asked candidates for, where it speaks the text that is displayed.       *)
THEOREM MonitorMirrors == ShadowSpec => []MonitorMirrorsPolicy
<1>1. RowsAreMade => MonitorMirrorsPolicy
  <2> SUFFICES ASSUME RowsAreMade, NEW s \in AllSegments,
                      segment[s].status = "synthesized", segment[s].alike
               PROVE  /\ segment[s].eligible = segment[s].planned
                      /\ segment[s].spokenAsShown => segment[s].eligible = segment[s].asked
    BY DEF MonitorMirrorsPolicy
  <2>1. PICK shape \in Shapes[s], take \in Takes[s] : segment[s] = Synthesized(shape, take)
    BY RowKinds DEF RowsAreMade, Made
  <2>2. ReadAlike(shape.display.text)
    BY <2>1, RowKinds
  <2>3. MonitorEligible(shape.display) = Planned(shape.display)
    BY <2>2, PlansAgree
  <2>4. segment[s].eligible = segment[s].planned
    BY <2>1, <2>3, RowKinds
  <2>5. ASSUME segment[s].spokenAsShown
        PROVE  segment[s].eligible = segment[s].asked
    <3>1. shape.spoken = shape.display
      BY <2>1, <2>5, RowKinds
    <3> QED
      BY <2>1, <2>3, <3>1, RowKinds
  <2> QED
    BY <2>4, <2>5
<1> QED
  BY <1>1, RowsStayMade, PTL

----------------------------------------------------------------------------
(* The part of the mix that belongs to a segment                           *)

LEMMA SlotTyped ==
    ASSUME NEW e \in Shadows
    PROVE  /\ Segments(e) = 1..Len(Slots[e]) /\ Len(Slots[e]) \in Nat
           /\ \A i \in Segments(e) : Slots[e][i].start \in Nat /\ Slots[e][i].end \in Nat
<1>1. Slots[e] \in Seq([start : Nat, end : Nat])
  BY ShadowAssumption
<1>2. Segments(e) = 1..Len(Slots[e]) /\ Len(Slots[e]) \in Nat
  BY <1>1 DEF Segments
<1>3. ASSUME NEW i \in Segments(e)
      PROVE  Slots[e][i] \in [start : Nat, end : Nat]
  BY <1>1, <1>2, ElementOfSeq
<1> QED
  BY <1>2, <1>3

(* A synthesised segment has a drift, and so a spoken length.              *)
LEMMA SpokenIsNumber ==
    ASSUME RowsAreMade, NEW e \in Shadows, NEW i \in Segments(e)
    PROVE  SpokenMs(e, i) \in Int
<1> DEFINE s == <<e, i>>
<1>1. s \in AllSegments
  BY DEF AllSegments
<1>2. Slots[e][i].end \in Int /\ Slots[e][i].start \in Int
  BY SlotTyped
<1>3. CASE segment[s].status # "synthesized"
  BY <1>3 DEF SpokenMs
<1>4. CASE segment[s].status = "synthesized"
  <2>1. PICK shape \in Shapes[s], take \in Takes[s] : segment[s] = Synthesized(shape, take)
    BY <1>1, <1>4, RowKinds DEF RowsAreMade, Made
  <2>2. take \in TakeSpace
    BY <1>1, <2>1, ShadowAssumption
  <2>3. segment[s].take.drift \in Int
    BY <2>1, <2>2, RowKinds DEF TakeSpace
  <2> QED
    BY <1>2, <1>4, <2>3 DEF SpokenMs
<1> QED
  BY <1>3, <1>4

(* However far a take overruns its slot, its window ends where the next    *)
(* segment starts, and it holds something.                                 *)
LEMMA WindowEndsInTime ==
    ASSUME RowsAreMade, NEW e \in Shadows, NEW i \in Segments(e)
    PROVE  /\ WindowMs(e, i) > 0
           /\ i < Len(Slots[e]) => WindowEnd(e, i) <= Slots[e][i + 1].start
<1>1. FinalMs[e] \in Nat
  BY ShadowAssumption
<1>2. /\ Segments(e) = 1..Len(Slots[e]) /\ Len(Slots[e]) \in Nat
      /\ \A j \in Segments(e) : Slots[e][j].start \in Nat /\ Slots[e][j].end \in Nat
  BY SlotTyped
<1>3. \A j \in Segments(e) :
          /\ Slots[e][j].start < FinalMs[e]
          /\ j > 1 => Slots[e][j - 1].start < Slots[e][j].start
  BY ShadowAssumption
<1> DEFINE start   == Slots[e][i].start
           next    == IF i = Len(Slots[e]) THEN FinalMs[e]
                      ELSE Greatest(start + 1, Slots[e][i + 1].start - NextGap)
           planned == Greatest(Slots[e][i].end, start + SpokenMs(e, i)) + PostPad
           end     == WindowEnd(e, i)
<1>4. start \in Nat /\ start < FinalMs[e]
  BY <1>2, <1>3
<1>5. planned \in Int
  BY <1>2, <1>4, SpokenIsNumber DEF Greatest, PostPad
<1>6. next \in Int /\ next > start
  <2>1. CASE i = Len(Slots[e])
    BY <1>1, <1>4, <2>1
  <2>2. CASE i # Len(Slots[e])
    <3>1. Slots[e][i + 1].start \in Nat
      BY <1>2, <2>2
    <3> QED
      BY <1>4, <2>2, <3>1 DEF Greatest, NextGap
  <2> QED
    BY <2>1, <2>2
<1>7. ASSUME i < Len(Slots[e])
      PROVE  next <= Slots[e][i + 1].start
  <2>1. i + 1 \in Segments(e) /\ i + 1 > 1 /\ (i + 1) - 1 = i
    BY <1>2, <1>7
  <2>2. start < Slots[e][i + 1].start /\ Slots[e][i + 1].start \in Nat
    BY <1>2, <1>3, <2>1
  <2> QED
    BY <1>4, <1>7, <2>2 DEF Greatest, NextGap
<1>8. end = Least(Greatest(start + MinWindow, Least(planned, next)), Least(next, FinalMs[e]))
  BY DEF WindowEnd
<1> HIDE DEF start, next, planned, end
<1>9. end \in Int /\ end > start /\ end <= next
  BY <1>1, <1>4, <1>5, <1>6, <1>8 DEF Least, Greatest, MinWindow
<1>10. WindowMs(e, i) = end - start
  BY DEF WindowMs, start, end
<1>11. i < Len(Slots[e]) => end <= Slots[e][i + 1].start
  <2> SUFFICES ASSUME i < Len(Slots[e]) PROVE end <= Slots[e][i + 1].start
    OBVIOUS
  <2>1. Slots[e][i + 1].start \in Nat
    BY <1>2
  <2> QED
    BY <1>6, <1>7, <1>9, <2>1
<1> QED
  BY <1>4, <1>9, <1>10, <1>11 DEF end

(* Every segment is listened to in a part of the mix of its own, whatever  *)
(* takes the agent loop settled on.                                        *)
THEOREM WindowsStayDisjoint == ShadowSpec => []WindowsDisjoint
<1>1. RowsAreMade => WindowsDisjoint
  BY WindowEndsInTime DEF WindowsDisjoint
<1> QED
  BY <1>1, RowsStayMade, PTL

----------------------------------------------------------------------------
(* The processes and the run directory                                     *)

AutoRecords ==
    [pc : AutoPlaces, shadow : Shadows \cup {"none"}, ids : SUBSET AllSegments,
     changed : SUBSET AllSegments, known : SUBSET Rows]

FileRecords ==
    [wav : Shadows \cup {"none"}, raw : SUBSET Rows, rest : SUBSET Rows,
     report : {NoPaper} \cup [shadow : Shadows, rows : SUBSET Rows, pass : BOOLEAN],
     pack : {NoPaper} \cup [shadow : Shadows, ids : SUBSET AllSegments]]

Items(e, numbers) == {<<e, i>> : i \in numbers}

(* A batch process has heard segments of its shadow, and none of those     *)
(* that it has still to do.                                                *)
ProperBatch(b) ==
    /\ b \in [shadow : Shadows, todo : SUBSET Nat, rows : SUBSET Rows]
    /\ b.todo \subseteq Segments(b.shadow)
    /\ \A r \in b.rows : r.seg \in Items(b.shadow, Segments(b.shadow) \ b.todo)

(* The audio that lies there is the one the audit has extracted; the batch *)
(* it waits for is its own, and what is known, heard and still to be heard *)
(* makes up the episode.                                                   *)
HostHolds ==
    /\ auto \in AutoRecords /\ files \in FileRecords
    /\ auto.pc # "stopped" => auto.shadow \in Shadows
    /\ auto.pc \in {"read", "asr", "retry", "report", "pack"} => files.wav = auto.shadow
    /\ auto.pc # "asr" => batch = NoBatch
    /\ auto.pc = "asr" =>
          /\ ProperBatch(batch) /\ batch.shadow = auto.shadow
          /\ Labels(auto.known) \cup Labels(batch.rows) \cup Items(batch.shadow, batch.todo)
                = Items(auto.shadow, Segments(auto.shadow))
    /\ orphan = NoBatch \/ (ProperBatch(orphan) /\ files.wav \in Shadows)

(* Every set of numbers that is not empty has a least one.                 *)
LEMMA LeastNumber ==
    ASSUME NEW T \in SUBSET Nat, T # {}
    PROVE  \E x \in T : \A y \in T : x =< y
<1>1. PICK x \in T : \A y \in T : ~(<<y, x>> \in OpToRel(<, Nat))
  BY NatLessThanWellFounded, WFMin
<1>2. \A y \in T : ~(y < x)
  BY <1>1 DEF OpToRel
<1> QED
  BY <1>2

LEMMA FirstIsMember ==
    ASSUME NEW T \in SUBSET Nat, T # {}
    PROVE  FirstOf(T) \in T
BY LeastNumber DEF FirstOf

(* The rows of a segment that is looked at are those of its shadow.        *)
LEMMA SegmentOfShadow ==
    ASSUME NEW s \in AllSegments
    PROVE  s[1] \in Shadows /\ s[2] \in Segments(s[1]) /\ s = <<s[1], s[2]>>
           /\ s \in Items(s[1], Segments(s[1]))
<1>1. PICK e \in Shadows : s \in {<<e, i>> : i \in Segments(e)}
  BY DEF AllSegments
<1>2. PICK i \in Segments(e) : s = <<e, i>>
  BY <1>1
<1>3. s[1] = e /\ s[2] = i
  BY <1>2
<1> QED
  BY <1>2, <1>3 DEF Items

LEMMA LabelsOfUnion ==
    ASSUME NEW older, NEW newer
    PROVE  /\ Labels(older \cup newer) = Labels(older) \cup Labels(newer)
           /\ Labels(Overridden(older, newer)) = Labels(older) \cup Labels(newer)
           /\ Overridden(older, newer) \subseteq older \cup newer
BY DEF Labels, Overridden

(* What a resumed audit goes on from are rows of its own segments.         *)
LEMMA KnownRowsAre ==
    ASSUME HostHolds, NEW e \in Shadows
    PROVE  /\ KnownRows(e) \subseteq Rows
           /\ \A r \in KnownRows(e) : r.seg \in Items(e, Segments(e))
<1>1. files.raw \subseteq Rows /\ files.rest \subseteq Rows
  BY DEF HostHolds, FileRecords
<1> DEFINE own(rows) == {r \in rows : r.seg[1] = e}
<1>4. KnownRows(e) = Overridden(own(files.raw), own(files.rest))
  BY DEF KnownRows
<1>2. \A r \in KnownRows(e) : r \in Rows /\ r.seg[1] = e
  BY <1>1, <1>4 DEF Overridden
<1>3. ASSUME NEW r \in KnownRows(e)
      PROVE  r.seg \in Items(e, Segments(e))
  <2>1. r.seg \in AllSegments /\ r.seg[1] = e
    BY <1>2 DEF Rows
  <2> QED
    BY <2>1, SegmentOfShadow
<1> QED
  BY <1>2, <1>3

(* One item of a batch process.                                            *)
LEMMA AfterItemIs ==
    ASSUME NEW b, ProperBatch(b), b.todo # {}, NEW hearing \in Hearings, files.wav \in Shadows
    PROVE  LET o == AfterItem(b, hearing)
               n == FirstOf(b.todo)
               row == [seg |-> <<b.shadow, n>>, heard |-> files.wav, hearing |-> hearing]
           IN  /\ ProperBatch(o) /\ o.shadow = b.shadow /\ n \in b.todo
               /\ row \in Rows /\ o.todo = b.todo \ {n} /\ o.rows = b.rows \cup {row}
<1> DEFINE o == AfterItem(b, hearing)
           n == FirstOf(b.todo)
           row == [seg |-> <<b.shadow, n>>, heard |-> files.wav, hearing |-> hearing]
<1>1. b.shadow \in Shadows /\ b.todo \in SUBSET Nat /\ b.rows \in SUBSET Rows
  BY DEF ProperBatch
<1>2. n \in b.todo /\ n \in Segments(b.shadow)
  BY <1>1, FirstIsMember DEF ProperBatch
<1>3. <<b.shadow, n>> \in AllSegments
  BY <1>1, <1>2 DEF AllSegments
<1>4. row \in Rows
  BY <1>3 DEF Rows
<1>5. Row(NextItem(b), hearing) = row
  BY DEF Row, NextItem
<1> HIDE DEF n, row
<1>6. o = [b EXCEPT !.todo = b.todo \ {n}, !.rows = b.rows \cup {row}]
  BY <1>5 DEF AfterItem, n
<1>7. /\ o.shadow = b.shadow /\ o.todo = b.todo \ {n} /\ o.rows = b.rows \cup {row}
      /\ o \in [shadow : Shadows, todo : SUBSET Nat, rows : SUBSET Rows]
  <2>1. b.todo \ {n} \in SUBSET Nat /\ b.rows \cup {row} \in SUBSET Rows
    BY <1>1, <1>4
  <2> QED
    BY <1>6, <2>1 DEF ProperBatch
<1> HIDE DEF o
<1>8. o.todo \subseteq Segments(o.shadow)
  BY <1>7 DEF ProperBatch
<1>9. ASSUME NEW r \in o.rows
      PROVE  r.seg \in Items(o.shadow, Segments(o.shadow) \ o.todo)
  <2>1. CASE r \in b.rows
    <3>1. r.seg \in Items(b.shadow, Segments(b.shadow) \ b.todo)
      BY <2>1 DEF ProperBatch
    <3> QED
      BY <1>7, <3>1 DEF Items
  <2>2. CASE r = row
    <3>1. n \in Segments(o.shadow) \ o.todo
      BY <1>2, <1>7
    <3> QED
      BY <1>7, <2>2, <3>1 DEF row, Items
  <2> QED
    BY <1>7, <1>9, <2>1, <2>2
<1>10. ProperBatch(o)
  BY <1>7, <1>8, <1>9 DEF ProperBatch
<1> QED
  BY <1>2, <1>4, <1>7, <1>10 DEF n, o, row

LEMMA HostHoldsInit == ShadowInit => HostHolds
<1> SUFFICES ASSUME ShadowInit PROVE HostHolds
  OBVIOUS
<1>1. auto = Stopped /\ batch = NoBatch /\ orphan = NoBatch
      /\ files = [wav |-> "none", raw |-> {}, rest |-> {}, report |-> NoPaper, pack |-> NoPaper]
  BY DEF ShadowInit
<1>2. auto \in AutoRecords /\ auto.pc = "stopped"
  BY <1>1 DEF Stopped, AutoRecords, AutoPlaces
<1>3. files \in FileRecords
  BY <1>1 DEF FileRecords
<1>4. batch = NoBatch /\ orphan = NoBatch
  BY <1>1
<1>5. auto.pc # "asr" /\ auto.pc \notin {"read", "asr", "retry", "report", "pack"}
  BY <1>2
<1> QED
  BY <1>2, <1>3, <1>4, <1>5 DEF HostHolds

(* What is left when an attempt has ended, here or while it waits.         *)
LEMMA AttemptEnds ==
    ASSUME HostHolds, auto.pc # "stopped", WaitForEpisode \/ FinalizeFails
    PROVE  /\ auto' \in AutoRecords /\ auto'.pc \in {"stopped", "sleep"}
           /\ auto'.pc # "stopped" => auto'.shadow \in Shadows
<1>1. CASE WaitForEpisode
  <2>1. auto' = [pc |-> "sleep", shadow |-> auto.shadow, ids |-> {}, changed |-> {}, known |-> {}]
    BY <1>1 DEF WaitForEpisode, Stopped
  <2> QED
    BY <2>1 DEF HostHolds, AutoRecords, AutoPlaces
<1>2. CASE FinalizeFails
  <2>1. auto' = [pc |-> "stopped", shadow |-> "none", ids |-> {}, changed |-> {}, known |-> {}]
    BY <1>2 DEF FinalizeFails, Stopped
  <2> QED
    BY <2>1 DEF AutoRecords, AutoPlaces
<1> QED
  BY <1>1, <1>2

(* A step that goes from place to place.                                   *)
LEMMA Goes ==
    ASSUME HostHolds, NEW place \in AutoPlaces, GoTo(place)
    PROVE  /\ auto' \in AutoRecords /\ auto'.pc = place
           /\ auto'.shadow = auto.shadow /\ auto'.ids = auto.ids
           /\ auto'.changed = auto.changed /\ auto'.known = auto.known
<1>1. auto \in AutoRecords
  BY DEF HostHolds
<1>2. auto' = [auto EXCEPT !.pc = place]
  BY DEF GoTo
<1> QED
  BY <1>1, <1>2 DEF AutoRecords

(* Steps before the audio is extracted and after the process has gone.     *)
LEMMA HostRests ==
    ASSUME HostHolds, UNCHANGED <<files, orphan>>, batch' = NoBatch, auto' \in AutoRecords,
           auto'.pc \notin {"read", "asr", "retry", "report", "pack"},
           auto'.pc # "stopped" => auto'.shadow \in Shadows
    PROVE  HostHolds'
BY DEF HostHolds

LEMMA HostEpisodeStep ==
    ASSUME HostHolds, EpisodeStep \/ \E e \in Shadows : Start(e)
    PROVE  HostHolds'
<1>1. CASE UNCHANGED hostVars
  BY <1>1 DEF hostVars, HostHolds
<1>2. ASSUME NEW s \in AllSegments, ReworkSegment(s)
      PROVE  HostHolds'
  <2>1. PICK changed \in SUBSET AllSegments : auto' = [auto EXCEPT !.changed = changed]
    <3>1. auto.changed \in SUBSET AllSegments
      BY DEF HostHolds, AutoRecords
    <3>2. auto.changed \cup {s} \in SUBSET AllSegments
      BY <3>1
    <3> QED
      BY <1>2, <3>1, <3>2 DEF ReworkSegment
  <2>2. auto \in AutoRecords
    BY DEF HostHolds
  <2>3. /\ auto' \in AutoRecords /\ auto'.pc = auto.pc /\ auto'.shadow = auto.shadow
        /\ auto'.known = auto.known
    BY <2>1, <2>2 DEF AutoRecords
  <2>4. UNCHANGED <<files, batch, orphan>>
    BY <1>2 DEF ReworkSegment
  <2> QED
    BY <2>3, <2>4 DEF HostHolds
<1>3. ASSUME NEW e \in Shadows, Start(e)
      PROVE  HostHolds'
  <2>1. auto' = [pc |-> "monitor", shadow |-> e, ids |-> {}, changed |-> {}, known |-> {}]
    BY <1>3 DEF Start, Stopped
  <2>2. auto' \in AutoRecords /\ auto'.pc = "monitor" /\ auto'.shadow = e
    BY <2>1 DEF AutoRecords, AutoPlaces
  <2>3. UNCHANGED <<files, batch, orphan>> /\ batch = NoBatch
    BY <1>3 DEF Start, HostHolds
  <2> QED
    BY <2>2, <2>3, HostRests
<1> QED
  BY <1>1, <1>2, <1>3 DEF EpisodeStep, Synthesize, SkipSegment, MergeShadow

(* The steps of a finalize attempt up to the audit.                        *)
LEMMA HostAttemptStep ==
    ASSUME HostHolds, RunMonitor \/ QueryCompletion \/ WakeUp \/ ExtractAudio
    PROVE  HostHolds'
<1>0. /\ auto \in AutoRecords /\ auto.pc \in {"monitor", "query", "sleep", "extract"}
      /\ auto.shadow \in Shadows /\ batch = NoBatch /\ UNCHANGED <<batch, orphan>>
  BY DEF HostHolds, RunMonitor, QueryCompletion, WakeUp, ExtractAudio, UnchangedHere
<1>1. CASE (WaitForEpisode \/ FinalizeFails) /\ UNCHANGED files
  BY <1>0, <1>1, AttemptEnds, HostRests
<1>2. CASE RunMonitor /\ auto' = [auto EXCEPT !.pc = "query", !.ids = ReviewIds(auto.shadow)]
  <2>1. ReviewIds(auto.shadow) \in SUBSET AllSegments
    BY DEF ReviewIds
  <2>2. auto' \in AutoRecords /\ auto'.pc = "query" /\ auto'.shadow = auto.shadow
    BY <1>0, <1>2, <2>1 DEF AutoRecords, AutoPlaces
  <2>3. UNCHANGED files
    BY <1>2 DEF RunMonitor
  <2> QED
    BY <1>0, <2>2, <2>3, HostRests
<1>3. CASE QueryCompletion /\ GoTo("extract")
  <2>1. UNCHANGED files
    BY <1>3 DEF QueryCompletion
  <2> QED
    BY <1>0, <1>3, <2>1, Goes, HostRests DEF AutoPlaces
<1>4. CASE WakeUp
  <2>1. UNCHANGED files
    BY <1>4 DEF WakeUp
  <2>2. CASE GoTo("monitor")
    BY <1>0, <2>1, <2>2, Goes, HostRests DEF AutoPlaces
  <2>3. CASE auto' = Stopped
    <3>1. auto' \in AutoRecords /\ auto'.pc = "stopped"
      BY <2>3 DEF Stopped, AutoRecords, AutoPlaces
    <3> QED
      BY <1>0, <2>1, <3>1, HostRests
  <2> QED
    BY <1>4, <2>2, <2>3 DEF WakeUp
<1>5. CASE ExtractAudio /\ files' = [files EXCEPT !.wav = auto.shadow] /\ GoTo("read")
  <2>1. /\ auto' \in AutoRecords /\ auto'.pc = "read" /\ auto'.shadow = auto.shadow
    BY <1>5, Goes DEF AutoPlaces
  <2>2. files' \in FileRecords /\ files'.wav = auto.shadow
    BY <1>0, <1>5 DEF HostHolds, FileRecords
  <2> QED
    BY <1>0, <2>1, <2>2 DEF HostHolds
<1> QED
  BY <1>1, <1>2, <1>3, <1>4, <1>5 DEF RunMonitor, QueryCompletion, ExtractAudio

(* The audit and the batch processes.                                      *)
LEMMA HostBatchStep ==
    ASSUME HostHolds, StartBatch \/ BatchRow \/ BatchEnds
    PROVE  HostHolds'
<1> DEFINE e == auto.shadow
<1>0. /\ auto \in AutoRecords /\ files \in FileRecords
      /\ auto.pc \in {"read", "asr"} => e \in Shadows /\ files.wav = e
  BY DEF HostHolds
<1>1. CASE StartBatch
  <2> DEFINE known == KnownRows(e)
             todo == Segments(e) \ {s[2] : s \in Labels(known)}
  <2>1. auto.pc = "read" /\ e \in Shadows /\ UNCHANGED orphan /\ batch = NoBatch
    BY <1>0, <1>1 DEF StartBatch, UnchangedHere, HostHolds
  <2>2. known \subseteq Rows /\ \A r \in known : r.seg \in Items(e, Segments(e))
    BY <2>1, KnownRowsAre
  <2>3. CASE todo = {}
    <3>1. files' = [files EXCEPT !.raw = known] /\ GoTo("retry") /\ UNCHANGED batch
      BY <1>1, <2>3 DEF StartBatch
    <3>2. auto' \in AutoRecords /\ auto'.pc = "retry" /\ auto'.shadow = e
      BY <3>1, Goes DEF AutoPlaces
    <3> HIDE DEF known
    <3>3. files' \in FileRecords /\ files'.wav = files.wav
      BY <1>0, <2>2, <3>1 DEF FileRecords
    <3> QED
      BY <1>0, <2>1, <3>1, <3>2, <3>3 DEF HostHolds
  <2>4. CASE todo # {}
    <3>1. /\ files' = [files EXCEPT !.rest = {}]
          /\ batch' = [shadow |-> e, todo |-> todo, rows |-> {}]
          /\ auto' = [auto EXCEPT !.pc = "asr", !.known = known]
      BY <1>1, <2>4 DEF StartBatch
    <3>2. /\ Labels(known) \cup Items(e, todo) = Items(e, Segments(e))
          /\ todo \subseteq Segments(e)
      <4>1. \A s \in Labels(known) : \E i \in Segments(e) : s = <<e, i>>
        BY <2>2 DEF Labels, Items
      <4>2. ASSUME NEW i \in Segments(e), i \notin todo
            PROVE  <<e, i>> \in Labels(known)
        <5>1. PICK s \in Labels(known) : i = s[2]
          BY <4>2
        <5> QED
          BY <4>1, <5>1
      <4> HIDE DEF known
      <4> QED
        BY <4>1, <4>2 DEF Items
    <3> HIDE DEF known, todo
    <3>3. Segments(e) \subseteq Nat
      BY <2>1, SlotTyped
    <3>4. ProperBatch(batch') /\ batch'.shadow = e /\ batch'.rows = {} /\ batch'.todo = todo
      BY <2>1, <3>1, <3>2, <3>3 DEF ProperBatch
    <3>5. /\ auto' \in AutoRecords /\ auto'.pc = "asr" /\ auto'.shadow = e
          /\ auto'.known = known
      BY <1>0, <2>2, <3>1 DEF AutoRecords, AutoPlaces
    <3>6. files' \in FileRecords /\ files'.wav = files.wav
      BY <1>0, <3>1 DEF FileRecords
    <3>7. Labels(auto'.known) \cup Labels(batch'.rows) \cup Items(batch'.shadow, batch'.todo)
             = Items(e, Segments(e))
      BY <3>2, <3>4, <3>5 DEF Labels
    <3> HIDE DEF e
    <3> QED
      BY <1>0, <2>1, <3>1, <3>4, <3>5, <3>6, <3>7 DEF HostHolds
  <2> QED
    BY <2>3, <2>4
<1>2. CASE BatchRow
  <2>1. auto.pc = "asr" /\ ProperBatch(batch) /\ batch.shadow = e /\ batch.todo # {}
    BY <1>2 DEF BatchRow, HostHolds, NoBatch
  <2>2. PICK hearing \in Hearings : batch' = AfterItem(batch, hearing)
    BY <1>2 DEF BatchRow, HearingsOf, Hearings
  <2> DEFINE n == FirstOf(batch.todo)
  <2>3. PICK row \in Rows :
          /\ row.seg = <<e, n>>
          /\ batch'.rows = batch.rows \cup {row} /\ batch'.todo = batch.todo \ {n}
          /\ ProperBatch(batch') /\ batch'.shadow = e /\ n \in batch.todo
    <3> DEFINE row == [seg |-> <<e, n>>, heard |-> files.wav, hearing |-> hearing]
    <3>1. /\ row \in Rows
          /\ batch'.rows = batch.rows \cup {row} /\ batch'.todo = batch.todo \ {n}
          /\ ProperBatch(batch') /\ batch'.shadow = e /\ n \in batch.todo
      <4>1. files.wav \in Shadows
        BY <1>0, <2>1
      <4> QED
        BY <2>1, <2>2, <4>1, AfterItemIs
    <3>2. row.seg = <<e, n>>
      OBVIOUS
    <3> HIDE DEF row
    <3> QED
      BY <3>1, <3>2
  <2> HIDE DEF n
  <2>4. Labels(batch'.rows) \cup Items(e, batch'.todo) = Labels(batch.rows) \cup Items(e, batch.todo)
    <3>1. Labels(batch'.rows) = Labels(batch.rows) \cup {<<e, n>>}
      BY <2>3 DEF Labels
    <3>2. Items(e, batch.todo) = Items(e, batch'.todo) \cup {<<e, n>>}
      BY <2>3 DEF Items
    <3> QED
      BY <3>1, <3>2
  <2>5. files' \in FileRecords /\ files'.wav = files.wav
    <3>1. batch'.rows \in SUBSET Rows /\ files' = [files EXCEPT !.rest = batch'.rows]
      BY <1>2, <2>3 DEF BatchRow, ProperBatch
    <3> QED
      BY <1>0, <3>1 DEF FileRecords
  <2>6. UNCHANGED <<auto, orphan>>
    BY <1>2 DEF BatchRow, UnchangedHere
  <2>7. Labels(auto.known) \cup Labels(batch'.rows) \cup Items(batch'.shadow, batch'.todo)
           = Items(e, Segments(e))
    BY <2>1, <2>3, <2>4 DEF HostHolds
  <2> QED
    BY <1>0, <2>1, <2>3, <2>5, <2>6, <2>7 DEF HostHolds
<1>3. CASE BatchEnds
  <2>1. /\ auto' = [auto EXCEPT !.pc = "retry", !.known = {}]
        /\ files' = [files EXCEPT !.raw = MergedRows] /\ batch' = NoBatch
        /\ UNCHANGED orphan /\ auto.pc = "asr"
    BY <1>3 DEF BatchEnds, UnchangedHere
  <2>2. MergedRows \subseteq Rows
    BY <1>0 DEF MergedRows, Overridden, AutoRecords, FileRecords
  <2>3. files' \in FileRecords /\ files'.wav = files.wav
    BY <1>0, <2>1, <2>2 DEF FileRecords
  <2>4. auto' \in AutoRecords /\ auto'.pc = "retry" /\ auto'.shadow = e
    BY <1>0, <2>1 DEF AutoRecords, AutoPlaces
  <2> QED
    BY <1>0, <2>1, <2>3, <2>4 DEF HostHolds
<1> QED
  BY <1>1, <1>2, <1>3

(* The steps after the transcription.                                      *)
LEMMA HostReportStep ==
    ASSUME HostHolds, ChunkRetry \/ WriteReport \/ BuildPack
    PROVE  HostHolds'
<1>0. /\ auto \in AutoRecords /\ files \in FileRecords /\ batch = NoBatch
      /\ auto.pc \in {"retry", "report", "pack"} /\ UNCHANGED <<batch, orphan>>
      /\ auto.shadow \in Shadows /\ files.wav = auto.shadow
  BY DEF HostHolds, ChunkRetry, WriteReport, BuildPack, UnchangedHere
<1>1. CASE FinalizeFails /\ UNCHANGED files
  BY <1>0, <1>1, AttemptEnds, HostRests
<1>2. ASSUME GoTo("report") \/ GoTo("pack"), files' \in FileRecords, files'.wav = files.wav
      PROVE  HostHolds'
  <2>1. auto' \in AutoRecords /\ auto'.pc \in {"report", "pack"} /\ auto'.shadow = auto.shadow
    BY <1>2, Goes DEF AutoPlaces
  <2> QED
    BY <1>0, <1>2, <2>1 DEF HostHolds
<1>3. ASSUME NEW heard \in [Retryable -> Hearings],
             files' = [files EXCEPT !.raw =
                (@ \ Retryable) \cup {[r EXCEPT !.hearing = heard[r]] : r \in Retryable}]
      PROVE  files' \in FileRecords /\ files'.wav = files.wav
  <2>1. Retryable \subseteq files.raw /\ files.raw \subseteq Rows
    BY <1>0 DEF Retryable, FileRecords
  <2>2. ASSUME NEW r \in Retryable
        PROVE  [r EXCEPT !.hearing = heard[r]] \in Rows
    BY <2>1 DEF Rows
  <2> DEFINE raw == (files.raw \ Retryable) \cup {[r EXCEPT !.hearing = heard[r]] : r \in Retryable}
  <2>3. raw \in SUBSET Rows /\ files' = [files EXCEPT !.raw = raw]
    BY <1>3, <2>1, <2>2
  <2> HIDE DEF raw
  <2> QED
    BY <1>0, <2>3 DEF FileRecords
<1>4. ASSUME WriteReport
      PROVE  files' \in FileRecords /\ files'.wav = files.wav
  <2> DEFINE report == [shadow |-> auto.shadow, rows |-> files.raw, pass |-> GatePasses(files.raw)]
  <2>1. GatePasses(files.raw) \in BOOLEAN
    BY DEF GatePasses
  <2>2. report \in [shadow : Shadows, rows : SUBSET Rows, pass : BOOLEAN]
    BY <1>0, <2>1 DEF FileRecords
  <2>3. files' = [files EXCEPT !.report = report]
    BY <1>4 DEF WriteReport
  <2> HIDE DEF report
  <2> QED
    BY <1>0, <2>2, <2>3 DEF FileRecords
<1>5. ASSUME BuildPack, auto' = Stopped,
             files' = [files EXCEPT !.pack = [shadow |-> auto.shadow, ids |-> auto.ids]]
      PROVE  HostHolds'
  <2>1. files' \in FileRecords /\ files'.wav = files.wav
    BY <1>0, <1>5 DEF FileRecords, AutoRecords
  <2>2. auto' \in AutoRecords /\ auto'.pc = "stopped"
    BY <1>5 DEF Stopped, AutoRecords, AutoPlaces
  <2> QED
    BY <1>0, <2>1, <2>2 DEF HostHolds
<1> QED
  BY <1>1, <1>2, <1>3, <1>4, <1>5 DEF ChunkRetry, WriteReport, BuildPack

(* What goes wrong, and what is left behind.                               *)
LEMMA HostFaultStep ==
    ASSUME HostHolds, BatchFails \/ HostKilled \/ OrphanRow
    PROVE  HostHolds'
<1>0. auto \in AutoRecords /\ files \in FileRecords
  BY DEF HostHolds
<1>1. CASE BatchFails
  <2>1. /\ auto' \in AutoRecords /\ auto'.pc = "stopped"
        /\ auto.pc = "asr" /\ batch' = NoBatch
    BY <1>1 DEF BatchFails, FinalizeFails, Stopped, AutoRecords, AutoPlaces
  <2>2. orphan' = NoBatch \/ (ProperBatch(orphan') /\ files.wav \in Shadows)
    BY <1>1, <2>1 DEF BatchFails, HostHolds
  <2>3. files' \in FileRecords /\ files'.wav = files.wav
    <3>1. MergedRows \subseteq Rows /\ files.raw \subseteq Rows
      BY <1>0 DEF MergedRows, Overridden, AutoRecords, FileRecords
    <3>2. PICK raw \in SUBSET Rows : files' = [files EXCEPT !.raw = raw]
      BY <1>1, <3>1 DEF BatchFails
    <3> QED
      BY <1>0, <3>2 DEF FileRecords
  <2> QED
    BY <2>1, <2>2, <2>3 DEF HostHolds
<1>2. CASE HostKilled
  <2>1. /\ auto' \in AutoRecords /\ auto'.pc = "stopped"
        /\ batch' = NoBatch /\ UNCHANGED files
    BY <1>2 DEF HostKilled, Stopped, AutoRecords, AutoPlaces
  <2>2. orphan' = NoBatch \/ (ProperBatch(orphan') /\ files.wav \in Shadows)
    BY <1>2 DEF HostKilled, HostHolds, NoBatch
  <2> QED
    BY <1>0, <2>1, <2>2 DEF HostHolds
<1>3. CASE OrphanRow
  <2>1. ProperBatch(orphan) /\ files.wav \in Shadows /\ orphan.todo # {}
        /\ UNCHANGED <<auto, batch>>
    BY <1>3 DEF OrphanRow, HostHolds, NoBatch
  <2>2. PICK hearing \in Hearings :
          LET o == AfterItem(orphan, hearing)
          IN  /\ files' = [files EXCEPT !.rest = o.rows]
              /\ orphan' = IF o.todo = {} THEN NoBatch ELSE o
    BY <1>3 DEF OrphanRow, HearingsOf, Hearings
  <2> DEFINE o == AfterItem(orphan, hearing)
  <2>3. ProperBatch(o)
    BY <2>1, AfterItemIs
  <2> HIDE DEF o
  <2>4. files' \in FileRecords /\ files'.wav = files.wav
    <3>1. o.rows \in SUBSET Rows /\ files' = [files EXCEPT !.rest = o.rows]
      BY <2>2, <2>3 DEF o, ProperBatch
    <3> QED
      BY <1>0, <3>1 DEF FileRecords
  <2>5. orphan' = NoBatch \/ ProperBatch(orphan')
    BY <2>2, <2>3 DEF o
  <2> QED
    BY <2>1, <2>4, <2>5 DEF HostHolds
<1> QED
  BY <1>1, <1>2, <1>3

LEMMA HostStep == HostHolds /\ [ShadowNext]_shadowVars => HostHolds'
<1> SUFFICES ASSUME HostHolds, [ShadowNext]_shadowVars PROVE HostHolds'
  OBVIOUS
<1>1. CASE UNCHANGED shadowVars
  BY <1>1 DEF shadowVars, HostHolds
<1> QED
  BY <1>1, HostEpisodeStep, HostAttemptStep, HostBatchStep, HostReportStep, HostFaultStep
  DEF ShadowNext, AutoStep

----------------------------------------------------------------------------
(* The report is about the episode                                         *)

(* One row for each segment, heard in the mix of its own episode.          *)
Trusted(rows) ==
    \A r \in rows : r.heard = r.seg[1] /\ \A q \in rows : q.seg = r.seg => q = r

Whole(rows, e) == Labels(rows) = Items(e, Segments(e))

ReportHolds(report) ==
    /\ report.shadow \in Shadows /\ report.rows \subseteq Rows
    /\ Trusted(report.rows) /\ Whole(report.rows, report.shadow)
    /\ report.pass => \A r \in report.rows : r.hearing \in {"good", "low"}

(* All rows in the run directory and in the processes can be trusted while *)
(* no orphan has written where it should not; the batch that the audit     *)
(* waits for is the only one that writes; and what it leaves is whole.     *)
RowsHold ==
    ~haunted =>
        /\ Trusted(files.raw) /\ Trusted(files.rest) /\ Trusted(auto.known)
        /\ Trusted(batch.rows) /\ Trusted(orphan.rows)
        /\ auto.pc = "asr" => files.rest = batch.rows
        /\ auto.pc \in {"retry", "report"} => Whole(files.raw, auto.shadow)
        /\ files.report # NoPaper => ReportHolds(files.report)

LEMMA TrustedOverridden ==
    ASSUME NEW older, NEW newer, Trusted(older), Trusted(newer)
    PROVE  Trusted(Overridden(older, newer))
<1> SUFFICES ASSUME NEW r \in Overridden(older, newer)
             PROVE  /\ r.heard = r.seg[1]
                    /\ \A q \in Overridden(older, newer) : q.seg = r.seg => q = r
  BY DEF Trusted
<1>1. r \in older \cup newer
  BY DEF Overridden
<1>2. ASSUME NEW q \in Overridden(older, newer), q.seg = r.seg
      PROVE  q = r
  <2>1. (q \in older /\ q.seg \notin Labels(newer)) \/ q \in newer
    BY DEF Overridden
  <2>2. (r \in older /\ r.seg \notin Labels(newer)) \/ r \in newer
    BY DEF Overridden
  <2>3. (q \in older /\ r \in older) \/ (q \in newer /\ r \in newer)
    BY <1>2, <2>1, <2>2 DEF Labels
  <2> QED
    BY <1>2, <2>3 DEF Trusted
<1> QED
  BY <1>1, <1>2 DEF Trusted

LEMMA TrustedKnown ==
    ASSUME Trusted(files.raw), Trusted(files.rest), NEW e
    PROVE  Trusted(KnownRows(e))
<1> DEFINE own(rows) == {r \in rows : r.seg[1] = e}
<1>1. KnownRows(e) = Overridden(own(files.raw), own(files.rest))
  BY DEF KnownRows
<1>2. Trusted(own(files.raw)) /\ Trusted(own(files.rest))
  BY DEF Trusted
<1> HIDE DEF own
<1> QED
  BY <1>1, <1>2, TrustedOverridden

LEMMA TrustedAdd ==
    ASSUME NEW rows, NEW row, Trusted(rows), row.heard = row.seg[1],
           \A r \in rows : r.seg # row.seg
    PROVE  Trusted(rows \cup {row})
BY DEF Trusted

(* The item that a batch process adds is about a segment it has not heard. *)
LEMMA TrustedItem ==
    ASSUME NEW b, ProperBatch(b), b.todo # {}, NEW hearing \in Hearings,
           files.wav = b.shadow, Trusted(b.rows)
    PROVE  Trusted(AfterItem(b, hearing).rows)
<1> DEFINE n == FirstOf(b.todo)
           row == [seg |-> <<b.shadow, n>>, heard |-> files.wav, hearing |-> hearing]
<1>1. n \in b.todo /\ AfterItem(b, hearing).rows = b.rows \cup {row}
  <2>1. files.wav \in Shadows
    BY DEF ProperBatch
  <2> QED
    BY <2>1, AfterItemIs
<1>2. row.heard = row.seg[1] /\ row.seg = <<b.shadow, n>>
  OBVIOUS
<1>3. ASSUME NEW r \in b.rows
      PROVE  r.seg # row.seg
  <2>1. PICK i \in Segments(b.shadow) \ b.todo : r.seg = <<b.shadow, i>>
    BY DEF ProperBatch, Items
  <2>2. i # n
    BY <1>1
  <2> QED
    BY <1>2, <2>1, <2>2
<1> HIDE DEF row
<1>4. Trusted(b.rows \cup {row})
  BY <1>2, <1>3, TrustedAdd
<1> QED
  BY <1>1, <1>4

(* A row may get a better text, and it stays the row of its segment.       *)
LEMMA TrustedRetry ==
    ASSUME HostHolds, Trusted(files.raw), NEW heard \in [Retryable -> Hearings]
    PROVE  LET raw == (files.raw \ Retryable)
                         \cup {[r EXCEPT !.hearing = heard[r]] : r \in Retryable}
           IN  Trusted(raw) /\ Labels(raw) = Labels(files.raw)
<1> DEFINE new(r) == IF r \in Retryable THEN [r EXCEPT !.hearing = heard[r]] ELSE r
           raw == (files.raw \ Retryable)
                     \cup {[r EXCEPT !.hearing = heard[r]] : r \in Retryable}
<1>1. files.raw \subseteq Rows /\ Retryable \subseteq files.raw
  BY DEF HostHolds, FileRecords, Retryable
<1>2. raw = {new(r) : r \in files.raw}
  BY <1>1
<1>3. ASSUME NEW r \in files.raw
      PROVE  new(r).seg = r.seg /\ new(r).heard = r.heard
  BY <1>1 DEF Rows
<1> HIDE DEF new, raw
<1>4. Trusted(raw)
  <2> SUFFICES ASSUME NEW x \in raw
               PROVE  x.heard = x.seg[1] /\ \A y \in raw : y.seg = x.seg => y = x
    BY DEF Trusted
  <2>1. PICK r \in files.raw : x = new(r)
    BY <1>2
  <2>2. ASSUME NEW y \in raw, y.seg = x.seg
        PROVE  y = x
    <3>1. PICK q \in files.raw : y = new(q)
      BY <1>2
    <3>2. q = r
      BY <1>3, <2>1, <2>2, <3>1 DEF Trusted
    <3> QED
      BY <2>1, <3>1, <3>2
  <2> QED
    BY <1>3, <2>1, <2>2 DEF Trusted
<1>5. Labels(raw) = Labels(files.raw)
  BY <1>2, <1>3 DEF Labels
<1> QED
  BY <1>4, <1>5 DEF raw

LEMMA RowsHoldInit == ShadowInit => RowsHold
<1> SUFFICES ASSUME ShadowInit PROVE RowsHold
  OBVIOUS
<1>1. /\ files.raw = {} /\ files.rest = {} /\ files.report = NoPaper
      /\ auto.known = {} /\ auto.pc = "stopped" /\ batch.rows = {} /\ orphan.rows = {}
  BY DEF ShadowInit, Stopped, NoBatch
<1> QED
  BY <1>1 DEF RowsHold, Trusted

(* Steps that write no row.                                                *)
LEMMA RowsUntouched ==
    ASSUME RowsHold, UNCHANGED haunted,
           files'.raw = files.raw, files'.rest = files.rest, files'.report = files.report,
           auto'.known \in {auto.known, {}}, batch'.rows \in {batch.rows, {}},
           orphan'.rows \in {orphan.rows, batch.rows, {}},
           auto'.pc = "asr" => auto.pc = "asr" /\ UNCHANGED batch,
           auto'.pc \in {"retry", "report"} => auto'.pc = auto.pc /\ auto'.shadow = auto.shadow
    PROVE  RowsHold'
<1> SUFFICES ASSUME ~haunted PROVE RowsHold'
  BY DEF RowsHold
<1>1. Trusted({})
  BY DEF Trusted
<1>2. /\ Trusted(files'.raw) /\ Trusted(files'.rest) /\ Trusted(auto'.known)
      /\ Trusted(batch'.rows) /\ Trusted(orphan'.rows)
  BY <1>1 DEF RowsHold
<1>3. auto'.pc = "asr" => files'.rest = batch'.rows
  BY DEF RowsHold
<1>4. auto'.pc \in {"retry", "report"} => Whole(files'.raw, auto'.shadow)
  BY DEF RowsHold
<1>5. files'.report # NoPaper => ReportHolds(files'.report)
  BY DEF RowsHold
<1> QED
  BY <1>2, <1>3, <1>4, <1>5 DEF RowsHold

LEMMA RowsQuietStep ==
    ASSUME HostHolds, RowsHold,
           \/ EpisodeStep \/ \E e \in Shadows : Start(e)
           \/ RunMonitor \/ QueryCompletion \/ WakeUp \/ ExtractAudio \/ BuildPack \/ HostKilled
    PROVE  RowsHold'
<1>0. auto \in AutoRecords /\ files \in FileRecords
  BY DEF HostHolds
<1>1. CASE UNCHANGED hostVars
  BY <1>1, RowsUntouched DEF hostVars
<1>2. ASSUME NEW s \in AllSegments, ReworkSegment(s)
      PROVE  RowsHold'
  <2>1. /\ auto'.pc = auto.pc /\ auto'.shadow = auto.shadow /\ auto'.known = auto.known
        /\ UNCHANGED <<files, batch, orphan, haunted>>
    BY <1>0, <1>2 DEF ReworkSegment, AutoRecords
  <2> QED
    BY <2>1, RowsUntouched
<1>3. CASE \E e \in Shadows : Start(e)
  <2>1. auto'.pc = "monitor" /\ auto'.known = {} /\ UNCHANGED <<files, batch, orphan, haunted>>
    BY <1>3 DEF Start, Stopped
  <2> QED
    BY <2>1, RowsUntouched
<1>4. CASE RunMonitor \/ QueryCompletion \/ WakeUp \/ ExtractAudio \/ BuildPack
  <2>1. UNCHANGED <<batch, orphan, haunted>>
    BY <1>4 DEF RunMonitor, QueryCompletion, WakeUp, ExtractAudio, BuildPack, UnchangedHere
  <2>2. files'.raw = files.raw /\ files'.rest = files.rest /\ files'.report = files.report
    BY <1>0, <1>4 DEF RunMonitor, QueryCompletion, WakeUp, ExtractAudio, BuildPack, FileRecords
  <2>3. /\ auto'.pc \in {"stopped", "sleep", "monitor", "query", "extract", "read"}
        /\ auto'.known \in {auto.known, {}}
    <3>1. CASE WaitForEpisode \/ FinalizeFails \/ auto' = Stopped
      <4>1. auto' = [Stopped EXCEPT !.pc = "sleep", !.shadow = auto.shadow] \/ auto' = Stopped
        BY <3>1 DEF WaitForEpisode, FinalizeFails
      <4>2. auto'.pc \in {"sleep", "stopped"} /\ auto'.known = {}
        <5>1. CASE auto' = Stopped
          BY <5>1 DEF Stopped
        <5>2. CASE auto' = [Stopped EXCEPT !.pc = "sleep", !.shadow = auto.shadow]
          BY <5>2 DEF Stopped
        <5> QED
          BY <4>1, <5>1, <5>2
      <4> QED
        BY <4>2
    <3>2. CASE GoTo("extract") \/ GoTo("monitor") \/ GoTo("read")
      BY <3>2, Goes DEF AutoPlaces
    <3>3. CASE auto' = [auto EXCEPT !.pc = "query", !.ids = ReviewIds(auto.shadow)]
      BY <1>0, <3>3 DEF AutoRecords
    <3> QED
      BY <1>4, <3>1, <3>2, <3>3 DEF RunMonitor, QueryCompletion, WakeUp, ExtractAudio, BuildPack
  <2> QED
    BY <2>1, <2>2, <2>3, RowsUntouched
<1>5. CASE HostKilled
  <2>1. /\ auto'.pc = "stopped" /\ auto'.known = {} /\ batch'.rows = {}
        /\ orphan'.rows \in {batch.rows, {}} /\ UNCHANGED <<files, haunted>>
    BY <1>5 DEF HostKilled, Stopped, NoBatch
  <2> QED
    BY <2>1, RowsUntouched
<1> QED
  BY <1>1, <1>2, <1>3, <1>4, <1>5 DEF EpisodeStep, Synthesize, SkipSegment, MergeShadow, hostVars

(* The transcription: what a batch process has heard replaces what was     *)
(* known of the same segments, and together they are whole.                *)
LEMMA RowsBatchStep ==
    ASSUME HostHolds, RowsHold, StartBatch \/ BatchRow \/ BatchEnds \/ BatchFails
    PROVE  RowsHold'
<1> DEFINE e == auto.shadow
<1>0. /\ auto \in AutoRecords /\ files \in FileRecords /\ UNCHANGED haunted
      /\ auto.pc \in {"read", "asr"} /\ e \in Shadows /\ files.wav = e
  BY DEF HostHolds, StartBatch, BatchRow, BatchEnds, BatchFails, UnchangedHere, ProperBatch, NoBatch
<1> SUFFICES ASSUME ~haunted PROVE RowsHold'
  BY <1>0 DEF RowsHold
<1>1. /\ Trusted(files.raw) /\ Trusted(files.rest) /\ Trusted(auto.known) /\ Trusted({})
      /\ Trusted(batch.rows) /\ Trusted(orphan.rows)
      /\ files.report # NoPaper => ReportHolds(files.report)
      /\ auto.pc = "asr" => files.rest = batch.rows
  BY DEF RowsHold, Trusted
<1>2. Trusted(KnownRows(e)) /\ Trusted(MergedRows)
  BY <1>1, TrustedKnown, TrustedOverridden DEF MergedRows
<1>3. CASE StartBatch
  <2>1. auto.pc = "read" /\ UNCHANGED <<orphan, haunted>> /\ batch = NoBatch
    BY <1>3 DEF StartBatch, UnchangedHere, HostHolds
  <2> DEFINE known == KnownRows(e)
             todo == Segments(e) \ {s[2] : s \in Labels(known)}
  <2>2. CASE todo = {}
    <3>1. files' = [files EXCEPT !.raw = known] /\ GoTo("retry") /\ UNCHANGED batch
      BY <1>3, <2>2 DEF StartBatch
    <3>2. auto'.pc = "retry" /\ auto'.shadow = e /\ auto'.known = auto.known
      BY <3>1, Goes DEF AutoPlaces
    <3>3. Whole(known, e)
      <4>1. \A r \in known : r.seg \in Items(e, Segments(e))
        BY <1>0, KnownRowsAre
      <4>2. ASSUME NEW i \in Segments(e)
            PROVE  <<e, i>> \in Labels(known)
        <5>1. PICK s \in Labels(known) : i = s[2]
          BY <2>2
        <5>2. PICK j \in Segments(e) : s = <<e, j>>
          BY <4>1, <5>1 DEF Labels, Items
        <5> QED
          BY <5>1, <5>2
      <4> HIDE DEF known
      <4> QED
        BY <4>1, <4>2 DEF Whole, Labels, Items
    <3> HIDE DEF known, e
    <3>4. files'.raw = known /\ files'.rest = files.rest /\ files'.report = files.report
      BY <1>0, <3>1 DEF FileRecords
    <3>5. Trusted(files'.raw) /\ Whole(files'.raw, auto'.shadow)
      BY <1>2, <3>2, <3>3, <3>4 DEF known
    <3> QED
      BY <1>1, <2>1, <3>1, <3>2, <3>4, <3>5 DEF RowsHold
  <2>3. CASE todo # {}
    <3>1. /\ files' = [files EXCEPT !.rest = {}]
          /\ batch' = [shadow |-> e, todo |-> todo, rows |-> {}]
          /\ auto' = [auto EXCEPT !.pc = "asr", !.known = known]
      BY <1>3, <2>3 DEF StartBatch
    <3> HIDE DEF known, todo, e
    <3>2. /\ files'.raw = files.raw /\ files'.rest = {} /\ files'.report = files.report
          /\ batch'.rows = {} /\ auto'.pc = "asr" /\ auto'.known = known
      BY <1>0, <3>1 DEF FileRecords, AutoRecords
    <3>3. Trusted(auto'.known) /\ Trusted(files'.rest) /\ Trusted(batch'.rows)
      BY <1>1, <1>2, <3>2 DEF known
    <3> QED
      BY <1>1, <2>1, <3>2, <3>3 DEF RowsHold
  <2> QED
    BY <2>2, <2>3
<1>4. CASE BatchRow
  <2>1. auto.pc = "asr" /\ ProperBatch(batch) /\ batch.shadow = e /\ batch.todo # {}
        /\ UNCHANGED <<auto, orphan, haunted>>
    BY <1>4 DEF BatchRow, HostHolds, NoBatch, UnchangedHere
  <2>2. PICK hearing \in Hearings : batch' = AfterItem(batch, hearing)
    BY <1>4 DEF BatchRow, HearingsOf, Hearings
  <2>3. Trusted(AfterItem(batch, hearing).rows)
    BY <1>0, <1>1, <2>1, TrustedItem
  <2>4. files' = [files EXCEPT !.rest = batch'.rows]
    BY <1>4 DEF BatchRow
  <2>5. /\ files'.raw = files.raw /\ files'.rest = batch'.rows /\ files'.report = files.report
    BY <1>0, <2>4 DEF FileRecords
  <2>6. Trusted(batch'.rows) /\ Trusted(files'.rest)
    BY <2>2, <2>3, <2>5
  <2> QED
    BY <1>1, <2>1, <2>5, <2>6 DEF RowsHold
<1>5. CASE BatchEnds
  <2>1. /\ auto' = [auto EXCEPT !.pc = "retry", !.known = {}]
        /\ files' = [files EXCEPT !.raw = MergedRows] /\ batch' = NoBatch
        /\ UNCHANGED orphan /\ auto.pc = "asr" /\ batch.todo = {}
    BY <1>5 DEF BatchEnds, UnchangedHere
  <2>2. /\ files'.raw = MergedRows /\ files'.rest = files.rest /\ files'.report = files.report
        /\ auto'.pc = "retry" /\ auto'.known = {} /\ auto'.shadow = e /\ batch'.rows = {}
    BY <1>0, <2>1 DEF FileRecords, AutoRecords, NoBatch
  <2>3. Whole(MergedRows, e)
    <3>1. Labels(MergedRows) = Labels(auto.known) \cup Labels(batch.rows)
      <4>1. MergedRows = Overridden(auto.known, batch.rows)
        BY <1>1, <2>1 DEF MergedRows
      <4> QED
        BY <4>1, LabelsOfUnion
    <3>2. Labels(auto.known) \cup Labels(batch.rows) \cup Items(batch.shadow, {})
            = Items(e, Segments(e))
      BY <2>1 DEF HostHolds
    <3>3. Items(batch.shadow, {}) = {}
      BY DEF Items
    <3> QED
      BY <3>1, <3>2, <3>3 DEF Whole
  <2>4. Trusted(files'.raw) /\ Whole(files'.raw, auto'.shadow)
        /\ Trusted(batch'.rows) /\ Trusted(auto'.known)
    BY <1>1, <1>2, <2>2, <2>3
  <2> HIDE DEF e
  <2> QED
    BY <1>1, <2>1, <2>2, <2>4 DEF RowsHold
<1>6. CASE BatchFails
  <2>1. /\ auto'.pc = "stopped" /\ auto'.known = {} /\ batch'.rows = {}
        /\ orphan'.rows \in {orphan.rows, batch.rows}
    BY <1>6 DEF BatchFails, FinalizeFails, Stopped, NoBatch
  <2>2. PICK raw \in {files.raw, MergedRows} : files' = [files EXCEPT !.raw = raw]
    BY <1>6 DEF BatchFails
  <2>3. files'.raw = raw /\ files'.rest = files.rest /\ files'.report = files.report
    BY <1>0, <2>2 DEF FileRecords
  <2>4. /\ Trusted(files'.raw) /\ Trusted(orphan'.rows)
        /\ Trusted(batch'.rows) /\ Trusted(auto'.known)
    BY <1>1, <1>2, <2>1, <2>2, <2>3
  <2> QED
    BY <1>1, <2>1, <2>3, <2>4 DEF RowsHold
<1> QED
  BY <1>3, <1>4, <1>5, <1>6

(* The chunked transcription and the report.                               *)
LEMMA RowsReportStep ==
    ASSUME HostHolds, RowsHold, ChunkRetry \/ WriteReport
    PROVE  RowsHold'
<1>0. /\ auto \in AutoRecords /\ files \in FileRecords
      /\ UNCHANGED <<haunted, batch, orphan>>
      /\ auto.pc \in {"retry", "report"} /\ auto.shadow \in Shadows
  BY DEF HostHolds, ChunkRetry, WriteReport, UnchangedHere
<1> SUFFICES ASSUME ~haunted PROVE RowsHold'
  BY <1>0 DEF RowsHold
<1>1. /\ Trusted(files.raw) /\ Trusted(files.rest) /\ Trusted(auto.known) /\ Trusted({})
      /\ Trusted(batch.rows) /\ Trusted(orphan.rows)
      /\ files.report # NoPaper => ReportHolds(files.report)
      /\ Whole(files.raw, auto.shadow)
  BY <1>0 DEF RowsHold, Trusted
<1>2. CASE FinalizeFails /\ UNCHANGED files
  <2>1. auto'.pc = "stopped" /\ auto'.known = {}
    BY <1>2 DEF FinalizeFails, Stopped
  <2> QED
    BY <1>0, <1>2, <2>1, RowsUntouched
<1>3. ASSUME NEW heard \in [Retryable -> Hearings],
             files' = [files EXCEPT !.raw =
                (@ \ Retryable) \cup {[r EXCEPT !.hearing = heard[r]] : r \in Retryable}],
             GoTo("report")
      PROVE  RowsHold'
  <2> DEFINE raw == (files.raw \ Retryable) \cup {[r EXCEPT !.hearing = heard[r]] : r \in Retryable}
  <2>1. Trusted(raw) /\ Labels(raw) = Labels(files.raw) /\ files' = [files EXCEPT !.raw = raw]
    BY <1>1, <1>3, TrustedRetry
  <2> HIDE DEF raw
  <2>2. files'.raw = raw /\ files'.rest = files.rest /\ files'.report = files.report
    BY <1>0, <2>1 DEF FileRecords
  <2>3. auto'.pc = "report" /\ auto'.shadow = auto.shadow /\ auto'.known = auto.known
    BY <1>3, Goes DEF AutoPlaces
  <2>4. Trusted(files'.raw) /\ Whole(files'.raw, auto'.shadow)
    BY <1>1, <2>1, <2>2, <2>3 DEF Whole
  <2> QED
    BY <1>0, <1>1, <2>2, <2>3, <2>4 DEF RowsHold
<1>4. CASE WriteReport
  <2> DEFINE report == [shadow |-> auto.shadow, rows |-> files.raw, pass |-> GatePasses(files.raw)]
  <2>1. files' = [files EXCEPT !.report = report] /\ GoTo("pack") /\ auto.pc = "report"
    BY <1>4 DEF WriteReport
  <2>2. ReportHolds(report)
    <3>1. files.raw \subseteq Rows
      BY <1>0 DEF FileRecords
    <3>2. ASSUME GatePasses(files.raw), NEW r \in files.raw
          PROVE  r.hearing \in {"good", "low"}
      BY <3>1, <3>2 DEF GatePasses, Heard, Rows, Hearings
    <3> QED
      BY <1>0, <1>1, <3>1, <3>2 DEF ReportHolds
  <2> HIDE DEF report
  <2>3. files'.raw = files.raw /\ files'.rest = files.rest /\ files'.report = report
    BY <1>0, <2>1 DEF FileRecords
  <2>4. auto'.pc = "pack" /\ auto'.known = auto.known
    BY <2>1, Goes DEF AutoPlaces
  <2> QED
    BY <1>0, <1>1, <2>2, <2>3, <2>4 DEF RowsHold
<1> QED
  BY <1>2, <1>3, <1>4 DEF ChunkRetry

(* An orphan that finds its own audio and nobody there does no harm.       *)
LEMMA RowsOrphanStep ==
    ASSUME HostHolds, RowsHold, OrphanRow
    PROVE  RowsHold'
<1> SUFFICES ASSUME ~haunted' PROVE RowsHold'
  BY DEF RowsHold
<1>1. /\ ~haunted /\ auto.pc = "stopped" /\ files.wav = orphan.shadow
      /\ UNCHANGED <<auto, batch>> /\ files \in FileRecords
      /\ ProperBatch(orphan) /\ orphan.todo # {}
  <2>1. haunted' = (haunted \/ auto.pc # "stopped" \/ files.wav # orphan.shadow)
    BY DEF OrphanRow
  <2>2. ~haunted /\ auto.pc = "stopped" /\ files.wav = orphan.shadow
    BY <2>1
  <2>3. UNCHANGED <<auto, batch>> /\ orphan.todo # {}
    BY DEF OrphanRow
  <2>4. orphan # NoBatch
    BY <2>3 DEF NoBatch
  <2> QED
    BY <2>2, <2>3, <2>4 DEF HostHolds
<1>2. PICK hearing \in Hearings :
        LET o == AfterItem(orphan, hearing)
        IN  /\ files' = [files EXCEPT !.rest = o.rows]
            /\ orphan' = IF o.todo = {} THEN NoBatch ELSE o
  BY DEF OrphanRow, HearingsOf, Hearings
<1> DEFINE o == AfterItem(orphan, hearing)
<1>3. /\ Trusted(files.raw) /\ Trusted(auto.known) /\ Trusted(batch.rows) /\ Trusted({})
      /\ files.report # NoPaper => ReportHolds(files.report)
      /\ Trusted(orphan.rows)
  BY <1>1 DEF RowsHold, Trusted
<1>4. Trusted(o.rows)
  BY <1>1, <1>3, TrustedItem
<1> HIDE DEF o
<1>5. /\ files'.raw = files.raw /\ files'.rest = o.rows /\ files'.report = files.report
      /\ orphan'.rows \in {{}, o.rows}
  BY <1>1, <1>2 DEF o, FileRecords, NoBatch
<1>6. Trusted(files'.rest) /\ Trusted(orphan'.rows)
  BY <1>3, <1>4, <1>5
<1> QED
  BY <1>1, <1>3, <1>5, <1>6 DEF RowsHold

LEMMA RowsStep == HostHolds /\ RowsHold /\ [ShadowNext]_shadowVars => RowsHold'
<1> SUFFICES ASSUME HostHolds, RowsHold, [ShadowNext]_shadowVars PROVE RowsHold'
  OBVIOUS
<1>1. CASE UNCHANGED shadowVars
  BY <1>1 DEF shadowVars, RowsHold
<1> QED
  BY <1>1, RowsQuietStep, RowsBatchStep, RowsReportStep, RowsOrphanStep DEF ShadowNext, AutoStep

(* As many rows as the episode has segments.                               *)
LEMMA RowsCounted ==
    ASSUME NEW rows \in SUBSET Rows, NEW e \in Shadows, Trusted(rows), Whole(rows, e)
    PROVE  Cardinality(rows) = Len(Slots[e])
<1>1. Segments(e) = 1..Len(Slots[e]) /\ Len(Slots[e]) \in Nat
  BY SlotTyped
<1>2. \A i \in Segments(e) : \E r \in rows : r.seg = <<e, i>>
  BY DEF Whole, Labels, Items
<1>3. \A r \in rows : \E i \in Segments(e) : r.seg = <<e, i>>
  BY DEF Whole, Labels, Items
<1> DEFINE f == [i \in Segments(e) |-> CHOOSE r \in rows : r.seg = <<e, i>>]
<1>4. \A i \in Segments(e) : f[i] \in rows /\ f[i].seg = <<e, i>>
  BY <1>2
<1>5. f \in [Segments(e) -> rows]
  BY <1>4
<1> HIDE DEF f
<1>6. \A i, j \in Segments(e) : f[i] = f[j] => i = j
  <2> SUFFICES ASSUME NEW i \in Segments(e), NEW j \in Segments(e), f[i] = f[j] PROVE i = j
    OBVIOUS
  <2>1. <<e, i>> = <<e, j>>
    BY <1>4
  <2> QED
    BY <2>1
<1>7. ASSUME NEW r \in rows PROVE \E i \in Segments(e) : f[i] = r
  <2>1. PICK i \in Segments(e) : r.seg = <<e, i>>
    BY <1>3
  <2>2. f[i] = r
    BY <1>4, <2>1 DEF Trusted
  <2> QED
    BY <2>2
<1> DEFINE D == 1..Len(Slots[e])
<1>8. f \in Bijection(D, rows)
  <2>1. /\ f \in [D -> rows] /\ \A i, j \in D : f[i] = f[j] => i = j
        /\ \A r \in rows : \E i \in D : f[i] = r
    BY <1>1, <1>5, <1>6, <1>7
  <2> HIDE DEF D
  <2>2. f \in Injection(D, rows)
    BY <2>1 DEF Injection, IsInjective
  <2>3. f \in Surjection(D, rows)
    BY <2>1 DEF Surjection
  <2> QED
    BY <2>2, <2>3 DEF Bijection
<1>9. IsFiniteSet(D) /\ Cardinality(D) = Len(Slots[e])
  BY <1>1, FS_Interval
<1> HIDE DEF D
<1> QED
  BY <1>8, <1>9, FS_Bijection DEF ExistsBijection

ShadowInv == RowsAreMade /\ HostHolds /\ RowsHold

LEMMA ShadowInvHolds == ShadowSpec => []ShadowInv
<1>1. ShadowInit => ShadowInv
  BY RowsAreMadeInit, HostHoldsInit, RowsHoldInit DEF ShadowInv
<1>2. ShadowInv /\ [ShadowNext]_shadowVars => ShadowInv'
  BY RowsAreMadeStep, HostStep, RowsStep DEF ShadowInv
<1> QED
  BY <1>1, <1>2, PTL DEF ShadowSpec

(* The report is about the episode it names, however often and for         *)
(* whichever shadows the directory has been used, as long as no orphaned   *)
(* batch has written into a later audit.                                   *)
THEOREM ReportIsSound == ShadowSpec => []ReportIsTheEpisode
<1>1. ShadowInv => ReportIsTheEpisode
  <2> SUFFICES ASSUME ShadowInv, files.report # NoPaper, ~haunted
               PROVE  LET report == files.report
                      IN  /\ \A r \in report.rows : r.heard = report.shadow
                          /\ Labels(report.rows) = {<<report.shadow, i>> : i \in Segments(report.shadow)}
                          /\ Cardinality(report.rows) = Len(Slots[report.shadow])
                          /\ report.pass => \A r \in report.rows : r.hearing \in {"good", "low"}
    BY DEF ReportIsTheEpisode
  <2> DEFINE report == files.report
  <2>1. ReportHolds(report)
    BY DEF ShadowInv, RowsHold
  <2> HIDE DEF report
  <2>2. Labels(report.rows) = Items(report.shadow, Segments(report.shadow))
    BY <2>1 DEF ReportHolds, Whole
  <2>3. ASSUME NEW r \in report.rows
        PROVE  r.heard = report.shadow
    <3>1. PICK i \in Segments(report.shadow) : r.seg = <<report.shadow, i>>
      BY <2>2 DEF Labels, Items
    <3> QED
      BY <2>1, <3>1 DEF ReportHolds, Trusted
  <2>4. Cardinality(report.rows) = Len(Slots[report.shadow])
    BY <2>1, RowsCounted DEF ReportHolds
  <2>5. report.pass => \A r \in report.rows : r.hearing \in {"good", "low"}
    BY <2>1 DEF ReportHolds
  <2> QED
    BY <2>2, <2>3, <2>4, <2>5 DEF report, Items
<1> QED
  BY <1>1, ShadowInvHolds, PTL

----------------------------------------------------------------------------
(* What worries the monitor is in the review pack                          *)

Watching == {"query", "extract", "read", "asr", "retry", "report", "pack"}

(* A merged shadow has nothing left to do. Between the monitor's look and  *)
(* the query a segment may be sent back, and it is remembered; from then   *)
(* on the shadow is merged, and its rows stay as they are.                 *)
RisksKnown ==
    /\ \A e \in merged : \A i \in Segments(e) : Done(segment[<<e, i>>])
    /\ auto.pc \in Watching \ {"query"} => auto.shadow \in merged
    /\ auto.pc = "query" =>
          \A i \in Segments(auto.shadow) :
              ~Done(segment[<<auto.shadow, i>>]) => <<auto.shadow, i>> \in auto.changed
    /\ auto.pc \in Watching =>
          \A i \in Segments(auto.shadow) :
              Worrying(segment[<<auto.shadow, i>>])
                  => <<auto.shadow, i>> \in auto.ids \cup auto.changed

(* Whatever worries is a risk of its own in the monitor's queue.           *)
LEMMA WorryIsRisk ==
    ASSUME RowsAreMade, NEW s \in AllSegments, Worrying(segment[s])
    PROVE  Risks(segment[s]) # {}
<1> DEFINE row == segment[s]
<1>1. row.status = "synthesized"
  BY DEF Worrying
<1>2. PICK shape \in Shapes[s], take \in Takes[s] : row = Synthesized(shape, take)
  BY <1>1, RowKinds DEF RowsAreMade, Made
<1>3. row.take \in TakeSpace
  <2>1. row.take = take
    BY <1>2, RowKinds
  <2> QED
    BY <2>1, ShadowAssumption
<1>4. row.take.drift \in Int /\ row.take.fit \in Nat
  BY <1>3 DEF TakeSpace
<1> HIDE DEF row
<1>11. row.asked /\ row.spokenAsShown => row.planned
  <2>1. /\ row.asked = Planned(shape.spoken) /\ row.planned = Planned(shape.display)
        /\ row.spokenAsShown = (shape.spoken = shape.display)
    BY <1>2, RowKinds
  <2> QED
    BY <2>1, Zenon
<1>5. CASE (row.planned \/ (row.asked /\ row.spokenAsShown)) /\ row.take.request # "candidate"
  <2>1. row.planned
    BY <1>5, <1>11, Zenon
  <2>2. "without_candidate_audio" \in Issues(row)
    BY <1>1, <1>5, <2>1 DEF Issues, Eligible
  <2> QED
    BY <2>2 DEF Risks, row
<1>6. CASE Magnitude(row.take.drift) > 300
  <2>1. Magnitude(row.take.drift) \in Int
    BY <1>4 DEF Magnitude
  <2>2. CASE Magnitude(row.take.drift) > 500
    <3>1. "hard_drift" \in Issues(row)
      BY <1>1, <2>2 DEF Issues
    <3> QED
      BY <3>1 DEF Risks, row
  <2>3. CASE ~(Magnitude(row.take.drift) > 500)
    <3>1. Magnitude(row.take.drift) \in 301..500
      BY <1>6, <2>1, <2>3
    <3> QED
      BY <1>1, <3>1 DEF Risks, row
  <2> QED
    BY <2>2, <2>3
<1>7. CASE row.take.capped
  <2>1. "hard_cap" \in Issues(row)
    BY <1>1, <1>7 DEF Issues
  <2> QED
    BY <2>1 DEF Risks, row
<1>8. CASE row.take.lowJudge
  BY <1>1, <1>8 DEF Risks, row
<1>9. CASE row.take.fit > 50
  <2>1. "fit_delta" \in Issues(row)
    BY <1>1, <1>9 DEF Issues
  <2> QED
    BY <2>1 DEF Risks, row
<1>10. Worrying(row)
  BY DEF row
<1> QED
  BY <1>5, <1>6, <1>7, <1>8, <1>9, <1>10 DEF Worrying

LEMMA RisksKnownInit == ShadowInit => RisksKnown
<1> SUFFICES ASSUME ShadowInit PROVE RisksKnown
  OBVIOUS
<1>1. auto.pc = "stopped"
  BY DEF ShadowInit, Stopped
<1>2. ASSUME NEW e \in merged, NEW i \in Segments(e)
      PROVE  Done(segment[<<e, i>>])
  <2>1. e \in Ready /\ e \in Shadows
    BY ShadowAssumption DEF ShadowInit
  <2> DEFINE s == <<e, i>>
  <2>2. s \in AllSegments /\ s[1] = e
    BY <2>1 DEF AllSegments
  <2>3. segment[s] = ReadyRow(s)
    BY <2>1, <2>2 DEF ShadowInit
  <2>4. ReadyRow(s).status \in {"synthesized", "skipped"}
    BY RowKinds DEF ReadyRow
  <2> QED
    BY <2>3, <2>4 DEF Done
<1> QED
  BY <1>1, <1>2 DEF RisksKnown, Watching

(* Steps that leave the segments and the merged shadows alone, and do not  *)
(* begin to watch.                                                         *)
LEMMA RisksUntouched ==
    ASSUME RisksKnown, UNCHANGED <<segment, merged>>,
           auto'.pc \in Watching => /\ auto.pc \in Watching
                                    /\ auto'.shadow = auto.shadow /\ auto'.ids = auto.ids
                                    /\ auto'.changed = auto.changed,
           auto'.pc = "query" => auto.pc = "query",
           auto'.pc \in Watching \ {"query"} => auto.pc # "query" \/ auto.shadow \in merged
    PROVE  RisksKnown'
BY DEF RisksKnown, Watching, Worrying, Done

(* A row is written that is still to be done, or by sending it back.       *)
LEMMA RisksSegmentStep ==
    ASSUME RowsAreMade, RisksKnown, HostHolds, EpisodeStep
    PROVE  RisksKnown'
<1>0. segment = [s \in AllSegments |-> segment[s]] /\ auto \in AutoRecords
  BY DEF RowsAreMade, HostHolds
<1>1. ASSUME NEW s \in AllSegments, NEW row, segment[s] = Pending,
             segment' = [segment EXCEPT ![s] = row], row.status \in {"synthesized", "skipped"},
             UNCHANGED <<auto, merged>>
      PROVE  RisksKnown'
  <2>1. ~Done(segment[s]) /\ Done(row)
    BY <1>1, RowKinds DEF Done
  <2>2. \A t \in AllSegments : segment'[t] = IF t = s THEN row ELSE segment[t]
    BY <1>0, <1>1
  <2>3. s = <<s[1], s[2]>> /\ s[2] \in Segments(s[1])
    BY SegmentOfShadow
  <2>4. s[1] \notin merged
    BY <2>1, <2>3 DEF RisksKnown
  <2>5. \A e \in Shadows : \A i \in Segments(e) : <<e, i>> \in AllSegments
    BY DEF AllSegments
  <2>6. auto.pc # "stopped" => auto.shadow \in Shadows
    BY DEF HostHolds
  <2>7. ASSUME NEW e \in merged, NEW i \in Segments(e)
        PROVE  Done(segment'[<<e, i>>])
    <3>1. <<e, i>> # s
      BY <2>4
    <3>2. Done(segment[<<e, i>>])
      BY DEF RisksKnown
    <3>3. CASE <<e, i>> \in AllSegments
      BY <2>2, <3>1, <3>2, <3>3
    <3>4. CASE <<e, i>> \notin AllSegments
      <4>1. segment'[<<e, i>>] = segment[<<e, i>>]
        BY <1>0, <1>1, <3>1, <3>4
      <4> QED
        BY <3>2, <4>1
    <3> QED
      BY <3>3, <3>4
  <2>8. ASSUME auto.pc = "query", NEW i \in Segments(auto.shadow),
               ~Done(segment'[<<auto.shadow, i>>])
        PROVE  <<auto.shadow, i>> \in auto.changed
    <3>1. ~Done(segment[<<auto.shadow, i>>])
      BY <2>1, <2>2, <2>5, <2>6, <2>8
    <3> QED
      BY <2>8, <3>1 DEF RisksKnown
  <2>9. ASSUME auto.pc \in Watching, NEW i \in Segments(auto.shadow),
               Worrying(segment'[<<auto.shadow, i>>])
        PROVE  <<auto.shadow, i>> \in auto.ids \cup auto.changed
    <3>1. CASE <<auto.shadow, i>> = s
      <4>1. s[1] = auto.shadow
        BY <3>1
      <4>2. auto.pc = "query"
        BY <2>4, <2>9, <4>1 DEF RisksKnown
      <4> QED
        BY <2>1, <3>1, <4>2 DEF RisksKnown
    <3>2. CASE <<auto.shadow, i>> # s
      <4>1. segment'[<<auto.shadow, i>>] = segment[<<auto.shadow, i>>]
        BY <2>2, <2>5, <2>6, <2>9, <3>2 DEF Watching
      <4> QED
        BY <2>9, <4>1 DEF RisksKnown
    <3> QED
      BY <3>1, <3>2
  <2> QED
    BY <1>1, <2>7, <2>8, <2>9 DEF RisksKnown
<1>2. ASSUME NEW s \in AllSegments, Synthesize(s) \/ SkipSegment(s)
      PROVE  RisksKnown'
  <2>1. segment[s] = Pending /\ UNCHANGED <<auto, merged>>
    BY <1>2 DEF Synthesize, SkipSegment, hostVars
  <2>2. CASE SkipSegment(s)
    BY <1>1, <2>1, <2>2, RowKinds DEF SkipSegment
  <2>3. CASE Synthesize(s)
    <3>1. PICK made \in SynthesizedRows[s] : segment' = [segment EXCEPT ![s] = made]
      BY <2>3 DEF Synthesize
    <3>2. PICK p \in Shapes[s] \X Takes[s] : made = Synthesized(p[1], p[2])
      BY <3>1 DEF SynthesizedRows
    <3>3. made.status = "synthesized"
      BY <3>2, RowKinds
    <3> QED
      BY <1>1, <2>1, <3>1, <3>3
  <2> QED
    BY <1>2, <2>2, <2>3
<1>3. ASSUME NEW s \in AllSegments, ReworkSegment(s)
      PROVE  RisksKnown'
  <2>1. /\ s[1] \notin merged /\ segment' = [segment EXCEPT ![s] = Pending]
        /\ UNCHANGED merged
    BY <1>3 DEF ReworkSegment
  <2>2. /\ auto'.pc = auto.pc /\ auto'.shadow = auto.shadow /\ auto'.ids = auto.ids
        /\ auto.changed \subseteq auto'.changed
        /\ auto.pc = "query" => s \in auto'.changed
    BY <1>0, <1>3 DEF ReworkSegment, AutoRecords
  <2>3. \A t : t # s => segment'[t] = segment[t]
    BY <1>0, <2>1
  <2>4. \A e, i : e # s[1] => <<e, i>> # s
    OBVIOUS
  <2>5. ASSUME NEW e \in merged, NEW i \in Segments(e)
        PROVE  Done(segment'[<<e, i>>])
    BY <2>1, <2>3, <2>4 DEF RisksKnown
  <2>6. ASSUME auto.pc = "query", NEW i \in Segments(auto.shadow),
               ~Done(segment'[<<auto.shadow, i>>])
        PROVE  <<auto.shadow, i>> \in auto'.changed
    BY <2>2, <2>3, <2>6 DEF RisksKnown
  <2>7. ASSUME auto.pc \in Watching, NEW i \in Segments(auto.shadow),
               Worrying(segment'[<<auto.shadow, i>>])
        PROVE  <<auto.shadow, i>> \in auto'.ids \cup auto'.changed
    <3>1. CASE <<auto.shadow, i>> = s
      <4>1. auto.pc = "query"
        BY <2>1, <2>7, <3>1 DEF RisksKnown
      <4> QED
        BY <2>2, <3>1, <4>1
    <3>2. CASE <<auto.shadow, i>> # s
      BY <2>2, <2>3, <2>7, <3>2 DEF RisksKnown
    <3> QED
      BY <3>1, <3>2
  <2>8. auto'.pc \in Watching \ {"query"} => auto'.shadow \in merged'
    BY <2>1, <2>2 DEF RisksKnown
  <2> QED
    BY <2>1, <2>2, <2>5, <2>6, <2>7, <2>8 DEF RisksKnown
<1>4. ASSUME NEW e \in Shadows, MergeShadow(e)
      PROVE  RisksKnown'
  <2>1. /\ \A i \in Segments(e) : Done(segment[<<e, i>>])
        /\ merged' = merged \cup {e} /\ UNCHANGED <<segment, auto>>
    BY <1>4 DEF MergeShadow, hostVars
  <2> QED
    BY <2>1 DEF RisksKnown, Done, Worrying
<1> QED
  BY <1>2, <1>3, <1>4 DEF EpisodeStep

(* The monitor looks: nothing remains, and the risks are in its queue.     *)
LEMMA RisksMonitorStep ==
    ASSUME RowsAreMade, RisksKnown, HostHolds, RunMonitor
    PROVE  RisksKnown'
<1>0. auto \in AutoRecords /\ auto.pc = "monitor" /\ UNCHANGED <<segment, merged>>
      /\ auto.shadow \in Shadows
  BY DEF HostHolds, RunMonitor, UnchangedHere
<1>1. CASE WaitForEpisode \/ FinalizeFails
  BY <1>0, <1>1, AttemptEnds, RisksUntouched DEF Watching
<1>2. CASE /\ Remaining(auto.shadow) = {}
           /\ auto' = [auto EXCEPT !.pc = "query", !.ids = ReviewIds(auto.shadow)]
  <2>1. auto'.pc = "query" /\ auto'.shadow = auto.shadow /\ auto'.ids = ReviewIds(auto.shadow)
    BY <1>0, <1>2 DEF AutoRecords
  <2>2. \A i \in Segments(auto.shadow) : Done(segment[<<auto.shadow, i>>])
    BY <1>2 DEF Remaining
  <2>3. ASSUME NEW i \in Segments(auto.shadow), Worrying(segment[<<auto.shadow, i>>])
        PROVE  <<auto.shadow, i>> \in ReviewIds(auto.shadow)
    <3> DEFINE s == <<auto.shadow, i>>
    <3>1. s \in AllSegments /\ s[1] = auto.shadow
      BY <1>0 DEF AllSegments
    <3>2. Risks(segment[s]) # {}
      BY <2>3, <3>1, WorryIsRisk
    <3> HIDE DEF s
    <3>3. s \in ReviewIds(auto.shadow)
      BY <3>1, <3>2 DEF ReviewIds
    <3> QED
      BY <3>3 DEF s
  <2> QED
    BY <1>0, <2>1, <2>2, <2>3 DEF RisksKnown, Watching, Worrying, Done
<1> QED
  BY <1>1, <1>2 DEF RunMonitor

LEMMA RisksKnownStep == ShadowInv /\ RisksKnown /\ [ShadowNext]_shadowVars => RisksKnown'
<1> SUFFICES ASSUME RowsAreMade, HostHolds, RisksKnown, [ShadowNext]_shadowVars PROVE RisksKnown'
  BY DEF ShadowInv
<1>0. auto \in AutoRecords
  BY DEF HostHolds
<1>1. CASE UNCHANGED <<segment, merged, auto>>
  BY <1>1, RisksUntouched DEF Watching
<1>2. CASE \E e \in Shadows : Start(e)
  <2>1. auto'.pc = "monitor" /\ UNCHANGED <<segment, merged>>
    BY <1>2 DEF Start, Stopped
  <2> QED
    BY <2>1, RisksUntouched DEF Watching
<1>3. ASSUME auto.pc # "stopped", WaitForEpisode \/ FinalizeFails, UNCHANGED <<segment, merged>>
      PROVE  RisksKnown'
  BY <1>3, AttemptEnds, RisksUntouched DEF Watching
<1>4. ASSUME NEW place \in AutoPlaces, GoTo(place), UNCHANGED <<segment, merged>>,
             \/ place = "monitor"
             \/ place # "query" /\ auto.pc \in Watching /\ (auto.pc # "query" \/ auto.shadow \in merged)
      PROVE  RisksKnown'
  BY <1>4, Goes, RisksUntouched DEF Watching
<1>5. ASSUME auto' = Stopped, UNCHANGED <<segment, merged>>
      PROVE  RisksKnown'
  <2>1. auto'.pc = "stopped"
    BY <1>5 DEF Stopped
  <2> QED
    BY <1>5, <2>1, RisksUntouched DEF Watching
<1>6. CASE QueryCompletion \/ WakeUp \/ ExtractAudio
  BY <1>3, <1>4, <1>5, <1>6
  DEF QueryCompletion, WakeUp, ExtractAudio, UnchangedHere, AutoPlaces, Watching
<1>7. ASSUME NEW place \in {"asr", "retry"}, NEW known,
             auto' = [auto EXCEPT !.pc = place, !.known = known],
             auto.pc \in Watching \ {"query"}, UNCHANGED <<segment, merged>>
      PROVE  RisksKnown'
  <2>1. /\ auto'.pc = place /\ auto'.shadow = auto.shadow /\ auto'.ids = auto.ids
        /\ auto'.changed = auto.changed
    BY <1>0, <1>7 DEF AutoRecords
  <2> QED
    BY <1>7, <2>1, RisksUntouched DEF Watching
<1>8. CASE StartBatch \/ BatchRow \/ BatchEnds
  <2>1. UNCHANGED <<segment, merged>> /\ auto.pc \in {"read", "asr"}
    BY <1>8 DEF StartBatch, BatchRow, BatchEnds, UnchangedHere, HostHolds, NoBatch
  <2> QED
    BY <1>1, <1>4, <1>7, <1>8, <2>1 DEF StartBatch, BatchRow, BatchEnds, AutoPlaces, Watching
<1>9. CASE ChunkRetry \/ WriteReport \/ BuildPack
  <2>1. UNCHANGED <<segment, merged>> /\ auto.pc \in {"retry", "report", "pack"}
    BY <1>9 DEF ChunkRetry, WriteReport, BuildPack, UnchangedHere
  <2> QED
    BY <1>3, <1>4, <1>5, <1>9, <2>1 DEF ChunkRetry, WriteReport, BuildPack, AutoPlaces, Watching
<1>10. CASE BatchFails \/ HostKilled \/ OrphanRow
  <2>1. UNCHANGED <<segment, merged>> /\ (auto' = Stopped \/ UNCHANGED auto)
    BY <1>10 DEF BatchFails, HostKilled, OrphanRow, FinalizeFails
  <2> QED
    BY <1>1, <1>5, <2>1
<1>11. CASE RunMonitor
  BY <1>11, RisksMonitorStep
<1>12. CASE EpisodeStep
  BY <1>12, RisksSegmentStep
<1>13. CASE UNCHANGED shadowVars
  BY <1>1, <1>13 DEF shadowVars
<1> QED
  BY <1>2, <1>6, <1>8, <1>9, <1>10, <1>11, <1>12, <1>13 DEF ShadowNext, AutoStep

(* A segment that worries the monitor gets to the reviewer's pack, unless  *)
(* it has been synthesised again since the monitor read it.                *)
THEOREM RisksReachTheReviewer == ShadowSpec => RisksAreReviewed
<1>1. ShadowInit => RisksKnown
  BY RisksKnownInit
<1>2. ASSUME ShadowInv, RisksKnown, [ShadowNext]_shadowVars, files'.pack # files.pack
      PROVE  \A i \in Segments(auto.shadow) :
                 Worrying(segment[<<auto.shadow, i>>])
                     => <<auto.shadow, i>> \in files'.pack.ids \cup auto.changed
  <2>1. files \in FileRecords
    BY <1>2 DEF ShadowInv, HostHolds
  <2>2. CASE BuildPack
    <3>1. files' = [files EXCEPT !.pack = [shadow |-> auto.shadow, ids |-> auto.ids]]
          /\ auto.pc = "pack"
      BY <1>2, <2>2 DEF BuildPack
    <3>2. files'.pack.ids = auto.ids
      BY <2>1, <3>1 DEF FileRecords
    <3> QED
      BY <1>2, <3>1, <3>2 DEF RisksKnown, Watching
  <2>5. \/ UNCHANGED files \/ BuildPack
        \/ \E wav : files' = [files EXCEPT !.wav = wav]
        \/ \E raw : files' = [files EXCEPT !.raw = raw]
        \/ \E rest : files' = [files EXCEPT !.rest = rest]
        \/ \E report : files' = [files EXCEPT !.report = report]
    <3>1. CASE UNCHANGED shadowVars
      BY <3>1 DEF shadowVars
    <3>2. CASE EpisodeStep \/ \E e \in Shadows : Start(e)
      BY <3>2 DEF EpisodeStep, Start, Synthesize, SkipSegment, ReworkSegment, MergeShadow, hostVars
    <3>3. CASE AutoStep
      <4>1. CASE RunMonitor \/ QueryCompletion \/ WakeUp \/ ExtractAudio
        BY <4>1 DEF RunMonitor, QueryCompletion, WakeUp, ExtractAudio
      <4>2. CASE StartBatch \/ BatchRow \/ BatchEnds
        BY <4>2 DEF StartBatch, BatchRow, BatchEnds
      <4>3. CASE ChunkRetry \/ WriteReport \/ BuildPack
        BY <4>3 DEF ChunkRetry, WriteReport
      <4> QED
        BY <3>3, <4>1, <4>2, <4>3 DEF AutoStep
    <3>4. CASE BatchFails
      BY <3>4 DEF BatchFails
    <3>5. CASE HostKilled \/ OrphanRow
      BY <3>5 DEF HostKilled, OrphanRow
    <3> QED
      BY <1>2, <3>1, <3>2, <3>3, <3>4, <3>5 DEF ShadowNext
  <2>6. \A x : /\ [files EXCEPT !.wav = x].pack = files.pack
               /\ [files EXCEPT !.raw = x].pack = files.pack
               /\ [files EXCEPT !.rest = x].pack = files.pack
               /\ [files EXCEPT !.report = x].pack = files.pack
    BY <2>1 DEF FileRecords
  <2>7. CASE \E x : \/ files' = [files EXCEPT !.wav = x] \/ files' = [files EXCEPT !.raw = x]
                   \/ files' = [files EXCEPT !.rest = x] \/ files' = [files EXCEPT !.report = x]
    <3>1. files'.pack = files.pack
      <4>1. PICK x : \/ files' = [files EXCEPT !.wav = x] \/ files' = [files EXCEPT !.raw = x]
                     \/ files' = [files EXCEPT !.rest = x] \/ files' = [files EXCEPT !.report = x]
        BY <2>7
      <4>2. CASE files' = [files EXCEPT !.wav = x]
        BY <2>6, <4>2
      <4>3. CASE files' = [files EXCEPT !.raw = x]
        BY <2>6, <4>3
      <4>4. CASE files' = [files EXCEPT !.rest = x]
        BY <2>6, <4>4
      <4>5. CASE files' = [files EXCEPT !.report = x]
        BY <2>6, <4>5
      <4> QED
        BY <4>1, <4>2, <4>3, <4>4, <4>5
    <3> QED
      BY <1>2, <3>1
  <2> QED
    BY <1>2, <2>2, <2>5, <2>7
<1>3. ShadowInv /\ RisksKnown /\ [ShadowNext]_shadowVars
        => [files'.pack # files.pack =>
              \A i \in Segments(auto.shadow) :
                  Worrying(segment[<<auto.shadow, i>>])
                      => <<auto.shadow, i>> \in files'.pack.ids \cup auto.changed]_shadowVars
  BY <1>2
<1> QED
  BY <1>1, <1>3, RisksKnownStep, ShadowInvHolds, PTL DEF ShadowSpec, RisksAreReviewed

----------------------------------------------------------------------------
(* Types                                                                   *)

(* What neither the segment table nor the processes' records hold.         *)
RestTypes ==
    /\ merged \subseteq Shadows /\ haunted \in BOOLEAN
    /\ autoStatus \in {"none", "waiting_for_episode", "finalize_failed", "timeout",
                       "finalized"}

LEMMA RestTypesInit == ShadowInit => RestTypes
BY ShadowAssumption DEF ShadowInit, RestTypes

LEMMA RestTypesStep == RestTypes /\ [ShadowNext]_shadowVars => RestTypes'
<1> SUFFICES ASSUME RestTypes, [ShadowNext]_shadowVars PROVE RestTypes'
  OBVIOUS
<1> USE DEF RestTypes
<1>1. CASE UNCHANGED shadowVars
  BY <1>1 DEF shadowVars
<1>2. CASE EpisodeStep
  BY <1>2 DEF EpisodeStep, Synthesize, SkipSegment, ReworkSegment, MergeShadow, hostVars
<1>3. CASE \E e \in Shadows : Start(e)
  BY <1>3 DEF Start
<1>4. CASE AutoStep
  <2>1. CASE RunMonitor \/ QueryCompletion
    BY <2>1 DEF RunMonitor, QueryCompletion, WaitForEpisode, FinalizeFails, UnchangedHere
  <2>2. CASE WakeUp \/ ExtractAudio \/ ChunkRetry \/ BuildPack
    BY <2>2 DEF WakeUp, ExtractAudio, ChunkRetry, BuildPack, FinalizeFails, UnchangedHere
  <2>3. CASE StartBatch \/ BatchRow \/ BatchEnds \/ WriteReport
    BY <2>3 DEF StartBatch, BatchRow, BatchEnds, WriteReport, UnchangedHere
  <2> QED
    BY <1>4, <2>1, <2>2, <2>3 DEF AutoStep
<1>5. CASE BatchFails \/ HostKilled
  BY <1>5 DEF BatchFails, HostKilled, FinalizeFails
<1>6. CASE OrphanRow
  <2>1. haunted' \in BOOLEAN
    BY <1>6 DEF OrphanRow
  <2> QED
    BY <1>6, <2>1 DEF OrphanRow
<1> QED
  BY <1>1, <1>2, <1>3, <1>4, <1>5, <1>6 DEF ShadowNext

(* A synthesised row is a record of a take and what the two readers say.   *)
LEMMA RowIsTyped ==
    ASSUME NEW s \in AllSegments, NEW row, Made(s, row)
    PROVE  row \in [status : {"synthesized"}, asked : BOOLEAN, planned : BOOLEAN,
                    eligible : BOOLEAN, spokenAsShown : BOOLEAN, alike : BOOLEAN,
                    take : UNION {Takes[t] : t \in AllSegments}]
<1>1. PICK shape \in Shapes[s], take \in Takes[s] : row = Synthesized(shape, take)
  BY DEF Made
<1>2. take \in UNION {Takes[t] : t \in AllSegments}
  OBVIOUS
<1>3. /\ Planned(shape.spoken) \in BOOLEAN /\ Planned(shape.display) \in BOOLEAN
      /\ MonitorEligible(shape.display) \in BOOLEAN
      /\ ReadAlike(shape.display.text) \in BOOLEAN /\ (shape.spoken = shape.display) \in BOOLEAN
  BY DEF Planned, MonitorEligible, ByThresholds, ReadAlike
<1> QED
  BY <1>1, <1>2, <1>3, Zenon DEF Synthesized

(* Through any reuse of the run directory, any rework and any killed       *)
(* process, the segment table holds rows of its three kinds, the files of  *)
(* the run directory hold rows of segments of shadow episodes, and the     *)
(* status file one of its five words (auto_finalize_status.json).           *)
THEOREM ShadowTypeCorrect == ShadowSpec => []ShadowTypeOK
<1>1. RowsAreMade /\ HostHolds /\ RestTypes => ShadowTypeOK
  <2> SUFFICES ASSUME RowsAreMade, HostHolds, RestTypes PROVE ShadowTypeOK
    OBVIOUS
  <2> DEFINE Row0 == [status : {"synthesized"}, asked : BOOLEAN, planned : BOOLEAN,
                      eligible : BOOLEAN, spokenAsShown : BOOLEAN, alike : BOOLEAN, take : UNION {Takes[s] : s \in AllSegments}]
  <2>1. ASSUME NEW s \in AllSegments
        PROVE  segment[s] \in {Pending, Skipped} \cup Row0
    <3>1. Made(s, segment[s]) => segment[s] \in Row0
      BY RowIsTyped
    <3> HIDE DEF Row0
    <3> QED
      BY <3>1 DEF RowsAreMade
  <2> HIDE DEF Row0
  <2>2. segment \in [AllSegments -> {Pending, Skipped} \cup Row0]
    BY <2>1 DEF RowsAreMade
  <2>3. files.raw \subseteq Rows /\ files.rest \subseteq Rows
    BY DEF HostHolds, FileRecords
  <2>4. /\ auto.pc \in AutoPlaces /\ auto.known \subseteq Rows
        /\ auto.ids \cup auto.changed \subseteq AllSegments
    BY DEF HostHolds, AutoRecords
  <2> QED
    BY <2>2, <2>3, <2>4 DEF ShadowTypeOK, RestTypes, Row0
<1>2. ShadowSpec => []RestTypes
  BY RestTypesInit, RestTypesStep, PTL DEF ShadowSpec
<1> QED
  BY <1>1, <1>2, ShadowInvHolds, PTL DEF ShadowInv
=============================================================================
