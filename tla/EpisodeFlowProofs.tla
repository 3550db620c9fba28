------------------------- MODULE EpisodeFlowProofs -------------------------
(***************************************************************************)
(* Proofs about EpisodeFlow, for any number of workers and chapters, any   *)
(* plans the LLM may answer and any values of the bounds.                  *)
(***************************************************************************)
EXTENDS EpisodeFlow, SequenceTheorems, TLAPS

USE DEF fileVars, MergeStep

-----------------------------------------------------------------------------
(* The inductive invariant.                                                *)

\* What an episode task read.
Reading == [ep : EpisodeStatus, first : JobStatus, plan : Nat, cuts : Nat,
            next : Nat \ {0}, count : Nat]

\* The calls a worker may be about to make, and those of a merge that has read
\* the chapters.
Label == {"idle", "start"} \cup Leased \cup EpisodeStep
Merging == MergeStep

\* Tasks, with no bound on the ordinal of a chapter.
OfChapter == [what : ChapterStage, ch : Nat \ {0}, skip : BOOLEAN]
OfEpisode == [what : EpisodeStage, ch : {0}, skip : {FALSE}]
Ticket == OfChapter \cup OfEpisode

\* A worker that may be about to make the call holds the task the call is for;
\* the merge of a chapter is followed by no other stage.
Fits(t, label) ==
  /\ label \in {"start"} \cup Leased => t \in OfChapter
  /\ label \in {"refresh", "advance"} => t.what # "merge"

WorkersOK ==
  /\ pc \in [Worker -> Label]
  /\ seen \in [Worker -> Reading]
  /\ task \in [Worker -> Ticket \cup {NoTask}]
  /\ \A w \in Worker : Fits(task[w], pc[w])

QueueOK == ready \in Seq(Ticket)

\* A chapter's job row.
Row == [status : JobStatus, version : Nat]

\* An episode never loses its first chapter.
RowsOK ==
  /\ epStatus \in EpisodeStatus
  /\ plan \in Nat
  /\ chapter \in Seq(Row)
  /\ Len(chapter) >= 1

\* A merge that goes on has read a chapter at least.
MergeHasChapters ==
  \A w \in Worker : pc[w] \in {"concat", "write"} => seen[w].count >= 1

IInv ==
  /\ WorkersOK /\ QueueOK /\ RowsOK
  /\ MergeHasChapters

\* Most steps have nothing to do with the merge: they take no worker into it.
NoWorkerEnters ==
  \A v \in Worker : pc'[v] \in Merging => pc'[v] = pc[v] /\ seen'[v] = seen[v]

LEMMA ApartKeeps ==
  ASSUME IInv, WorkersOK', QueueOK', RowsOK', NoWorkerEnters
  PROVE  IInv'
  BY DEF IInv, NoWorkerEnters, Merging, MergeStep, MergeHasChapters

-----------------------------------------------------------------------------
(* What the helpers of the model do.                                       *)

\* A worker goes to its next call with the task and the notes that it holds then.
LEMMA Steps ==
  ASSUME WorkersOK, NEW w \in Worker, NEW label \in Label,
         NEW t \in Ticket \cup {NoTask}, NEW note \in Reading, Fits(t, label),
         Goto(w, label), task' = [task EXCEPT ![w] = t], seen' = [seen EXCEPT ![w] = note]
  PROVE  /\ WorkersOK'
         /\ pc'[w] = label /\ seen'[w] = note
         /\ \A v \in Worker \ {w} : pc'[v] = pc[v] /\ seen'[v] = seen[v]
  <1>1. pc' = [pc EXCEPT ![w] = label]
    BY DEF Goto
  <1>2. /\ pc' \in [Worker -> Label]
        /\ task' \in [Worker -> Ticket \cup {NoTask}]
        /\ seen' \in [Worker -> Reading]
    BY <1>1 DEF WorkersOK
  <1>3. pc'[w] = label /\ task'[w] = t /\ seen'[w] = note
    BY <1>1 DEF WorkersOK
  <1>4. \A v \in Worker \ {w} : pc'[v] = pc[v] /\ task'[v] = task[v] /\ seen'[v] = seen[v]
    BY <1>1 DEF WorkersOK
  <1>5. \A v \in Worker : Fits(task'[v], pc'[v])
    BY <1>3, <1>4 DEF WorkersOK
  <1> QED  BY <1>2, <1>3, <1>4, <1>5 DEF WorkersOK

\* The same for a call outside the merge.
LEMMA Moves ==
  ASSUME WorkersOK, NEW w \in Worker, NEW label \in Label \ Merging,
         NEW t \in Ticket \cup {NoTask}, NEW note \in Reading, Fits(t, label),
         Goto(w, label), task' = [task EXCEPT ![w] = t], seen' = [seen EXCEPT ![w] = note]
  PROVE  WorkersOK' /\ NoWorkerEnters
  BY Steps DEF NoWorkerEnters

\* A worker that keeps its task and its notes makes its next call.
LEMMA GoesOn ==
  ASSUME WorkersOK, NEW w \in Worker, NEW label \in Label \ Merging, Fits(task[w], label),
         Goto(w, label), UNCHANGED <<task, seen>>
  PROVE  WorkersOK' /\ NoWorkerEnters
  <1>1. /\ task' = [task EXCEPT ![w] = task[w]]
        /\ seen' = [seen EXCEPT ![w] = seen[w]]
        /\ task[w] \in Ticket \cup {NoTask}
        /\ seen[w] \in Reading
    BY DEF WorkersOK
  <1> QED  BY <1>1, Moves

\* An episode task makes its next call and notes what it read.
LEMMA Notes ==
  ASSUME WorkersOK, NEW w \in Worker, NEW label \in EpisodeStep \ Merging,
         NEW note \in Reading, Goto(w, label), UNCHANGED task,
         seen' = [seen EXCEPT ![w] = note]
  PROVE  WorkersOK' /\ NoWorkerEnters
  <1>1. task' = [task EXCEPT ![w] = task[w]] /\ task[w] \in Ticket \cup {NoTask}
    BY DEF WorkersOK
  <1>2. Fits(task[w], label)
    BY DEF Fits, EpisodeStep, Leased
  <1>3. label \in Label \ Merging
    BY DEF Label
  <1> QED  BY <1>1, <1>2, <1>3, Moves

LEMMA UnseenIsReading == Unseen \in Reading
  BY DEF Unseen, Reading, EpisodeStatus, JobStatus

\* A worker that returns keeps nothing.
LEMMA Returns ==
  ASSUME WorkersOK, NEW w \in Worker, Idle(w)
  PROVE  WorkersOK' /\ NoWorkerEnters
  <1>1. /\ Goto(w, "idle")
        /\ task' = [task EXCEPT ![w] = NoTask]
        /\ seen' = [seen EXCEPT ![w] = Unseen]
    BY DEF Idle
  <1>2. "idle" \in Label \ Merging /\ Fits(NoTask, "idle")
    BY DEF Label, Merging, Fits, Leased
  <1> QED  BY <1>1, <1>2, UnseenIsReading, Moves

\* A chapter handler makes its next call inside the lease.
LEMMA Continues ==
  ASSUME WorkersOK, NEW w \in Worker, pc[w] \in {"start"} \cup Leased,
         NEW label \in Leased \ {"refresh", "advance"},
         Goto(w, label), UNCHANGED <<task, seen>>
  PROVE  WorkersOK' /\ NoWorkerEnters
  <1>1. Fits(task[w], label)
    BY DEF WorkersOK, Fits
  <1>2. label \in Label \ Merging
    BY DEF Label, Merging, Leased
  <1> QED  BY <1>1, <1>2, GoesOn

\* A stage is followed by its job's completion or by the next stage.
LEMMA EndsStage ==
  ASSUME WorkersOK, NEW w \in Worker, pc[w] \in Leased, AfterStage(w), UNCHANGED <<task, seen>>
  PROVE  WorkersOK' /\ NoWorkerEnters
  <1>1. CASE task[w].what = "merge" \/ task[w].skip
    <2>1. Goto(w, "complete")
      BY <1>1 DEF AfterStage
    <2> QED  BY <2>1, Continues DEF Leased
  <1>2. CASE ~(task[w].what = "merge" \/ task[w].skip)
    <2>1. Goto(w, "refresh")
      BY <1>2 DEF AfterStage
    <2>2. Fits(task[w], "refresh")
      BY <1>2 DEF WorkersOK, Fits
    <2>3. "refresh" \in Label \ Merging
      BY DEF Label, Merging, Leased
    <2> QED  BY <2>1, <2>2, <2>3, GoesOn
  <1> QED  BY <1>1, <1>2

\* UpdateEpisodeStatus completes an episode only when it is asked to.
LEMMA OnlyCompletedCompletes ==
  ASSUME RowsOK, NEW to \in EpisodeStatus, UpdateEpisodeStatus(to)
  PROVE  /\ epStatus' \in EpisodeStatus
         /\ epStatus' = "completed" => epStatus = "completed" \/ to = "completed"
  BY DEF RowsOK, UpdateEpisodeStatus

\* A change of one chapter keeps the rows.
LEMMA ChapterKept ==
  ASSUME RowsOK, NEW c, NEW row, c \in DOMAIN chapter => row \in Row,
         chapter' = [chapter EXCEPT ![c] = row], epStatus' \in EpisodeStatus, plan' \in Nat
  PROVE  RowsOK'
  <1>1. chapter \in Seq(Row) /\ chapter \in [1..Len(chapter) -> Row]
    BY LenProperties DEF RowsOK
  <1>2. CASE c \in 1..Len(chapter)
    <2>1. chapter' \in Seq(Row) /\ Len(chapter') = Len(chapter)
      BY <1>1, <1>2, ExceptSeq
    <2> QED  BY <2>1 DEF RowsOK
  <1>3. CASE c \notin 1..Len(chapter)
    <2>1. chapter' = chapter
      BY <1>1, <1>3
    <2> QED  BY <2>1 DEF RowsOK
  <1> QED  BY <1>2, <1>3

\* A status write keeps the rows.
LEMMA StatusKept ==
  ASSUME RowsOK, NEW c, NEW st \in JobStatus, SetStatus(c, st),
         epStatus' \in EpisodeStatus, plan' \in Nat
  PROVE  RowsOK'
  <1> DEFINE row == [chapter[c] EXCEPT !.status = st]
  <1>1. chapter' = [chapter EXCEPT ![c] = row]
    BY DEF SetStatus
  <1>2. c \in DOMAIN chapter => row \in Row
    <2>1. c \in DOMAIN chapter => chapter[c] \in Row
      BY ElementOfSeq DEF RowsOK
    <2> QED  BY <2>1 DEF Row
  <1> HIDE DEF row
  <1> QED  BY <1>1, <1>2, ChapterKept

\* A task of the right kind is pushed.
LEMMA Pushed ==
  ASSUME QueueOK, NEW t \in Ticket, ready' = Append(ready, t)
  PROVE  QueueOK'
  BY AppendProperties DEF QueueOK

\* The next stage of a chapter is enqueued.
LEMMA Enqueued ==
  ASSUME QueueOK, RowsOK, NEW c \in Nat \ {0}, NEW s \in ChapterStage, EnqueueStage(c, s),
         epStatus' \in EpisodeStatus, plan' \in Nat
  PROVE  QueueOK' /\ RowsOK'
  <1>1. SetStatus(c, "queued") /\ ready' = Append(ready, ChapterTask(c, s))
    BY DEF EnqueueStage
  <1>2. ChapterTask(c, s) \in Ticket
    BY DEF ChapterTask, Ticket, OfChapter
  <1>3. QueueOK'
    BY <1>1, <1>2, Pushed
  <1>4. RowsOK'
    BY <1>1, StatusKept DEF JobStatus
  <1> QED  BY <1>3, <1>4

\* An episode task is pushed.
LEMMA EpisodePushed ==
  ASSUME QueueOK, NEW s \in EpisodeStage, ready' = Append(ready, EpisodeTask(s))
  PROVE  QueueOK'
  <1>1. EpisodeTask(s) \in Ticket
    BY DEF EpisodeTask, Ticket, OfEpisode
  <1> QED  BY <1>1, Pushed

-----------------------------------------------------------------------------
(* Every step keeps the invariant.                                         *)

\* The initial state: chapter 1 is queued for transcription, nobody works.
LEMMA IInvInit == Init => IInv
  <1> SUFFICES ASSUME Init PROVE IInv
    OBVIOUS
  <1>1. WorkersOK
    BY UnseenIsReading DEF Init, WorkersOK, Label, Fits, Leased
  <1>2. QueueOK
    <2>1. ChapterTask(1, "asr") \in Ticket
      BY DEF ChapterTask, Ticket, OfChapter, ChapterStage
    <2> QED  BY <2>1 DEF Init, QueueOK
  <1>3. RowsOK
    BY DEF Init, RowsOK, Row, JobStatus, EpisodeStatus
  <1>4. MergeHasChapters
    BY DEF Init, MergeHasChapters
  <1> QED  BY <1>1, <1>2, <1>3, <1>4 DEF IInv

\* A worker pops a task: of a chapter or of the episode.
LEMMA PopKeeps ==
  ASSUME IInv, NEW w \in Worker, Pop(w)
  PROVE  IInv'
  <1> DEFINE t == Head(ready)
             label == IF t.ch = 0 THEN t.what ELSE "start"
  <1>1. /\ ready # <<>>
        /\ task' = [task EXCEPT ![w] = t]
        /\ ready' = Tail(ready)
        /\ Goto(w, label)
        /\ UNCHANGED <<rowVars, seen, countVars>>
    BY DEF Pop
  <1>2. t \in Ticket /\ QueueOK'
    BY <1>1, HeadTailProperties DEF IInv, QueueOK
  <1>3. label \in Label \ Merging /\ Fits(t, label)
    <2>1. CASE t \in OfChapter
      BY <2>1 DEF OfChapter, Label, Merging, Fits, Leased
    <2>2. CASE t \in OfEpisode
      BY <2>2 DEF OfEpisode, EpisodeStage, EpisodeStep, Label, Merging, Fits, Leased
    <2> QED  BY <1>2, <2>1, <2>2 DEF Ticket
  <1>4. seen' = [seen EXCEPT ![w] = seen[w]] /\ seen[w] \in Reading
    BY <1>1 DEF IInv, WorkersOK
  <1> HIDE DEF t, label
  <1>5. WorkersOK' /\ NoWorkerEnters
    BY <1>1, <1>2, <1>3, <1>4, Moves DEF IInv
  <1>6. RowsOK'
    BY <1>1 DEF IInv, RowsOK, rowVars
  <1> QED  BY <1>2, <1>5, <1>6, ApartKeeps

\* A step that leaves the rows of the episode alone has kept the invariant when
\* it has kept what its worker and the queue are.
LEMMA RowsAlone ==
  ASSUME IInv, UNCHANGED rowVars, WorkersOK', NoWorkerEnters, QueueOK'
  PROVE  IInv'
  <1>1. RowsOK'
    BY DEF IInv, RowsOK, rowVars
  <1> QED  BY <1>1, ApartKeeps

\* A step that writes the status of a chapter and pushes nothing.
LEMMA WritesStatus ==
  ASSUME IInv, NEW c, NEW st \in JobStatus, SetStatus(c, st),
         UNCHANGED <<epStatus, plan, ready>>, WorkersOK', NoWorkerEnters
  PROVE  IInv'
  <1>1. RowsOK'
    BY StatusKept DEF IInv, RowsOK
  <1>2. QueueOK'
    BY DEF IInv, QueueOK
  <1> QED  BY <1>1, <1>2, ApartKeeps

\* A step that enqueues a stage of a chapter.
LEMMA Enqueues ==
  ASSUME IInv, NEW c \in Nat \ {0}, NEW s \in ChapterStage, EnqueueStage(c, s),
         UNCHANGED <<epStatus, plan>>, WorkersOK', NoWorkerEnters
  PROVE  IInv'
  <1>1. QueueOK' /\ RowsOK'
    BY Enqueued DEF IInv, RowsOK
  <1> QED  BY <1>1, ApartKeeps

\* A step that asks for a status of the episode other than completed.
LEMMA AsksStatus ==
  ASSUME IInv, NEW to \in EpisodeStatus \ {"completed"},
         UpdateEpisodeStatus(to) \/ UNCHANGED epStatus,
         UNCHANGED <<plan, chapter, ready>>, WorkersOK', NoWorkerEnters
  PROVE  IInv'
  <1>1. epStatus' \in EpisodeStatus /\ (epStatus' = "completed" => epStatus = "completed")
    BY OnlyCompletedCompletes DEF IInv, RowsOK
  <1>2. RowsOK' /\ QueueOK'
    BY <1>1 DEF IInv, RowsOK, QueueOK
  <1> QED  BY <1>2, ApartKeeps

\* The handler of a chapter stage, up to what the stage itself does.
LEMMA StageKeeps ==
  ASSUME IInv, NEW w \in Worker,
         \/ StartStage(w) \/ RequeueBusy(w) \/ Transcribe(w) \/ Park(w) \/ Dub(w)
         \/ MergeChapter(w) \/ CountChapters(w) \/ EnqueueMerge(w)
  PROVE  IInv'
  <1> USE DEF IInv
  <1>1. CASE StartStage(w)
    <2>1. task[w].what \in Leased \ {"refresh", "advance"}
      BY <1>1 DEF StartStage, WorkersOK, Fits, OfChapter, ChapterStage, Leased
    <2>2. WorkersOK' /\ NoWorkerEnters
      BY <1>1, <2>1, Continues DEF StartStage
    <2> QED  BY <1>1, <2>2, WritesStatus DEF StartStage, JobStatus
  <1>2. CASE RequeueBusy(w)
    <2>1. task[w] \in Ticket
      BY <1>2 DEF RequeueBusy, WorkersOK, Fits, Ticket
    <2>2. QueueOK'
      BY <1>2, <2>1, Pushed DEF RequeueBusy
    <2>3. WorkersOK' /\ NoWorkerEnters
      BY <1>2, Returns DEF RequeueBusy
    <2> QED  BY <1>2, <2>2, <2>3, RowsAlone DEF RequeueBusy
  <1>3. CASE Transcribe(w)
    <2>1. QueueOK'
      BY <1>3, EpisodePushed DEF Transcribe, EpisodeStage
    <2>2. WorkersOK' /\ NoWorkerEnters
      <3>1. pc[w] \in Leased /\ "park" \in Leased \ {"refresh", "advance"}
        BY <1>3 DEF Transcribe, Leased
      <3>2. CASE long /\ whole
        BY <1>3, <3>1, <3>2, Continues DEF Transcribe
      <3>3. CASE ~(long /\ whole)
        BY <1>3, <3>1, <3>3, EndsStage DEF Transcribe
      <3> QED  BY <3>2, <3>3
    <2>3. RowsOK'
      BY <1>3, <2>2 DEF Transcribe, RowsOK
    <2> QED  BY <2>1, <2>2, <2>3, ApartKeeps
  <1>4. CASE Park(w)
    <2>1. WorkersOK' /\ NoWorkerEnters
      BY <1>4, EndsStage DEF Park, Leased
    <2> QED  BY <1>4, <2>1, WritesStatus DEF Park, JobStatus
  <1>5. CASE Dub(w)
    <2>1. WorkersOK' /\ NoWorkerEnters
      BY <1>5, EndsStage DEF Dub, Leased
    <2> QED  BY <1>5, <2>1, RowsAlone DEF Dub, QueueOK
  <1>6. CASE MergeChapter(w)
    <2> DEFINE c == task[w].ch
               row == [chapter[c] EXCEPT !.version = @ + 1]
    <2>1. WorkersOK' /\ NoWorkerEnters
      <3>1. pc[w] \in Leased /\ "count" \in Leased \ {"refresh", "advance"}
        BY <1>6 DEF MergeChapter, Leased
      <3> QED  BY <1>6, <3>1, Continues DEF MergeChapter
    <2>2. c \in DOMAIN chapter => row \in Row
      <3>1. c \in DOMAIN chapter => chapter[c] \in Row
        BY ElementOfSeq DEF RowsOK
      <3> QED  BY <3>1 DEF Row
    <2>3. chapter' = [chapter EXCEPT ![c] = row]
      BY <1>6 DEF MergeChapter
    <2>4. epStatus' \in EpisodeStatus /\ plan' \in Nat
      BY <1>6 DEF MergeChapter, RowsOK
    <2> HIDE DEF c, row
    <2>5. RowsOK'
      BY <2>2, <2>3, <2>4, ChapterKept
    <2>6. QueueOK'
      BY <1>6, <2>1 DEF MergeChapter, QueueOK
    <2> QED  BY <2>1, <2>5, <2>6, ApartKeeps
  <1>7. CASE CountChapters(w)
    <2>1. pc[w] \in Leased /\ {"enqueue", "reenqueue"} \subseteq Leased \ {"refresh", "advance"}
      BY <1>7 DEF CountChapters, Leased
    <2>2. WorkersOK' /\ NoWorkerEnters
      <3>1. CASE AllCompleted
        <4>1. PICK label \in {"enqueue", "reenqueue"} : Goto(w, label)
          BY <1>7, <3>1 DEF CountChapters
        <4> QED  BY <1>7, <2>1, <3>1, <4>1, Continues DEF CountChapters
      <3>2. CASE ~AllCompleted /\ pc[w] = "count"
        BY <1>7, <2>1, <3>2, EndsStage DEF CountChapters
      <3>3. CASE ~AllCompleted /\ pc[w] # "count"
        BY <1>7, <3>3, Returns DEF CountChapters
      <3> QED  BY <3>1, <3>2, <3>3
    <2> QED  BY <1>7, <2>2, RowsAlone DEF CountChapters, QueueOK
  <1>8. CASE EnqueueMerge(w)
    <2>1. QueueOK'
      BY <1>8, EpisodePushed DEF EnqueueMerge, EpisodeStage
    <2>2. WorkersOK' /\ NoWorkerEnters
      <3>1. CASE pc[w] = "enqueue"
        BY <1>8, <3>1, EndsStage DEF EnqueueMerge, Leased
      <3>2. CASE pc[w] # "enqueue"
        BY <1>8, <3>2, Returns DEF EnqueueMerge
      <3> QED  BY <3>1, <3>2
    <2> QED  BY <1>8, <2>1, <2>2, RowsAlone DEF EnqueueMerge
  <1> QED  BY <1>1, <1>2, <1>3, <1>4, <1>5, <1>6, <1>7, <1>8

\* The handler of a chapter stage, after the stage.
LEMMA AftermathKeeps ==
  ASSUME IInv, NEW w \in Worker,
         \/ CompleteChapter(w) \/ Shortcut(w) \/ MarkEpisodeRunning(w) \/ RefreshJob(w)
         \/ Advance(w) \/ StageFails(w) \/ MirrorFailure(w) \/ FailEpisode(w)
  PROVE  IInv'
  <1> USE DEF IInv
  <1>0. {"shortcut", "running", "recount", "mirror", "fail_ep"} \subseteq Leased \ {"refresh", "advance"}
    BY DEF Leased
  <1>1. CASE CompleteChapter(w)
    <2>1. WorkersOK' /\ NoWorkerEnters
      BY <1>0, <1>1, Continues DEF CompleteChapter, Leased
    <2> QED  BY <1>1, <2>1, WritesStatus DEF CompleteChapter, JobStatus
  <1>2. CASE Shortcut(w)
    <2>1. pc[w] \in Leased
      BY <1>2 DEF Shortcut, Leased
    <2>2. WorkersOK' /\ NoWorkerEnters
      <3>1. CASE Over(epStatus)
        BY <1>2, <3>1, Returns DEF Shortcut
      <3>2. CASE ~Over(epStatus)
        <4>1. PICK label \in {"running", "recount"} : Goto(w, label)
          BY <1>2, <3>2 DEF Shortcut
        <4> QED  BY <1>0, <1>2, <2>1, <3>2, <4>1, Continues DEF Shortcut
      <3> QED  BY <3>1, <3>2
    <2> QED  BY <1>2, <2>2, RowsAlone DEF Shortcut, QueueOK
  <1>3. CASE MarkEpisodeRunning(w)
    <2>1. WorkersOK' /\ NoWorkerEnters
      BY <1>0, <1>3, Continues DEF MarkEpisodeRunning, Leased
    <2>2. "running" \in EpisodeStatus \ {"completed"}
      BY DEF EpisodeStatus
    <2> QED  BY <1>3, <2>1, <2>2, AsksStatus DEF MarkEpisodeRunning
  <1>4. CASE RefreshJob(w)
    <2>1. WorkersOK' /\ NoWorkerEnters
      <3>1. CASE chapter[task[w].ch].status \in ParkedStatus
        BY <1>4, <3>1, Returns DEF RefreshJob
      <3>2. CASE chapter[task[w].ch].status \notin ParkedStatus
        <4>1. "advance" \in Label \ Merging
          BY DEF Label, Leased, Merging
        <4>2. Fits(task[w], "advance")
          BY <1>4 DEF RefreshJob, WorkersOK, Fits, Leased
        <4> QED  BY <1>4, <3>2, <4>1, <4>2, GoesOn DEF RefreshJob
      <3> QED  BY <3>1, <3>2
    <2> QED  BY <1>4, <2>1, RowsAlone DEF RefreshJob, QueueOK
  <1>5. CASE Advance(w)
    <2>1. task[w] \in OfChapter /\ task[w].what # "merge"
      BY <1>5 DEF Advance, WorkersOK, Fits, Leased
    <2>2. task[w].ch \in Nat \ {0} /\ Following[task[w].what] \in ChapterStage
      BY <2>1 DEF OfChapter, ChapterStage, Following
    <2>3. WorkersOK' /\ NoWorkerEnters
      BY <1>5, Returns DEF Advance
    <2> QED  BY <1>5, <2>2, <2>3, Enqueues DEF Advance
  <1>6. CASE StageFails(w)
    <2>1. WorkersOK' /\ NoWorkerEnters
      BY <1>0, <1>6, Continues DEF StageFails, ChapterStage, Leased
    <2> QED  BY <1>6, <2>1, WritesStatus DEF StageFails, JobStatus
  <1>7. CASE MirrorFailure(w)
    <2>1. WorkersOK' /\ NoWorkerEnters
      <3>1. CASE total > 1 \/ Over(epStatus)
        BY <1>7, <3>1, Returns DEF MirrorFailure
      <3>2. CASE ~(total > 1 \/ Over(epStatus))
        BY <1>0, <1>7, <3>2, Continues DEF MirrorFailure, Leased
      <3> QED  BY <3>1, <3>2
    <2> QED  BY <1>7, <2>1, RowsAlone DEF MirrorFailure, QueueOK
  <1>8. CASE FailEpisode(w)
    <2>1. WorkersOK' /\ NoWorkerEnters
      BY <1>8, Returns DEF FailEpisode
    <2>2. "failed" \in EpisodeStatus \ {"completed"}
      BY DEF EpisodeStatus
    <2> QED  BY <1>8, <2>1, <2>2, AsksStatus DEF FailEpisode
  <1> QED  BY <1>1, <1>2, <1>3, <1>4, <1>5, <1>6, <1>7, <1>8

\* The glossary task and the chapterize task.
LEMMA ChapterizeKeeps ==
  ASSUME IInv, NEW w \in Worker,
         \/ ExtractGlossary(w) \/ EnqueueChapterize(w)
         \/ LoadEpisode(w) \/ DecideCuts(w) \/ ResumeChapter1(w)
         \/ NarrowChapter1(w) \/ CreateChapterJob(w) \/ BumpTotal(w) \/ DispatchEpisode(w)
         \/ FanOut(w)
  PROVE  IInv'
  <1> USE DEF IInv
  <1>0. /\ EpisodeStep \ Merging \subseteq Label \ Merging
        /\ \A l \in EpisodeStep \ Merging : Fits(task[w], l)
        /\ {"enqueue_chapterize", "plan", "resume", "slice", "create", "bump", "dispatch", "fan"}
             \subseteq EpisodeStep \ Merging
        /\ seen[w] \in Reading
    BY DEF Label, Fits, EpisodeStep, Merging, Leased, WorkersOK
  <1>1. CASE ExtractGlossary(w)
    <2>1. WorkersOK' /\ NoWorkerEnters
      <3>1. CASE transcribed
        BY <1>0, <1>1, <3>1, GoesOn DEF ExtractGlossary
      <3>2. CASE ~transcribed
        BY <1>1, <3>2, Returns DEF ExtractGlossary
      <3> QED  BY <3>1, <3>2
    <2>2. plan' \in Nat
      BY <1>1, EpisodeAssumption DEF ExtractGlossary, RowsOK
    <2>3. RowsOK' /\ QueueOK'
      BY <1>1, <2>1, <2>2 DEF ExtractGlossary, RowsOK, QueueOK
    <2> QED  BY <2>1, <2>3, ApartKeeps
  <1>2. CASE EnqueueChapterize(w)
    <2>1. QueueOK'
      BY <1>2, EpisodePushed DEF EnqueueChapterize, EpisodeStage
    <2>2. WorkersOK' /\ NoWorkerEnters
      BY <1>2, Returns DEF EnqueueChapterize
    <2> QED  BY <1>2, <2>1, <2>2, RowsAlone DEF EnqueueChapterize
  <1>3. CASE LoadEpisode(w)
    <2>1. WorkersOK' /\ NoWorkerEnters
      <3>1. CASE Len(chapter) > 1 \/ ~transcribed
        BY <1>3, <3>1, Returns DEF LoadEpisode
      <3>2. CASE ~(Len(chapter) > 1 \/ ~transcribed)
        <4> DEFINE note == [seen[w] EXCEPT !.ep = epStatus, !.first = chapter[1].status, !.plan = plan]
        <4>1. chapter[1] \in Row
          BY ElementOfSeq DEF RowsOK
        <4>2. note \in Reading
          BY <1>0, <4>1 DEF Reading, Row, RowsOK
        <4>3. seen' = [seen EXCEPT ![w] = note] /\ Goto(w, "plan") /\ UNCHANGED task
          BY <1>3, <3>2 DEF LoadEpisode
        <4> HIDE DEF note
        <4> QED  BY <1>0, <4>2, <4>3, Notes
      <3> QED  BY <3>1, <3>2
    <2> QED  BY <1>3, <2>1, RowsAlone DEF LoadEpisode, QueueOK
  <1>4. CASE DecideCuts(w)
    <2>1. WorkersOK' /\ NoWorkerEnters
      <3>1. PICK n \in Nat :
              IF n > 1
                THEN seen' = [seen EXCEPT ![w].cuts = n] /\ Goto(w, "slice") /\ UNCHANGED task
                ELSE IF seen[w].first = "awaiting_chapterize"
                       THEN Goto(w, "resume") /\ UNCHANGED <<task, seen>>
                       ELSE Idle(w)
        BY <1>0, <1>4, EpisodeAssumption DEF DecideCuts, Reading
      <3>2. CASE n > 1
        <4> DEFINE note == [seen[w] EXCEPT !.cuts = n]
        <4>1. note \in Reading
          BY <1>0, <3>1 DEF Reading
        <4>2. seen' = [seen EXCEPT ![w] = note] /\ Goto(w, "slice") /\ UNCHANGED task
          BY <3>1, <3>2
        <4> HIDE DEF note
        <4> QED  BY <1>0, <4>1, <4>2, Notes
      <3>3. CASE ~(n > 1) /\ seen[w].first = "awaiting_chapterize"
        BY <1>0, <3>1, <3>3, GoesOn
      <3>4. CASE ~(n > 1) /\ seen[w].first # "awaiting_chapterize"
        BY <3>1, <3>4, Returns
      <3> QED  BY <3>2, <3>3, <3>4
    <2>2. "chaptering" \in EpisodeStatus \ {"completed"}
      BY DEF EpisodeStatus
    <2> QED  BY <1>4, <2>1, <2>2, AsksStatus DEF DecideCuts
  <1>5. CASE ResumeChapter1(w)
    <2>1. WorkersOK' /\ NoWorkerEnters
      BY <1>5, Returns DEF ResumeChapter1
    <2> QED  BY <1>5, <2>1, Enqueues DEF ResumeChapter1, ChapterStage
  <1>6. CASE NarrowChapter1(w)
    <2> DEFINE note == [seen[w] EXCEPT !.next = 2]
    <2>1. note \in Reading
      BY <1>0 DEF Reading
    <2>2. seen' = [seen EXCEPT ![w] = note]
      BY <1>6 DEF NarrowChapter1
    <2> HIDE DEF note
    <2>3. WorkersOK' /\ NoWorkerEnters
      BY <1>0, <1>6, <2>1, <2>2, Notes DEF NarrowChapter1
    <2>4. RowsOK' /\ QueueOK'
      BY <1>6, <2>3 DEF NarrowChapter1, RowsOK, QueueOK
    <2> QED  BY <2>3, <2>4, ApartKeeps
  <1>7. CASE CreateChapterJob(w)
    <2> DEFINE note == [seen[w] EXCEPT !.next = @ + 1]
    <2>1. note \in Reading
      BY <1>0 DEF Reading
    <2>2. seen' = [seen EXCEPT ![w] = note]
      BY <1>7 DEF CreateChapterJob
    <2> HIDE DEF note
    <2>3. PICK label \in {"bump", "create"} : Goto(w, label)
      BY <1>7 DEF CreateChapterJob
    <2>4. WorkersOK' /\ NoWorkerEnters
      BY <1>0, <1>7, <2>1, <2>2, <2>3, Notes DEF CreateChapterJob
    <2>5. [status |-> "pending", version |-> 0] \in Row
      BY DEF Row, JobStatus
    <2>6. chapter' \in Seq(Row) /\ Len(chapter') = Len(chapter) + 1
      BY <1>7, <2>5, AppendProperties DEF CreateChapterJob, RowsOK
    <2>7. RowsOK'
      BY <1>7, <2>6, LenProperties DEF CreateChapterJob, RowsOK
    <2>8. QueueOK'
      BY <1>7, <2>4 DEF CreateChapterJob, QueueOK
    <2> QED  BY <2>4, <2>7, <2>8, ApartKeeps
  <1>8. CASE BumpTotal(w)
    <2>1. WorkersOK' /\ NoWorkerEnters
      BY <1>0, <1>8, GoesOn DEF BumpTotal
    <2>2. RowsOK' /\ QueueOK'
      BY <1>8, <2>1 DEF BumpTotal, RowsOK, QueueOK
    <2> QED  BY <2>1, <2>2, ApartKeeps
  <1>9. CASE DispatchEpisode(w)
    <2> DEFINE note == [seen[w] EXCEPT !.next = 1]
    <2>1. note \in Reading
      BY <1>0 DEF Reading
    <2>2. seen' = [seen EXCEPT ![w] = note]
      BY <1>9 DEF DispatchEpisode
    <2> HIDE DEF note
    <2>3. WorkersOK' /\ NoWorkerEnters
      BY <1>0, <1>9, <2>1, <2>2, Notes DEF DispatchEpisode
    <2>4. "dispatched" \in EpisodeStatus \ {"completed"}
      BY DEF EpisodeStatus
    <2> QED  BY <1>9, <2>3, <2>4, AsksStatus DEF DispatchEpisode
  <1>10. CASE FanOut(w)
    <2>1. WorkersOK' /\ NoWorkerEnters
      <3>1. CASE seen[w].next = seen[w].cuts
        BY <1>10, <3>1, Returns DEF FanOut
      <3>2. CASE seen[w].next # seen[w].cuts
        <4> DEFINE note == [seen[w] EXCEPT !.next = @ + 1]
        <4>1. note \in Reading
          BY <1>0 DEF Reading
        <4>2. seen' = [seen EXCEPT ![w] = note] /\ UNCHANGED <<pc, task>> /\ pc[w] = "fan"
          BY <1>10, <3>2 DEF FanOut
        <4> HIDE DEF note
        <4>3. Goto(w, "fan")
          BY <4>2 DEF Goto, WorkersOK
        <4> QED  BY <1>0, <4>1, <4>2, <4>3, Notes
      <3> QED  BY <3>1, <3>2
    <2>2. seen[w].next \in Nat \ {0}
      BY <1>0 DEF Reading
    <2> QED  BY <1>10, <2>1, <2>2, Enqueues DEF FanOut, ChapterStage
  <1> QED  BY <1>1, <1>2, <1>3, <1>4, <1>5, <1>6, <1>7, <1>8, <1>9, <1>10

\* The merge task of the episode, with what it has read.
LEMMA MergeKeeps ==
  ASSUME IInv, NEW w \in Worker,
         \/ CheckChapters(w) \/ Concat(w) \/ WriteFinal(w) \/ EmptyOutput(w) \/ Clamp(w)
         \/ RecordOutput(w) \/ MergeFails(w) \/ EpisodeStageFails(w)
  PROVE  IInv'
  <1> USE DEF IInv
  <1>0. /\ Merging \subseteq Label
        /\ \A l \in Merging : Fits(task[w], l)
        /\ task' = task => task' = [task EXCEPT ![w] = task[w]]
        /\ task[w] \in Ticket \cup {NoTask}
        /\ seen[w] \in Reading
    BY DEF Label, Fits, EpisodeStep, MergeStep, Merging, Leased, WorkersOK
  <1>1. CASE CheckChapters(w)
    <2>1. CASE seen' = [seen EXCEPT ![w].ep = epStatus, ![w].count = Len(chapter)]
               /\ Goto(w, "concat") /\ UNCHANGED task
      <3> DEFINE note == [seen[w] EXCEPT !.ep = epStatus, !.count = Len(chapter)]
      <3>1. note \in Reading /\ note.count >= 1
        BY <1>0, LenProperties DEF Reading, RowsOK
      <3>2. seen' = [seen EXCEPT ![w] = note] /\ Goto(w, "concat")
        BY <2>1
      <3> HIDE DEF note
      <3>3. /\ WorkersOK' /\ pc'[w] = "concat" /\ seen'[w] = note
            /\ \A v \in Worker \ {w} : pc'[v] = pc[v] /\ seen'[v] = seen[v]
        BY <1>0, <2>1, <3>1, <3>2, Steps, ZenonT(40) DEF Merging, MergeStep
      <3>4. MergeHasChapters'
        BY <3>1, <3>3 DEF MergeHasChapters
      <3>5. RowsOK' /\ QueueOK'
        BY <1>1 DEF CheckChapters, rowVars, RowsOK, QueueOK
      <3> QED  BY <3>3, <3>4, <3>5
    <2>2. CASE Idle(w)
      <3>1. WorkersOK' /\ NoWorkerEnters
        BY <2>2, Returns
      <3> QED  BY <1>1, <3>1, RowsAlone DEF CheckChapters, QueueOK
    <2> QED  BY <1>1, <2>1, <2>2 DEF CheckChapters
  <1>2. CASE Concat(w) \/ WriteFinal(w) \/ EmptyOutput(w) \/ Clamp(w)
    <2>1. PICK label \in {"write", "clamp", "record"} :
            /\ Goto(w, label)
            /\ label = "write" => pc[w] = "concat"
      BY <1>2 DEF Concat, WriteFinal, EmptyOutput, Clamp
    <2>2. seen' = [seen EXCEPT ![w] = seen[w]] /\ UNCHANGED <<epStatus, plan, chapter, ready, task>>
      BY <1>2 DEF Concat, WriteFinal, EmptyOutput, Clamp, WorkersOK, rowVars
    <2>3. /\ WorkersOK' /\ pc'[w] = label /\ seen'[w] = seen[w]
          /\ \A v \in Worker \ {w} : pc'[v] = pc[v] /\ seen'[v] = seen[v]
      <3>1. label \in Label /\ Fits(task[w], label)
        BY <1>0 DEF Merging
      <3>2. task' = [task EXCEPT ![w] = task[w]]
        BY <1>0, <2>2
      <3>3. WorkersOK /\ Goto(w, label) /\ seen' = [seen EXCEPT ![w] = seen[w]]
        BY <2>1, <2>2
      <3>4. task[w] \in Ticket \cup {NoTask} /\ seen[w] \in Reading
        BY <1>0
      <3> HIDE DEF IInv, fileVars, MergeStep
      <3> QED  BY <3>1, <3>2, <3>3, <3>4, Steps
    <2>4. MergeHasChapters'
      BY <2>1, <2>3 DEF MergeHasChapters
    <2>5. RowsOK' /\ QueueOK'
      BY <2>2 DEF RowsOK, QueueOK
    <2> QED  BY <2>3, <2>4, <2>5
  <1>3. CASE RecordOutput(w)
    <2>1. WorkersOK' /\ NoWorkerEnters
      BY <1>3, Returns DEF RecordOutput
    <2>2. epStatus' \in EpisodeStatus
      BY <1>3, OnlyCompletedCompletes DEF RecordOutput, RowsOK, EpisodeStatus
    <2>3. RowsOK' /\ QueueOK'
      BY <1>3, <2>2 DEF RecordOutput, RowsOK, QueueOK
    <2> QED  BY <2>1, <2>3, ApartKeeps
  <1>4. CASE MergeFails(w)
    <2>1. WorkersOK' /\ NoWorkerEnters
      BY <1>4, Returns DEF MergeFails
    <2>2. "failed" \in EpisodeStatus \ {"completed"}
      BY DEF EpisodeStatus
    <2> QED  BY <1>4, <2>1, <2>2, AsksStatus DEF MergeFails
  <1>5. CASE EpisodeStageFails(w)
    <2>1. WorkersOK' /\ NoWorkerEnters
      BY <1>5, Returns DEF EpisodeStageFails
    <2> QED  BY <1>5, <2>1, RowsAlone DEF EpisodeStageFails, QueueOK
  <1> QED  BY <1>1, <1>2, <1>3, <1>4, <1>5

\* A user retries a chapter.
LEMMA RetryKeeps ==
  ASSUME IInv, NEW c \in DOMAIN chapter, NEW s \in ChapterStage, NEW skip \in BOOLEAN,
         RetryChapter(c, s, skip)
  PROVE  IInv'
  <1> DEFINE t == [what |-> s, ch |-> c, skip |-> skip]
  <1>1. t \in Ticket
    BY LenProperties DEF IInv, RowsOK, Ticket, OfChapter
  <1>2. ready' = Append(ready, t)
    BY DEF RetryChapter
  <1> HIDE DEF t
  <1>3. QueueOK'
    BY <1>1, <1>2, Pushed DEF IInv
  <1>4. RowsOK'
    BY StatusKept DEF IInv, RetryChapter, RowsOK, JobStatus
  <1>5. WorkersOK' /\ NoWorkerEnters
    BY DEF IInv, RetryChapter, WorkersOK, NoWorkerEnters
  <1> QED  BY <1>3, <1>4, <1>5, ApartKeeps

\* Every step, and stuttering.
LEMMA IInvStep == IInv /\ [Next]_vars => IInv'
  <1> SUFFICES ASSUME IInv, [Next]_vars PROVE IInv'
    OBVIOUS
  <1>1. CASE UNCHANGED vars
    BY <1>1 DEF vars, rowVars, IInv, WorkersOK, QueueOK, RowsOK, MergeHasChapters
  <1>2. ASSUME NEW w \in Worker, Pop(w) PROVE IInv'
    BY <1>2, PopKeeps
  <1>3. ASSUME NEW w \in Worker, HandleChapter(w) PROVE IInv'
    BY <1>3, StageKeeps, AftermathKeeps DEF HandleChapter
  <1>4. ASSUME NEW w \in Worker, HandleEpisode(w) PROVE IInv'
    BY <1>4, ChapterizeKeeps, MergeKeeps DEF HandleEpisode
  <1>5. ASSUME NEW c \in DOMAIN chapter, NEW s \in ChapterStage, NEW skip \in BOOLEAN,
               RetryChapter(c, s, skip)
        PROVE  IInv'
    BY <1>5, RetryKeeps
  <1> QED  BY <1>1, <1>2, <1>3, <1>4, <1>5 DEF Next

\* Workers hold the tasks their handlers expect, tasks are well formed, and an
\* episode keeps at least its first chapter.
THEOREM EpisodeWellFormed == Spec => [](WorkersOK /\ QueueOK /\ RowsOK)
  <1>1. IInv => WorkersOK /\ QueueOK /\ RowsOK
    BY DEF IInv
  <1> QED  BY <1>1, IInvInit, IInvStep, PTL DEF Spec

-----------------------------------------------------------------------------
(* The one fan-out of an episode. Transcription, glossary and chapterize    *)
(* hand one token on: a task or a worker from which the fan-out may still   *)
(* come. While it is about, nobody merges the episode.                      *)

\* A task that may lead to a fan-out, and a worker that may be on the way to it.
Seed(t) == t.what \in {"asr", "glossary", "chapterize"}
OnTheWay(w) ==
  \/ pc[w] \in {"asr", "glossary", "enqueue_chapterize", "chapterize", "plan", "slice",
                "create", "bump", "dispatch"}
  \/ pc[w] = "start" /\ task[w].what = "asr"
Open == (\E i \in DOMAIN ready : Seed(ready[i])) \/ \E w \in Worker : OnTheWay(w)

OneSeed ==
  /\ \A i, j \in DOMAIN ready : Seed(ready[i]) /\ Seed(ready[j]) => i = j
  /\ \A v, w \in Worker : OnTheWay(v) /\ OnTheWay(w) => v = w
  /\ \A i \in DOMAIN ready, w \in Worker : Seed(ready[i]) => ~OnTheWay(w)

\* Before the segments exist there is the transcription of chapter 1 and nothing
\* else: one task or worker at most, none after it failed for good ...
Untranscribed ==
  ~transcribed =>
    /\ \A i \in DOMAIN ready : ready[i].what = "asr" /\ ready[i].ch = 1
    /\ \A w \in Worker : /\ pc[w] \in {"idle", "start", "asr", "mirror", "fail_ep"}
                         /\ pc[w] # "idle" => task[w].what = "asr" /\ task[w].ch = 1
    /\ \A v, w \in Worker : pc[v] \in Leased /\ pc[w] \in Leased => v = w
    /\ whole /\ total = 1 /\ Len(chapter) = 1
    /\ chapter[1].status \in {"queued", "running", "failed"}
    /\ chapter[1].status = "failed" => ~Open
    /\ epStatus \in {"pending", "failed"}
    /\ final = <<>>

\* ... and it skips auto-advance only when a user retried it, after a failure
\* that ends the episode before the retry can start.
Troubled == epStatus = "failed" \/ \E w \in Worker : pc[w] \in {"mirror", "fail_ep"}
SkipNeedsFailure ==
  ~transcribed =>
    /\ chapter[1].status = "failed" => Troubled
    /\ \A i \in DOMAIN ready : ready[i].skip => Troubled
    /\ \A w \in Worker : pc[w] = "start" /\ task[w].skip => Troubled
    /\ \A w \in Worker : pc[w] = "asr" /\ task[w].skip => epStatus = "failed"

\* The video is transcribed once.
TranscribedOnce ==
  transcribed => /\ \A i \in DOMAIN ready : ready[i].what # "asr"
                 /\ \A w \in Worker : pc[w] # "asr" /\ ~(pc[w] = "start" /\ task[w].what = "asr")

\* The other workers go on as they were.
Alone(w) ==
  \A v \in Worker \ {w} : pc'[v] = pc[v] /\ task'[v] = task[v] /\ seen'[v] = seen[v]

LEMMA AppendAt ==
  ASSUME QueueOK, NEW t, ready' = Append(ready, t)
  PROVE  /\ DOMAIN ready' = 1..Len(ready) + 1
         /\ DOMAIN ready = 1..Len(ready) /\ Len(ready) \in Nat
         /\ \A i \in DOMAIN ready : i \in DOMAIN ready' /\ ready'[i] = ready[i]
         /\ ready'[Len(ready) + 1] = t
         /\ \A i \in DOMAIN ready' : i \in DOMAIN ready \/ i = Len(ready) + 1
  BY DEF QueueOK

LEMMA TailAt ==
  ASSUME QueueOK, ready # <<>>, ready' = Tail(ready)
  PROVE  /\ DOMAIN ready' = 1..Len(ready) - 1
         /\ DOMAIN ready = 1..Len(ready) /\ Len(ready) \in Nat \ {0}
         /\ \A i \in DOMAIN ready' : i + 1 \in DOMAIN ready /\ ready'[i] = ready[i + 1] /\ i # 0
         /\ Head(ready) = ready[1] /\ 1 \in DOMAIN ready
  BY DEF QueueOK

\* Who goes on.
LEMMA OthersStay ==
  ASSUME IInv, NEW w \in Worker, Pop(w) \/ HandleChapter(w) \/ HandleEpisode(w)
  PROVE  Alone(w)
  <1> USE DEF Alone, Goto, Idle, AfterStage, IInv, WorkersOK
  <1>1. CASE Pop(w)
    BY <1>1 DEF Pop
  <1>2. CASE HandleChapter(w)
    BY <1>2 DEF HandleChapter, StartStage, RequeueBusy, Transcribe, Park, Dub, MergeChapter,
       CountChapters, EnqueueMerge, CompleteChapter, Shortcut, MarkEpisodeRunning, RefreshJob,
       Advance, StageFails, MirrorFailure, FailEpisode
  <1>3. CASE HandleEpisode(w)
    BY <1>3 DEF HandleEpisode, ExtractGlossary, EnqueueChapterize, LoadEpisode, DecideCuts,
       ResumeChapter1, NarrowChapter1, CreateChapterJob, BumpTotal, DispatchEpisode, FanOut,
       CheckChapters, Concat, WriteFinal, EmptyOutput, Clamp, RecordOutput, MergeFails,
       EpisodeStageFails
  <1> QED  BY <1>1, <1>2, <1>3

\* A worker that leaves the way, or hands its token to the queue.
LEMMA SeedKept ==
  ASSUME QueueOK, OneSeed, NEW w \in Worker, Alone(w),
         \/ ready' = ready /\ (OnTheWay(w)' => OnTheWay(w))
         \/ \E t : /\ ready' = Append(ready, t)
                   /\ \/ ~Seed(t) /\ (OnTheWay(w)' => OnTheWay(w))
                      \/ OnTheWay(w) /\ ~OnTheWay(w)'
  PROVE  OneSeed' /\ (Open' => Open)
  <1>1. \A v \in Worker \ {w} : OnTheWay(v)' <=> OnTheWay(v)
    BY DEF Alone, OnTheWay
  <1>2. CASE ready' = ready /\ (OnTheWay(w)' => OnTheWay(w))
    <2> HIDE DEF OnTheWay
    <2> QED  BY <1>1, <1>2 DEF OneSeed, Open
  <1>3. ASSUME NEW t, ready' = Append(ready, t),
               \/ ~Seed(t) /\ (OnTheWay(w)' => OnTheWay(w))
               \/ OnTheWay(w) /\ ~OnTheWay(w)'
        PROVE  OneSeed' /\ (Open' => Open)
    <2>1. /\ DOMAIN ready \subseteq DOMAIN ready'
          /\ \A i \in DOMAIN ready : ready'[i] = ready[i]
          /\ \A i \in DOMAIN ready' : i \in DOMAIN ready \/ (i = Len(ready) + 1 /\ ready'[i] = t)
      BY <1>3, AppendAt
    <2> HIDE DEF OnTheWay, Seed
    <2>2. CASE ~Seed(t) /\ (OnTheWay(w)' => OnTheWay(w))
      BY <1>1, <2>1, <2>2 DEF OneSeed, Open
    <2>3. CASE OnTheWay(w) /\ ~OnTheWay(w)'
      <3>1. \A i \in DOMAIN ready : ~Seed(ready[i])
        BY <2>3 DEF OneSeed
      <3>2. \A v \in Worker : ~OnTheWay(v)'
        BY <1>1, <2>3 DEF OneSeed
      <3>3. \A i \in DOMAIN ready' : Seed(ready'[i]) => i = Len(ready) + 1
        BY <2>1, <3>1
      <3> QED  BY <2>3, <3>2, <3>3 DEF OneSeed, Open
    <2> QED  BY <1>3, <2>2, <2>3
  <1> QED  BY <1>2, <1>3

\* A worker takes what lies at the head of the queue.
LEMMA SeedPopped ==
  ASSUME IInv, OneSeed, NEW w \in Worker, Pop(w)
  PROVE  OneSeed' /\ (Open' => Open)
  <1>1. Alone(w)
    BY OthersStay
  <1>2. /\ QueueOK /\ ready # <<>> /\ ready' = Tail(ready) /\ pc[w] = "idle"
        /\ task'[w] = Head(ready)
        /\ pc'[w] = IF Head(ready).ch = 0 THEN Head(ready).what ELSE "start"
    BY DEF Pop, Goto, IInv, WorkersOK
  <1>3. Head(ready) \in Ticket
    BY <1>2, HeadTailProperties DEF QueueOK
  <1>4. OnTheWay(w)' => Seed(Head(ready))
    BY <1>2, <1>3 DEF OnTheWay, Seed, Ticket, OfChapter, OfEpisode, EpisodeStage
  <1>5. ~OnTheWay(w)
    BY <1>2 DEF OnTheWay
  <1>6. \A v \in Worker \ {w} : OnTheWay(v)' <=> OnTheWay(v)
    BY <1>1 DEF Alone, OnTheWay
  <1>7. /\ \A i \in DOMAIN ready' : i + 1 \in DOMAIN ready /\ ready'[i] = ready[i + 1] /\ i \in Nat \ {0}
        /\ Head(ready) = ready[1] /\ 1 \in DOMAIN ready
    BY <1>2, TailAt
  <1> HIDE DEF OnTheWay, Seed
  <1>8. \A i, j \in DOMAIN ready' : Seed(ready'[i]) /\ Seed(ready'[j]) => i = j
    <2> SUFFICES ASSUME NEW i \in DOMAIN ready', NEW j \in DOMAIN ready',
                        Seed(ready'[i]), Seed(ready'[j])
                 PROVE  i = j
      OBVIOUS
    <2>1. i + 1 = j + 1
      BY <1>7 DEF OneSeed
    <2> QED  BY <1>7, <2>1
  <1>9. \A i \in DOMAIN ready', v \in Worker : Seed(ready'[i]) => ~OnTheWay(v)'
    <2> SUFFICES ASSUME NEW i \in DOMAIN ready', NEW v \in Worker, Seed(ready'[i]), OnTheWay(v)'
                 PROVE  FALSE
      OBVIOUS
    <2>1. CASE v # w
      BY <1>6, <1>7, <2>1 DEF OneSeed
    <2>2. CASE v = w
      <3>1. i + 1 = 1
        BY <1>4, <1>7, <2>2 DEF OneSeed
      <3> QED  BY <1>7, <3>1
    <2> QED  BY <2>1, <2>2
  <1>10. \A u, v \in Worker : OnTheWay(u)' /\ OnTheWay(v)' => u = v
    BY <1>4, <1>6, <1>7 DEF OneSeed
  <1>11. Open' => Open
    BY <1>4, <1>6, <1>7 DEF Open
  <1> QED  BY <1>8, <1>9, <1>10, <1>11 DEF OneSeed

\* The handlers of the chapter stages.
LEMMA SeedInChapter ==
  ASSUME IInv, OneSeed, NEW w \in Worker, HandleChapter(w)
  PROVE  OneSeed' /\ (Open' => Open)
  <1>0. QueueOK /\ WorkersOK /\ Alone(w) /\ Fits(task[w], pc[w])
    BY OthersStay DEF IInv, WorkersOK
  <1> USE DEF Goto, Idle, AfterStage
  <1>1. CASE StartStage(w)
    <2>1. ready' = ready /\ task' = task /\ pc[w] = "start" /\ pc'[w] = task[w].what
      BY <1>0, <1>1 DEF StartStage, WorkersOK
    <2>2. OnTheWay(w)' => OnTheWay(w)
      BY <1>0, <2>1 DEF OnTheWay, Fits, OfChapter, ChapterStage
    <2> QED  BY <1>0, <2>1, <2>2, SeedKept
  <1>2. CASE RequeueBusy(w)
    <2>1. ready' = Append(ready, task[w]) /\ pc[w] = "start" /\ pc'[w] = "idle"
      BY <1>0, <1>2 DEF RequeueBusy, WorkersOK
    <2>2. ~OnTheWay(w)' /\ (Seed(task[w]) => OnTheWay(w))
      BY <1>0, <2>1 DEF OnTheWay, Seed, Fits, OfChapter, ChapterStage
    <2> QED  BY <1>0, <2>1, <2>2, SeedKept
  <1>3. CASE Transcribe(w)
    <2>1. /\ ready' = Append(ready, EpisodeTask("glossary")) /\ pc[w] = "asr"
          /\ pc'[w] \in {"park", "complete", "refresh"}
      BY <1>0, <1>3 DEF Transcribe, WorkersOK
    <2>2. OnTheWay(w) /\ ~OnTheWay(w)'
      BY <2>1 DEF OnTheWay
    <2> QED  BY <1>0, <2>1, <2>2, SeedKept
  <1>4. CASE EnqueueMerge(w)
    <2>1. /\ ready' = Append(ready, EpisodeTask("ep_merge"))
          /\ pc'[w] \in {"complete", "refresh", "idle"}
      BY <1>0, <1>4 DEF EnqueueMerge, WorkersOK
    <2>2. ~OnTheWay(w)' /\ ~Seed(EpisodeTask("ep_merge"))
      BY <2>1 DEF OnTheWay, Seed, EpisodeTask
    <2> QED  BY <1>0, <2>1, <2>2, SeedKept
  <1>5. CASE Advance(w)
    <2>1. /\ ready' = Append(ready, ChapterTask(task[w].ch, Following[task[w].what]))
          /\ pc[w] = "advance" /\ pc'[w] = "idle"
      BY <1>0, <1>5 DEF Advance, EnqueueStage, WorkersOK
    <2>2. task[w].what \in {"asr", "dub"}
      BY <1>0, <2>1 DEF Fits, Leased, OfChapter, ChapterStage
    <2>3. ~OnTheWay(w)' /\ ~Seed(ChapterTask(task[w].ch, Following[task[w].what]))
      BY <2>1, <2>2 DEF OnTheWay, Seed, ChapterTask, Following
    <2> QED  BY <1>0, <2>1, <2>3, SeedKept
  <1>6. CASE \/ Park(w) \/ Dub(w) \/ MergeChapter(w) \/ CountChapters(w) \/ CompleteChapter(w)
             \/ Shortcut(w) \/ MarkEpisodeRunning(w) \/ RefreshJob(w)
             \/ StageFails(w) \/ MirrorFailure(w) \/ FailEpisode(w)
    <2>1. /\ ready' = ready
          /\ pc'[w] \in {"complete", "refresh", "count", "enqueue", "reenqueue", "idle", "shortcut",
                         "running", "recount", "advance", "mirror", "fail_ep"}
      BY <1>0, <1>6 DEF Park, Dub, MergeChapter, CountChapters, CompleteChapter, Shortcut,
         MarkEpisodeRunning, RefreshJob, StageFails, MirrorFailure, FailEpisode, WorkersOK
    <2>2. ~OnTheWay(w)'
      BY <2>1 DEF OnTheWay
    <2> QED  BY <1>0, <2>1, <2>2, SeedKept
  <1> QED  BY <1>1, <1>2, <1>3, <1>4, <1>5, <1>6 DEF HandleChapter

\* The handlers of the episode tasks.
LEMMA SeedInEpisode ==
  ASSUME IInv, OneSeed, NEW w \in Worker, HandleEpisode(w)
  PROVE  OneSeed' /\ (Open' => Open)
  <1>0. QueueOK /\ WorkersOK /\ Alone(w)
    BY OthersStay DEF IInv
  <1> USE DEF Goto, Idle
  <1>1. CASE EnqueueChapterize(w)
    <2>1. /\ ready' = Append(ready, EpisodeTask("chapterize"))
          /\ pc[w] = "enqueue_chapterize" /\ pc'[w] = "idle"
      BY <1>0, <1>1 DEF EnqueueChapterize, WorkersOK
    <2>2. OnTheWay(w) /\ ~OnTheWay(w)'
      BY <2>1 DEF OnTheWay
    <2> QED  BY <1>0, <2>1, <2>2, SeedKept
  <1>2. CASE ResumeChapter1(w) \/ FanOut(w)
    <2>1. PICK c : ready' = Append(ready, ChapterTask(c, "dub"))
      BY <1>2 DEF ResumeChapter1, FanOut, EnqueueStage
    <2>2. pc'[w] \in {"idle", "fan"}
      BY <1>0, <1>2 DEF ResumeChapter1, FanOut, WorkersOK
    <2>3. ~OnTheWay(w)' /\ ~Seed(ChapterTask(c, "dub"))
      BY <2>2 DEF OnTheWay, Seed, ChapterTask
    <2> QED  BY <1>0, <2>1, <2>3, SeedKept
  <1>3. CASE \/ ExtractGlossary(w) \/ LoadEpisode(w) \/ DecideCuts(w)
             \/ NarrowChapter1(w) \/ CreateChapterJob(w) \/ BumpTotal(w) \/ DispatchEpisode(w)
    <2>1. ready' = ready /\ OnTheWay(w)
      BY <1>3 DEF ExtractGlossary, LoadEpisode, DecideCuts, NarrowChapter1,
         CreateChapterJob, BumpTotal, DispatchEpisode, OnTheWay
    <2> QED  BY <1>0, <2>1, SeedKept
  <1>4. CASE \/ CheckChapters(w) \/ Concat(w) \/ WriteFinal(w) \/ EmptyOutput(w) \/ Clamp(w)
             \/ RecordOutput(w) \/ MergeFails(w)
             \/ EpisodeStageFails(w)
    <2>1. ready' = ready /\ pc'[w] \in {"idle", "concat", "write", "clamp", "record"}
      BY <1>0, <1>4 DEF CheckChapters, Concat, WriteFinal, EmptyOutput, Clamp, RecordOutput,
         MergeFails, EpisodeStageFails, WorkersOK
    <2>2. ~OnTheWay(w)'
      BY <2>1 DEF OnTheWay
    <2> QED  BY <1>0, <2>1, <2>2, SeedKept
  <1> QED  BY <1>1, <1>2, <1>3, <1>4 DEF HandleEpisode

\* A retry: a transcription is retried only when it has failed for good.
LEMMA SeedInRetry ==
  ASSUME IInv, OneSeed, Untranscribed, NEW c \in DOMAIN chapter, NEW s \in ChapterStage,
         NEW skip \in BOOLEAN, RetryChapter(c, s, skip)
  PROVE  OneSeed' /\ (Open' => Open \/ ~transcribed)
  <1> DEFINE t == [what |-> s, ch |-> c, skip |-> skip]
  <1>1. ready' = Append(ready, t) /\ QueueOK /\ \A v \in Worker : OnTheWay(v)' <=> OnTheWay(v)
    BY DEF RetryChapter, OnTheWay, IInv
  <1>2. Seed(t) <=> s = "asr"
    BY DEF Seed, ChapterStage
  <1>3. s = "asr" => ~transcribed /\ ~Open
    <2>1. s = "asr" => ~transcribed /\ chapter[c].status \in {"failed", "completed"}
      BY DEF RetryChapter
    <2>2. DOMAIN chapter = 1..Len(chapter)
      BY DEF IInv, RowsOK
    <2> QED  BY <2>1, <2>2 DEF Untranscribed
  <1> HIDE DEF t
  <1>4. /\ DOMAIN ready \subseteq DOMAIN ready'
        /\ \A i \in DOMAIN ready : ready'[i] = ready[i]
        /\ \A i \in DOMAIN ready' : i \in DOMAIN ready \/ (i = Len(ready) + 1 /\ ready'[i] = t)
    BY <1>1, AppendAt
  <1> HIDE DEF OnTheWay, Seed
  <1>5. CASE s # "asr"
    BY <1>1, <1>2, <1>4, <1>5 DEF OneSeed, Open
  <1>6. CASE s = "asr"
    <2>1. /\ \A v \in Worker : ~OnTheWay(v)'
          /\ \A i \in DOMAIN ready' : Seed(ready'[i]) => i = Len(ready) + 1
      BY <1>1, <1>3, <1>4, <1>6 DEF Open
    <2> QED  BY <1>3, <1>6, <2>1 DEF OneSeed
  <1> QED  BY <1>5, <1>6

\* A status write changes one status.
LEMMA StatusAt ==
  ASSUME RowsOK, NEW c, NEW st, SetStatus(c, st)
  PROVE  /\ DOMAIN chapter' = DOMAIN chapter /\ Len(chapter') = Len(chapter)
         /\ DOMAIN chapter = 1..Len(chapter) /\ Len(chapter) \in Nat \ {0} /\ 1 \in DOMAIN chapter
         /\ c \in DOMAIN chapter => chapter'[c].status = st
         /\ \A d \in DOMAIN chapter : d # c => chapter'[d] = chapter[d]
         /\ \A d \in DOMAIN chapter : chapter'[d].version = chapter[d].version
  <1>1. chapter \in Seq(Row) /\ DOMAIN chapter = 1..Len(chapter) /\ Len(chapter) \in Nat
    BY DEF RowsOK
  <1>2. \A d \in DOMAIN chapter : chapter[d] \in Row
    BY <1>1
  <1>3. chapter' = [chapter EXCEPT ![c] = [chapter[c] EXCEPT !.status = st]]
    BY DEF SetStatus
  <1>4. DOMAIN chapter' = DOMAIN chapter /\ Len(chapter') = Len(chapter)
    <2>1. chapter \in [1..Len(chapter) -> Row]
      BY <1>1, <1>2
    <2>2. DOMAIN chapter' = DOMAIN chapter
      BY <1>3, <2>1
    <2>3. chapter' = [d \in 1..Len(chapter) |-> chapter'[d]]
      BY <1>1, <1>3, <2>1
    <2>4. Len([d \in 1..Len(chapter) |-> chapter'[d]]) = Len(chapter)
      BY <1>1
    <2> QED  BY <2>2, <2>3, <2>4
  <1>5. \A d \in DOMAIN chapter : d # c => chapter'[d] = chapter[d]
    BY <1>1, <1>3
  <1>6. c \in DOMAIN chapter => chapter'[c] = [chapter[c] EXCEPT !.status = st]
    BY <1>1, <1>3
  <1>7. c \in DOMAIN chapter => chapter'[c].status = st /\ chapter'[c].version = chapter[c].version
    BY <1>2, <1>6 DEF Row
  <1>8. Len(chapter) >= 1
    BY DEF RowsOK
  <1> QED  BY <1>1, <1>4, <1>5, <1>7, <1>8

\* A worker that is at work before the segments exist has the transcription.
EarlyStep(w) ==
  StartStage(w) \/ RequeueBusy(w) \/ StageFails(w) \/ MirrorFailure(w) \/ FailEpisode(w)

LEMMA EarlySteps ==
  ASSUME Untranscribed, ~transcribed', ~transcribed, NEW w \in Worker,
         HandleChapter(w) \/ HandleEpisode(w)
  PROVE  EarlyStep(w)
  <1>1. pc[w] \in {"idle", "start", "asr", "mirror", "fail_ep"}
    BY DEF Untranscribed
  <1>2. CASE HandleChapter(w)
    BY <1>1, <1>2 DEF HandleChapter, EarlyStep, Transcribe, Park, Dub, MergeChapter,
       CountChapters, EnqueueMerge, CompleteChapter, Shortcut, MarkEpisodeRunning, RefreshJob,
       Advance
  <1>3. CASE HandleEpisode(w)
    BY <1>1, <1>3 DEF HandleEpisode, ExtractGlossary, EnqueueChapterize, LoadEpisode, DecideCuts,
       ResumeChapter1, NarrowChapter1, CreateChapterJob, BumpTotal, DispatchEpisode, FanOut,
       CheckChapters, Concat, WriteFinal, EmptyOutput, Clamp, RecordOutput, MergeFails,
       EpisodeStageFails, EpisodeStep
  <1> QED  BY <1>2, <1>3

\* Before the segments exist: a handler's step.
LEMMA EarlyHandled ==
  ASSUME IInv, OneSeed, Untranscribed, SkipNeedsFailure, ~transcribed', ~transcribed,
         NEW w \in Worker, HandleChapter(w) \/ HandleEpisode(w)
  PROVE  Untranscribed' /\ SkipNeedsFailure'
  <1>0. /\ WorkersOK /\ QueueOK /\ RowsOK /\ Alone(w) /\ EarlyStep(w)
        /\ OneSeed' /\ (Open' => Open)
    BY OthersStay, EarlySteps, SeedInChapter, SeedInEpisode DEF IInv
  <1>1. /\ task[w].what = "asr" /\ task[w].ch = 1 /\ pc[w] # "idle"
        /\ UNCHANGED <<whole, total, final>>
    BY <1>0 DEF EarlyStep, Untranscribed, StartStage, RequeueBusy, StageFails, MirrorFailure,
       FailEpisode, rowVars, ChapterStage
  <1>2. ASSUME SetStatus(1, "running") \/ SetStatus(1, "failed")
        PROVE  Len(chapter') = 1 /\ chapter'[1].status \in {"running", "failed"}
    BY <1>0, <1>2, StatusAt DEF Untranscribed
  <1> USE DEF Goto, Idle
  <1>3. CASE StartStage(w)
    <2>1. /\ pc[w] = "start" /\ pc'[w] = "asr" /\ task' = task /\ ready' = ready
          /\ SetStatus(1, "running") /\ ~Busy(task[w]) /\ epStatus' = epStatus
      BY <1>0, <1>1, <1>3 DEF StartStage, WorkersOK
    <2>2. \A v \in Worker : pc[v] \notin Leased
      BY <1>1, <2>1 DEF Untranscribed, Busy, Leased
    <2>3. chapter'[1].status = "running" /\ Len(chapter') = 1
      BY <1>0, <2>1, StatusAt DEF Untranscribed
    <2>4. Untranscribed'
      BY <1>0, <1>1, <2>1, <2>2, <2>3 DEF Untranscribed, Alone
    <2>5. \A v \in Worker : pc[v] \notin {"mirror", "fail_ep"} /\ pc'[v] \notin {"mirror", "fail_ep"}
      BY <1>0, <2>1, <2>2 DEF Alone, Leased
    <2>6. Troubled <=> epStatus = "failed"
      BY <2>5 DEF Troubled
    <2>7. Troubled' <=> epStatus = "failed"
      BY <2>1, <2>5 DEF Troubled
    <2>8. \A v \in Worker : pc'[v] = "asr" => pc[v] \notin Leased
      BY <2>2
    <2> QED  BY <1>0, <2>1, <2>2, <2>3, <2>4, <2>6, <2>7 DEF SkipNeedsFailure, Alone, Leased
  <1>4. CASE RequeueBusy(w)
    <2>1. /\ pc[w] = "start" /\ pc'[w] = "idle" /\ ready' = Append(ready, task[w])
          /\ UNCHANGED <<epStatus, chapter>>
      BY <1>0, <1>4 DEF RequeueBusy, WorkersOK, rowVars
    <2>2. \A i \in DOMAIN ready' : (i \in DOMAIN ready /\ ready'[i] = ready[i]) \/ ready'[i] = task[w]
      BY <1>0, <2>1, AppendAt
    <2>3. Untranscribed'
      BY <1>0, <1>1, <2>1, <2>2 DEF Untranscribed, Alone, Leased
    <2>4. Troubled => Troubled'
      BY <1>0, <2>1 DEF Troubled, Alone
    <2> QED  BY <1>0, <2>1, <2>2, <2>3, <2>4 DEF SkipNeedsFailure, Alone
  <1>5. CASE StageFails(w)
    <2>1. /\ pc[w] = "asr" /\ pc'[w] = "mirror" /\ task' = task /\ ready' = ready
          /\ SetStatus(1, "failed") /\ epStatus' = epStatus
      BY <1>0, <1>1, <1>5 DEF StageFails, WorkersOK, Untranscribed, ChapterStage
    <2>2. ~Open'
      <3>1. OnTheWay(w) /\ ~OnTheWay(w)'
        BY <2>1 DEF OnTheWay
      <3>2. \A v \in Worker \ {w} : OnTheWay(v)' <=> OnTheWay(v)
        BY <1>0 DEF Alone, OnTheWay
      <3> HIDE DEF OnTheWay
      <3> QED  BY <2>1, <3>1, <3>2 DEF OneSeed, Open
    <2>3. Untranscribed'
      BY <1>0, <1>1, <1>2, <2>1, <2>2 DEF Untranscribed, Alone, Leased
    <2>4. Troubled'
      BY <2>1 DEF Troubled
    <2> QED  BY <1>0, <2>1, <2>3, <2>4 DEF SkipNeedsFailure, Alone
  <1>6. CASE MirrorFailure(w)
    <2>1. /\ pc[w] = "mirror" /\ ready' = ready /\ UNCHANGED <<epStatus, chapter>>
          /\ \/ epStatus = "failed" /\ pc'[w] = "idle"
             \/ pc'[w] = "fail_ep" /\ task' = task
      BY <1>0, <1>6 DEF MirrorFailure, WorkersOK, rowVars, Untranscribed, Over
    <2>2. Untranscribed'
      BY <1>0, <1>1, <2>1 DEF Untranscribed, Alone, Leased
    <2>3. Troubled => Troubled'
      BY <1>0, <2>1 DEF Troubled, Alone
    <2> QED  BY <1>0, <2>1, <2>2, <2>3 DEF SkipNeedsFailure, Alone
  <1>7. CASE FailEpisode(w)
    <2>1. /\ pc[w] = "fail_ep" /\ ready' = ready /\ UNCHANGED chapter
          /\ epStatus' = "failed" /\ pc'[w] = "idle"
      BY <1>0, <1>7 DEF FailEpisode, WorkersOK, UpdateEpisodeStatus, Allowed, Untranscribed
    <2>2. Untranscribed'
      BY <1>0, <1>1, <2>1 DEF Untranscribed, Alone, Leased
    <2>3. Troubled'
      BY <2>1 DEF Troubled
    <2> QED  BY <1>0, <2>1, <2>2, <2>3 DEF SkipNeedsFailure, Alone
  <1> QED  BY <1>0, <1>3, <1>4, <1>5, <1>6, <1>7 DEF EarlyStep

\* Before the segments exist: a task is popped.
LEMMA EarlyPopped ==
  ASSUME IInv, OneSeed, Untranscribed, SkipNeedsFailure, ~transcribed,
         NEW w \in Worker, Pop(w)
  PROVE  Untranscribed' /\ SkipNeedsFailure'
  <1>0. /\ WorkersOK /\ QueueOK /\ Alone(w) /\ (Open' => Open)
    BY OthersStay, SeedPopped DEF IInv
  <1>1. /\ ready # <<>> /\ ready' = Tail(ready) /\ pc[w] = "idle"
        /\ task'[w] = Head(ready) /\ UNCHANGED rowVars
        /\ pc'[w] = IF Head(ready).ch = 0 THEN Head(ready).what ELSE "start"
    BY <1>0 DEF Pop, Goto, WorkersOK
  <1>2. /\ \A i \in DOMAIN ready' : \E j \in DOMAIN ready : ready'[i] = ready[j]
        /\ Head(ready) = ready[1] /\ 1 \in DOMAIN ready
    BY <1>0, <1>1, TailAt
  <1>3. pc'[w] = "start" /\ task'[w].what = "asr" /\ task'[w].ch = 1
    BY <1>1, <1>2 DEF Untranscribed
  <1>4. Untranscribed'
    BY <1>0, <1>1, <1>2, <1>3 DEF Untranscribed, Alone, Leased, rowVars
  <1>5. Troubled' <=> Troubled
    BY <1>0, <1>1, <1>3 DEF Troubled, Alone, rowVars
  <1> QED  BY <1>0, <1>1, <1>2, <1>3, <1>4, <1>5 DEF SkipNeedsFailure, Alone, rowVars

\* Before the segments exist: a failed transcription is retried.
LEMMA EarlyRetried ==
  ASSUME IInv, OneSeed, Untranscribed, SkipNeedsFailure, ~transcribed,
         NEW c \in DOMAIN chapter, NEW s \in ChapterStage, NEW skip \in BOOLEAN,
         RetryChapter(c, s, skip)
  PROVE  Untranscribed' /\ SkipNeedsFailure'
  <1> DEFINE t == [what |-> s, ch |-> c, skip |-> skip]
  <1>0. /\ QueueOK /\ RowsOK /\ WorkersOK
    BY DEF IInv
  <1>1. c = 1 /\ s = "asr" /\ chapter[1].status = "failed"
    BY <1>0 DEF RetryChapter, Untranscribed, RowsOK
  <1>2. /\ ready' = Append(ready, t) /\ SetStatus(1, "queued")
        /\ UNCHANGED <<epStatus, total, transcribed, whole, final, pc, task>>
    BY <1>1 DEF RetryChapter
  <1>3. t.what = "asr" /\ t.ch = 1
    BY <1>1
  <1> HIDE DEF t
  <1>4. \A i \in DOMAIN ready' : (i \in DOMAIN ready /\ ready'[i] = ready[i]) \/ ready'[i] = t
    BY <1>0, <1>2, AppendAt
  <1>5. chapter'[1].status = "queued" /\ Len(chapter') = 1
    BY <1>0, <1>2, StatusAt DEF Untranscribed
  <1>6. Untranscribed'
    BY <1>2, <1>3, <1>4, <1>5 DEF Untranscribed
  <1>7. Troubled
    BY <1>1 DEF SkipNeedsFailure
  <1> QED  BY <1>2, <1>4, <1>5, <1>6, <1>7 DEF SkipNeedsFailure, Troubled

\* The segments stay once they exist, and only a transcription makes them.
LEMMA TranscriptStays ==
  ASSUME Next
  PROVE  /\ transcribed => transcribed'
         /\ long' = long
         /\ transcribed' = transcribed \/ \E w \in Worker : Transcribe(w)
  <1> DEFINE Stays == long' = long /\ transcribed' = transcribed
  <1>1. ASSUME NEW w \in Worker, Pop(w) PROVE Stays
    BY <1>1 DEF Pop, rowVars
  <1>2. ASSUME NEW w \in Worker, HandleChapter(w), ~Transcribe(w) PROVE Stays
    BY <1>2 DEF HandleChapter, StartStage, RequeueBusy, Park, Dub, MergeChapter, CountChapters,
       EnqueueMerge, CompleteChapter, Shortcut, MarkEpisodeRunning, RefreshJob, Advance,
       StageFails, MirrorFailure, FailEpisode, rowVars
  <1>3. ASSUME NEW w \in Worker, HandleEpisode(w) PROVE Stays
    BY <1>3 DEF HandleEpisode, ExtractGlossary, EnqueueChapterize, LoadEpisode, DecideCuts,
       ResumeChapter1, NarrowChapter1, CreateChapterJob, BumpTotal, DispatchEpisode, FanOut,
       CheckChapters, Concat, WriteFinal, EmptyOutput, Clamp, RecordOutput, MergeFails,
       EpisodeStageFails, rowVars
  <1>4. ASSUME NEW w \in Worker, Transcribe(w) PROVE long' = long /\ transcribed'
    BY <1>4 DEF Transcribe
  <1>5. ASSUME NEW c \in DOMAIN chapter, NEW s \in ChapterStage, NEW skip \in BOOLEAN,
               RetryChapter(c, s, skip)
        PROVE  Stays
    BY <1>5 DEF RetryChapter
  <1> QED  BY <1>1, <1>2, <1>3, <1>4, <1>5 DEF Next

\* A worker or a task of transcription.
Transcribing(w) == pc[w] = "asr" \/ (pc[w] = "start" /\ task[w].what = "asr")

LEMMA OnceKept ==
  ASSUME QueueOK, TranscribedOnce, transcribed, NEW w \in Worker, Alone(w),
         ~Transcribing(w)',
         ready' = ready \/ \E t : ready' = Append(ready, t) /\ t.what # "asr"
  PROVE  TranscribedOnce'
  <1>1. \A v \in Worker \ {w} : Transcribing(v)' <=> Transcribing(v)
    BY DEF Alone, Transcribing
  <1>2. \A i \in DOMAIN ready' : ready'[i].what # "asr"
    <2>1. CASE ready' = ready
      BY <2>1 DEF TranscribedOnce
    <2>2. ASSUME NEW t, ready' = Append(ready, t), t.what # "asr"
          PROVE  \A i \in DOMAIN ready' : ready'[i].what # "asr"
      BY <2>2, AppendAt DEF TranscribedOnce
    <2> QED  BY <2>1, <2>2
  <1> QED  BY <1>1, <1>2 DEF TranscribedOnce, Transcribing

LEMMA OnceInChapter ==
  ASSUME IInv, OneSeed, TranscribedOnce, NEW w \in Worker, HandleChapter(w), transcribed
  PROVE  TranscribedOnce'
  <1>0. QueueOK /\ WorkersOK /\ Alone(w) /\ Fits(task[w], pc[w])
    BY OthersStay DEF IInv, WorkersOK
  <1> USE DEF Goto, Idle, AfterStage, Transcribing
  <1>1. pc[w] # "asr" /\ (pc[w] = "start" => task[w].what \in {"dub", "merge"})
    BY <1>0 DEF TranscribedOnce, Fits, OfChapter, ChapterStage
  <1>2. CASE StartStage(w)
    <2>1. ready' = ready /\ pc'[w] \in {"dub", "merge"}
      BY <1>0, <1>1, <1>2 DEF StartStage, WorkersOK
    <2> QED  BY <1>0, <2>1, OnceKept
  <1>3. CASE RequeueBusy(w)
    <2>1. ready' = Append(ready, task[w]) /\ pc'[w] = "idle" /\ task[w].what # "asr"
      BY <1>0, <1>1, <1>3 DEF RequeueBusy, WorkersOK
    <2> QED  BY <1>0, <2>1, OnceKept
  <1>4. CASE EnqueueMerge(w)
    <2>1. /\ ready' = Append(ready, EpisodeTask("ep_merge"))
          /\ pc'[w] \in {"complete", "refresh", "idle"}
      BY <1>0, <1>4 DEF EnqueueMerge, WorkersOK
    <2>2. EpisodeTask("ep_merge").what # "asr"
      BY DEF EpisodeTask
    <2> QED  BY <1>0, <2>1, <2>2, OnceKept
  <1>5. CASE Advance(w)
    <2>1. /\ ready' = Append(ready, ChapterTask(task[w].ch, Following[task[w].what]))
          /\ pc[w] = "advance" /\ pc'[w] = "idle"
      BY <1>0, <1>5 DEF Advance, EnqueueStage, WorkersOK
    <2>2. task[w].what \in {"asr", "dub"}
      BY <1>0, <2>1 DEF Fits, Leased, OfChapter, ChapterStage
    <2>3. ChapterTask(task[w].ch, Following[task[w].what]).what # "asr"
      BY <2>2 DEF ChapterTask, Following
    <2> QED  BY <1>0, <2>1, <2>3, OnceKept
  <1>6. CASE \/ Park(w) \/ Dub(w) \/ MergeChapter(w) \/ CountChapters(w) \/ CompleteChapter(w)
             \/ Shortcut(w) \/ MarkEpisodeRunning(w) \/ RefreshJob(w)
             \/ StageFails(w) \/ MirrorFailure(w) \/ FailEpisode(w)
    <2>1. /\ ready' = ready
          /\ pc'[w] \in {"complete", "refresh", "count", "enqueue", "reenqueue", "idle", "shortcut",
                         "running", "recount", "advance", "mirror", "fail_ep"}
      BY <1>0, <1>6 DEF Park, Dub, MergeChapter, CountChapters, CompleteChapter, Shortcut,
         MarkEpisodeRunning, RefreshJob, StageFails, MirrorFailure, FailEpisode, WorkersOK
    <2> QED  BY <1>0, <2>1, OnceKept
  <1>7. ~Transcribe(w)
    BY <1>1 DEF Transcribe
  <1> QED  BY <1>2, <1>3, <1>4, <1>5, <1>6, <1>7 DEF HandleChapter

LEMMA OnceInEpisode ==
  ASSUME IInv, OneSeed, TranscribedOnce, NEW w \in Worker, HandleEpisode(w), transcribed
  PROVE  TranscribedOnce'
  <1>0. QueueOK /\ WorkersOK /\ Alone(w)
    BY OthersStay DEF IInv
  <1> USE DEF Goto, Idle, Transcribing
  <1>1. CASE EnqueueChapterize(w) \/ ResumeChapter1(w) \/ FanOut(w)
    <2>1. PICK c : \/ ready' = Append(ready, EpisodeTask("chapterize"))
                   \/ ready' = Append(ready, ChapterTask(c, "dub"))
      BY <1>1 DEF EnqueueChapterize, ResumeChapter1, FanOut, EnqueueStage
    <2>2. pc'[w] \in {"idle", "fan"}
      BY <1>0, <1>1 DEF EnqueueChapterize, ResumeChapter1, FanOut, WorkersOK
    <2>3. EpisodeTask("chapterize").what # "asr" /\ ChapterTask(c, "dub").what # "asr"
      BY DEF EpisodeTask, ChapterTask
    <2> QED  BY <1>0, <2>1, <2>2, <2>3, OnceKept
  <1>2. CASE \/ ExtractGlossary(w) \/ LoadEpisode(w) \/ DecideCuts(w)
             \/ NarrowChapter1(w) \/ CreateChapterJob(w) \/ BumpTotal(w) \/ DispatchEpisode(w)
             \/ CheckChapters(w) \/ Concat(w) \/ WriteFinal(w) \/ EmptyOutput(w) \/ Clamp(w)
             \/ RecordOutput(w) \/ MergeFails(w)
             \/ EpisodeStageFails(w)
    <2>1. ready' = ready
      BY <1>2 DEF ExtractGlossary, LoadEpisode, DecideCuts, NarrowChapter1, CreateChapterJob,
         BumpTotal, DispatchEpisode, CheckChapters, Concat, WriteFinal, EmptyOutput, Clamp,
         RecordOutput, MergeFails, EpisodeStageFails
    <2>2. pc'[w] \in {"idle", "enqueue_chapterize", "plan", "slice", "resume", "create", "bump",
                      "dispatch", "fan", "concat", "write", "clamp", "record"}
      BY <1>0, <1>2
         DEF ExtractGlossary, LoadEpisode, DecideCuts, NarrowChapter1, CreateChapterJob, BumpTotal,
             DispatchEpisode, CheckChapters, Concat, WriteFinal, EmptyOutput, Clamp, RecordOutput,
             MergeFails, EpisodeStageFails,
             WorkersOK
    <2> QED  BY <1>0, <2>1, <2>2, OnceKept
  <1> QED  BY <1>1, <1>2 DEF HandleEpisode

LEMMA OnceStep ==
  ASSUME IInv, OneSeed, Untranscribed, TranscribedOnce, Next
  PROVE  TranscribedOnce'
  <1>1. CASE transcribed
    <2>1. ASSUME NEW w \in Worker, Pop(w) PROVE TranscribedOnce'
      <3>1. /\ QueueOK /\ Alone(w) /\ ready # <<>> /\ ready' = Tail(ready) /\ task'[w] = Head(ready)
            /\ pc'[w] = IF Head(ready).ch = 0 THEN Head(ready).what ELSE "start"
        BY <2>1, OthersStay DEF Pop, Goto, IInv, WorkersOK
      <3>2. /\ \A i \in DOMAIN ready' : \E j \in DOMAIN ready : ready'[i] = ready[j]
            /\ Head(ready) = ready[1] /\ 1 \in DOMAIN ready
        BY <3>1, TailAt
      <3>3. Head(ready).what # "asr"
        BY <1>1, <3>2 DEF TranscribedOnce
      <3> QED  BY <1>1, <3>1, <3>2, <3>3 DEF TranscribedOnce, Alone
    <2>2. ASSUME NEW c \in DOMAIN chapter, NEW s \in ChapterStage, NEW skip \in BOOLEAN,
                 RetryChapter(c, s, skip)
          PROVE  TranscribedOnce'
      <3> DEFINE t == [what |-> s, ch |-> c, skip |-> skip]
      <3>1. /\ QueueOK /\ ready' = Append(ready, t) /\ t.what # "asr" /\ pc' = pc /\ task' = task
        BY <1>1, <2>2 DEF RetryChapter, IInv
      <3> HIDE DEF t
      <3>2. \A i \in DOMAIN ready' : (i \in DOMAIN ready /\ ready'[i] = ready[i]) \/ ready'[i] = t
        BY <3>1, AppendAt
      <3> QED  BY <1>1, <3>1, <3>2 DEF TranscribedOnce
    <2> QED  BY <1>1, <2>1, <2>2, OnceInChapter, OnceInEpisode DEF Next
  <1>2. CASE ~transcribed /\ transcribed'
    <2>1. PICK w \in Worker : Transcribe(w)
      BY <1>2, TranscriptStays
    <2>2. /\ Alone(w) /\ QueueOK /\ ready' = Append(ready, EpisodeTask("glossary")) /\ pc[w] = "asr"
          /\ pc'[w] \in {"park", "complete", "refresh"}
      BY <2>1, OthersStay DEF HandleChapter, Transcribe, Goto, AfterStage, IInv, WorkersOK
    <2>3. OnTheWay(w) /\ ~OnTheWay(w)'
      BY <2>2 DEF OnTheWay
    <2>4. /\ \A i \in DOMAIN ready : ~Seed(ready[i])
          /\ \A v \in Worker : ~OnTheWay(v)'
      <3>1. \A v \in Worker \ {w} : OnTheWay(v)' <=> OnTheWay(v)
        BY <2>2 DEF Alone, OnTheWay
      <3> HIDE DEF OnTheWay
      <3> QED  BY <2>3, <3>1 DEF OneSeed
    <2>5. \A i \in DOMAIN ready' : ready'[i].what # "asr"
      BY <2>2, <2>4, AppendAt DEF Seed, EpisodeTask
    <2> QED  BY <2>4, <2>5 DEF TranscribedOnce, OnTheWay
  <1>3. CASE ~transcribed'
    BY <1>3 DEF TranscribedOnce
  <1> QED  BY <1>1, <1>2, <1>3

\* The fan-out creates the chapters after the first, up to the number that was
\* decided; when it starts to enqueue them no other fan-out can come.
FanOutInStep ==
  \A w \in Worker :
    /\ pc[w] \in {"plan", "slice"} => Len(chapter) = 1
    /\ pc[w] = "slice" => seen[w].cuts > 1
    /\ pc[w] = "create" => /\ Len(chapter) = seen[w].next - 1
                           /\ seen[w].next >= 2 /\ seen[w].next <= seen[w].cuts
    /\ pc[w] \in {"bump", "dispatch", "fan"} => Len(chapter) = seen[w].cuts /\ seen[w].cuts > 1
    /\ pc[w] = "fan" => seen[w].next <= seen[w].cuts
    /\ pc[w] \in {"fan", "resume"} => ~Open

\* The places in which FanOutInStep says something of a worker.
Fanning == {"plan", "slice", "create", "bump", "dispatch", "fan", "resume"}

\* When the last token is dropped the fan-out is over.
LEMMA LastSeed ==
  ASSUME OneSeed, NEW w \in Worker, Alone(w), ready' = ready, OnTheWay(w), ~OnTheWay(w)'
  PROVE  ~Open'
  <1>1. \A v \in Worker \ {w} : OnTheWay(v)' <=> OnTheWay(v)
    BY DEF Alone, OnTheWay
  <1> HIDE DEF OnTheWay
  <1> QED  BY <1>1 DEF OneSeed, Open

\* A worker that is not on its way through the fan-out, or has left it.
LEMMA FanningKept ==
  ASSUME FanOutInStep, NEW w \in Worker, Alone(w), pc'[w] \notin Fanning,
         Open' => Open, Len(chapter') = Len(chapter)
  PROVE  FanOutInStep'
  BY DEF FanOutInStep, Alone, Fanning

\* Only one chapter row is made at a time, and nothing else makes one.
LEMMA LenKept ==
  ASSUME IInv, NEW w \in Worker,
         HandleChapter(w) \/ (HandleEpisode(w) /\ ~CreateChapterJob(w))
  PROVE  DOMAIN chapter' = DOMAIN chapter /\ Len(chapter') = Len(chapter)
  <1>0. RowsOK
    BY DEF IInv
  <1>1. CASE HandleChapter(w)
    <2>1. CASE MergeChapter(w)
      <3>1. /\ chapter \in Seq(Row)
            /\ chapter' = [chapter EXCEPT ![task[w].ch] = [chapter[task[w].ch] EXCEPT !.version = @ + 1]]
        BY <1>0, <2>1 DEF MergeChapter, RowsOK
      <3> QED  BY <3>1
    <2>2. CASE \/ StartStage(w) \/ Park(w) \/ CompleteChapter(w) \/ Advance(w) \/ StageFails(w)
      <3>1. PICK c, st : SetStatus(c, st)
        BY <2>2 DEF StartStage, Park, CompleteChapter, Advance, StageFails, EnqueueStage
      <3> QED  BY <1>0, <3>1, StatusAt
    <2>3. CASE \/ RequeueBusy(w) \/ Transcribe(w) \/ Dub(w) \/ CountChapters(w) \/ EnqueueMerge(w)
               \/ Shortcut(w) \/ MarkEpisodeRunning(w) \/ RefreshJob(w) \/ MirrorFailure(w)
               \/ FailEpisode(w)
      BY <2>3 DEF RequeueBusy, Transcribe, Dub, CountChapters, EnqueueMerge, Shortcut,
         MarkEpisodeRunning, RefreshJob, MirrorFailure, FailEpisode, rowVars
    <2> QED  BY <1>1, <2>1, <2>2, <2>3 DEF HandleChapter
  <1>2. CASE HandleEpisode(w) /\ ~CreateChapterJob(w)
    <2>1. CASE ResumeChapter1(w) \/ FanOut(w)
      <3>1. PICK c, st : SetStatus(c, st)
        BY <2>1 DEF ResumeChapter1, FanOut, EnqueueStage
      <3> QED  BY <1>0, <3>1, StatusAt
    <2>2. CASE \/ ExtractGlossary(w) \/ EnqueueChapterize(w) \/ LoadEpisode(w) \/ DecideCuts(w)
               \/ NarrowChapter1(w) \/ BumpTotal(w) \/ DispatchEpisode(w) \/ CheckChapters(w)
               \/ Concat(w) \/ WriteFinal(w) \/ EmptyOutput(w) \/ Clamp(w) \/ RecordOutput(w)
               \/ MergeFails(w) \/ EpisodeStageFails(w)
      BY <2>2 DEF ExtractGlossary, EnqueueChapterize, LoadEpisode, DecideCuts, NarrowChapter1,
         BumpTotal, DispatchEpisode, CheckChapters, Concat, WriteFinal, EmptyOutput, Clamp,
         RecordOutput, MergeFails,
         EpisodeStageFails, rowVars
    <2> QED  BY <1>2, <2>1, <2>2 DEF HandleEpisode
  <1> QED  BY <1>1, <1>2

\* A chapter is added at the end, pending.
LEMMA ChapterAdded ==
  ASSUME RowsOK, NEW w, CreateChapterJob(w)
  PROVE  /\ Len(chapter') = Len(chapter) + 1 /\ Len(chapter) \in Nat \ {0}
         /\ DOMAIN chapter = 1..Len(chapter) /\ DOMAIN chapter' = 1..Len(chapter) + 1
         /\ \A c \in DOMAIN chapter : chapter'[c] = chapter[c]
         /\ chapter'[Len(chapter) + 1] = [status |-> "pending", version |-> 0]
  BY DEF CreateChapterJob, RowsOK

\* The steps of the fan-out.
LEMMA FanOutSteps ==
  ASSUME IInv, OneSeed, FanOutInStep, NEW w \in Worker, HandleEpisode(w)
  PROVE  FanOutInStep'
  <1>0. /\ WorkersOK /\ QueueOK /\ RowsOK /\ Alone(w) /\ (Open' => Open) /\ OneSeed'
        /\ seen[w] \in Reading
    BY OthersStay, SeedInEpisode DEF IInv, WorkersOK
  <1>1. ~CreateChapterJob(w) => Len(chapter') = Len(chapter)
    BY LenKept
  <1>2. OnTheWay(w)' /\ OnTheWay(w) => \A v \in Worker \ {w} : pc[v] \notin Fanning /\ pc'[v] \notin Fanning
    <2>1. OnTheWay(w) => \A v \in Worker \ {w} : ~OnTheWay(v) /\ pc[v] \notin {"fan", "resume"}
      BY DEF OneSeed, FanOutInStep, Open
    <2> QED  BY <1>0, <2>1 DEF Alone, OnTheWay, Fanning
  <1> USE DEF Goto, Idle
  <1>3. CASE LoadEpisode(w)
    <2>1. CASE Len(chapter) > 1 \/ ~transcribed
      BY <1>0, <1>1, <1>3, <2>1, FanningKept DEF LoadEpisode, Fanning, WorkersOK, CreateChapterJob
    <2>2. CASE ~(Len(chapter) > 1 \/ ~transcribed)
      <3>1. pc'[w] = "plan" /\ chapter' = chapter
        BY <1>0, <1>3, <2>2 DEF LoadEpisode, WorkersOK, rowVars
      <3>2. Len(chapter) = 1
        <4>1. ~(Len(chapter) > 1)
          BY <2>2
        <4>2. Len(chapter) \in Nat /\ Len(chapter) >= 1
          BY <1>0, LenProperties DEF RowsOK
        <4>3. \A n \in Nat : n >= 1 /\ ~(n > 1) => n = 1
          OBVIOUS
        <4> QED  BY <4>1, <4>2, <4>3, Zenon
      <3> QED  BY <1>0, <3>1, <3>2 DEF FanOutInStep, Alone
    <2> QED  BY <2>1, <2>2
  <1>4. CASE DecideCuts(w)
    <2>1. /\ pc[w] = "plan" /\ Len(chapter) = 1 /\ chapter' = chapter /\ ready' = ready
          /\ \/ pc'[w] = "slice" /\ seen'[w].cuts > 1
             \/ pc'[w] \in {"resume", "idle"}
      <3>1. PICK n \in Nat :
              IF n > 1
                THEN seen' = [seen EXCEPT ![w].cuts = n] /\ Goto(w, "slice") /\ UNCHANGED task
                ELSE IF seen[w].first = "awaiting_chapterize"
                       THEN Goto(w, "resume") /\ UNCHANGED <<task, seen>>
                       ELSE Idle(w)
        BY <1>0, <1>4, EpisodeAssumption DEF DecideCuts, Reading
      <3>2. n > 1 => seen'[w].cuts = n
        BY <1>0, <3>1 DEF WorkersOK, Reading
      <3> QED  BY <1>0, <1>4, <3>1, <3>2 DEF DecideCuts, FanOutInStep, WorkersOK
    <2>2. pc'[w] = "resume" => ~Open'
      BY <1>0, <2>1, LastSeed DEF OnTheWay
    <2> QED  BY <1>0, <2>1, <2>2 DEF FanOutInStep, Alone
  <1>5. CASE NarrowChapter1(w)
    <2>1. pc[w] = "slice" /\ pc'[w] = "create" /\ chapter' = chapter
          /\ seen'[w].next = 2 /\ seen'[w].cuts = seen[w].cuts
      BY <1>0, <1>5 DEF NarrowChapter1, WorkersOK, Reading
    <2>2. Len(chapter) = 1 /\ seen[w].cuts > 1 /\ seen[w].cuts \in Nat
      BY <1>0, <2>1 DEF FanOutInStep, Reading
    <2> QED  BY <1>0, <2>1, <2>2 DEF FanOutInStep, Alone
  <1>6. CASE CreateChapterJob(w)
    <2>1. /\ pc[w] = "create" /\ pc'[w] \in {"bump", "create"}
          /\ seen'[w].next = seen[w].next + 1 /\ seen'[w].cuts = seen[w].cuts
          /\ pc'[w] = "bump" <=> seen[w].next = seen[w].cuts
      BY <1>0, <1>6 DEF CreateChapterJob, WorkersOK, Reading
    <2>2. /\ seen[w].next \in Nat /\ seen[w].cuts \in Nat
          /\ Len(chapter) = seen[w].next - 1 /\ seen[w].next >= 2 /\ seen[w].next <= seen[w].cuts
      BY <1>0, <2>1 DEF FanOutInStep, Reading
    <2>3. Len(chapter') = seen[w].next
      BY <1>0, <1>6, <2>2, ChapterAdded
    <2>4. \A v \in Worker \ {w} : pc'[v] \notin Fanning
      BY <1>2, <2>1 DEF OnTheWay
    <2>5. /\ pc'[w] = "create" => /\ Len(chapter') = seen'[w].next - 1
                                  /\ seen'[w].next >= 2 /\ seen'[w].next <= seen'[w].cuts
          /\ pc'[w] = "bump" => Len(chapter') = seen'[w].cuts /\ seen'[w].cuts > 1
      BY <2>1, <2>2, <2>3
    <2> QED  BY <2>1, <2>4, <2>5 DEF FanOutInStep, Fanning
  <1>7. CASE BumpTotal(w)
    <2>1. pc[w] = "bump" /\ pc'[w] = "dispatch" /\ chapter' = chapter /\ seen' = seen
      BY <1>0, <1>7 DEF BumpTotal, WorkersOK
    <2> QED  BY <1>0, <2>1 DEF FanOutInStep, Alone
  <1>8. CASE DispatchEpisode(w)
    <2>1. /\ pc[w] = "dispatch" /\ pc'[w] = "fan" /\ chapter' = chapter /\ ready' = ready
          /\ seen'[w].next = 1 /\ seen'[w].cuts = seen[w].cuts
      BY <1>0, <1>8 DEF DispatchEpisode, WorkersOK, Reading
    <2>2. ~Open'
      BY <1>0, <2>1, LastSeed DEF OnTheWay
    <2>3. Len(chapter) = seen[w].cuts /\ seen[w].cuts > 1 /\ seen[w].cuts \in Nat
      BY <1>0, <2>1 DEF FanOutInStep, Reading
    <2> QED  BY <1>0, <2>1, <2>2, <2>3 DEF FanOutInStep, Alone
  <1>9. CASE FanOut(w)
    <2>1. CASE seen[w].next = seen[w].cuts
      BY <1>0, <1>1, <1>9, <2>1, FanningKept DEF FanOut, Fanning, WorkersOK, CreateChapterJob
    <2>2. CASE seen[w].next # seen[w].cuts
      <3>1. /\ pc[w] = "fan" /\ pc'[w] = "fan" /\ Len(chapter') = Len(chapter)
            /\ seen'[w].next = seen[w].next + 1 /\ seen'[w].cuts = seen[w].cuts
        BY <1>0, <1>1, <1>9, <2>2 DEF FanOut, WorkersOK, Reading, CreateChapterJob
      <3>2. /\ Len(chapter) = seen[w].cuts /\ seen[w].cuts > 1 /\ seen[w].cuts \in Nat
            /\ seen[w].next <= seen[w].cuts /\ seen[w].next \in Nat /\ ~Open
        BY <1>0, <3>1 DEF FanOutInStep, Reading
      <3> QED  BY <1>0, <2>2, <3>1, <3>2 DEF FanOutInStep, Alone
    <2> QED  BY <2>1, <2>2
  <1>10. CASE \/ ExtractGlossary(w) \/ EnqueueChapterize(w) \/ ResumeChapter1(w)
              \/ CheckChapters(w) \/ Concat(w) \/ WriteFinal(w) \/ EmptyOutput(w) \/ Clamp(w)
              \/ RecordOutput(w) \/ MergeFails(w)
              \/ EpisodeStageFails(w)
    <2>1. pc'[w] \in {"idle", "enqueue_chapterize", "concat", "write", "clamp", "record"}
      BY <1>0, <1>10 DEF ExtractGlossary, EnqueueChapterize, ResumeChapter1, CheckChapters,
         Concat, WriteFinal, EmptyOutput, Clamp,
         RecordOutput, MergeFails, EpisodeStageFails, WorkersOK
    <2>2. ~CreateChapterJob(w)
      BY <1>0, <2>1 DEF CreateChapterJob, WorkersOK
    <2> QED  BY <1>0, <1>1, <2>1, <2>2, FanningKept DEF Fanning
  <1> QED  BY <1>3, <1>4, <1>5, <1>6, <1>7, <1>8, <1>9, <1>10 DEF HandleEpisode

LEMMA FanOutElsewhere ==
  ASSUME IInv, OneSeed, Untranscribed, FanOutInStep
  PROVE  /\ \A w \in Worker : Pop(w) \/ HandleChapter(w) => FanOutInStep'
         /\ \A c \in DOMAIN chapter, s \in ChapterStage, skip \in BOOLEAN :
              RetryChapter(c, s, skip) => FanOutInStep'
  <1> USE DEF Goto, Idle, AfterStage
  <1>1. ASSUME NEW w \in Worker, Pop(w) PROVE FanOutInStep'
    <2>1. /\ Alone(w) /\ (Open' => Open) /\ Len(chapter') = Len(chapter)
          /\ ready # <<>> /\ pc'[w] \in EpisodeStage \cup {"start"}
      <3>1. Head(ready) \in Ticket
        BY <1>1, HeadTailProperties DEF IInv, QueueOK, Pop
      <3>2. Head(ready).ch = 0 => Head(ready).what \in EpisodeStage
        BY <3>1 DEF Ticket, OfChapter, OfEpisode
      <3> QED  BY <1>1, <3>2, OthersStay, SeedPopped DEF Pop, IInv, WorkersOK, rowVars
    <2> QED  BY <2>1, FanningKept DEF EpisodeStage, Fanning
  <1>2. ASSUME NEW w \in Worker, HandleChapter(w) PROVE FanOutInStep'
    <2>0. WorkersOK /\ Fits(task[w], pc[w])
      BY DEF IInv, WorkersOK
    <2>1. pc'[w] \in Leased \cup {"idle"}
      BY <1>2, <2>0 DEF HandleChapter, StartStage, RequeueBusy, Transcribe, Park, Dub, MergeChapter,
         CountChapters, EnqueueMerge, CompleteChapter, Shortcut, MarkEpisodeRunning, RefreshJob,
         Advance, StageFails, MirrorFailure, FailEpisode, Leased, WorkersOK, Fits, OfChapter,
         ChapterStage
    <2>2. Alone(w) /\ (Open' => Open) /\ Len(chapter') = Len(chapter)
      BY <1>2, OthersStay, SeedInChapter, LenKept
    <2> QED  BY <2>1, <2>2, FanningKept DEF Leased, Fanning
  <1>3. ASSUME NEW c \in DOMAIN chapter, NEW s \in ChapterStage, NEW skip \in BOOLEAN,
               RetryChapter(c, s, skip)
        PROVE  FanOutInStep'
    <2>1. pc' = pc /\ seen' = seen /\ Len(chapter') = Len(chapter) /\ SetStatus(c, "queued")
      BY <1>3, StatusAt DEF RetryChapter, IInv
    <2>2. Open' => Open \/ ~transcribed
      BY <1>3, SeedInRetry
    <2>3. ~transcribed => \A w \in Worker : pc[w] \notin {"fan", "resume"}
      BY DEF Untranscribed
    <2> QED  BY <2>1, <2>2, <2>3 DEF FanOutInStep
  <1> QED  BY <1>1, <1>2, <1>3

-----------------------------------------------------------------------------
(* While the fan-out of a long video may still come. Chapter 1 waits parked, *)
(* or the episode has failed and users repair it; in neither case is the     *)
(* episode merged.                                                           *)

Undecided == long /\ transcribed /\ Open

\* Work on chapter 1, in the queue or in the hands of a worker that may write its row.
Doing(w) == pc[w] \in {"start", "park", "dub", "merge", "count", "complete", "refresh", "advance"}
Run == (\E i \in DOMAIN ready : ready[i].ch = 1) \/ \E w \in Worker : Doing(w)

OneRunner ==
  /\ \A i, j \in DOMAIN ready : ready[i].ch = 1 /\ ready[j].ch = 1 => i = j
  /\ \A v, w \in Worker : Doing(v) /\ Doing(w) => v = w
  /\ \A i \in DOMAIN ready, w \in Worker : ready[i].ch = 1 => ~Doing(w)

\* Users find a chapter at rest only when nobody works on it; it runs when its
\* merge counts the chapters.
Chapter1Kept ==
  /\ OneRunner
  /\ chapter[1].status \in {"failed", "completed"} => ~Run
  /\ \A w \in Worker : pc[w] \in {"merge", "count"} => chapter[1].status = "running"

\* What else a worker may do meanwhile.
Aside == {"idle", "glossary", "enqueue_chapterize", "chapterize", "plan", "slice", "create",
          "bump", "dispatch", "shortcut", "mirror"}

\* No merge of the episode is queued or under way, and none is about to be asked for.
NoMergeYet ==
  /\ \A i \in DOMAIN ready : ready[i].what # "ep_merge" /\ ready[i].ch \in {0, 1}
  /\ \A w \in Worker :
       /\ pc[w] \in Aside \/ Doing(w)
       /\ pc[w] \in {"start"} \cup Leased => task[w].ch = 1
  /\ final = <<>>
  /\ epStatus \in {"pending", "chaptering", "failed"}
  /\ \A c \in DOMAIN chapter : c > 1 => chapter[c].status = "pending"

\* Unless the episode failed chapter 1 is parked, or its worker is about to park
\* it; and when it failed, no fan-out takes it for pending.
ParkedUnlessFailed ==
  /\ epStatus # "failed" =>
       /\ \A i \in DOMAIN ready : ready[i].ch = 0
       /\ \A w \in Worker : /\ pc[w] \notin (Leased \cup {"start"}) \ {"park", "refresh"}
                            /\ pc[w] \in {"park", "refresh"} =>
                                 ~task[w].skip /\ task[w].what = "asr"
                            /\ pc[w] = "refresh" => chapter[1].status = "awaiting_chapterize"
       /\ chapter[1].status \notin {"failed", "completed"}
  /\ epStatus = "failed" => \A w \in Worker : pc[w] = "plan" => seen[w].ep # "pending"

Waits == Chapter1Kept /\ NoMergeYet /\ ParkedUnlessFailed

LEMMA RunnerKept ==
  ASSUME QueueOK, OneRunner, NEW w \in Worker, Alone(w),
         \/ ready' = ready /\ (Doing(w)' => Doing(w))
         \/ \E t : /\ ready' = Append(ready, t)
                   /\ \/ t.ch # 1 /\ (Doing(w)' => Doing(w))
                      \/ Doing(w) /\ ~Doing(w)'
  PROVE  OneRunner' /\ (Run' => Run)
  <1>1. \A v \in Worker \ {w} : Doing(v)' <=> Doing(v)
    BY DEF Alone, Doing
  <1> HIDE DEF Doing
  <1>2. CASE ready' = ready /\ (Doing(w)' => Doing(w))
    BY <1>1, <1>2 DEF OneRunner, Run
  <1>3. ASSUME NEW t, ready' = Append(ready, t),
               \/ t.ch # 1 /\ (Doing(w)' => Doing(w))
               \/ Doing(w) /\ ~Doing(w)'
        PROVE  OneRunner' /\ (Run' => Run)
    <2>1. /\ DOMAIN ready \subseteq DOMAIN ready'
          /\ \A i \in DOMAIN ready : ready'[i] = ready[i]
          /\ \A i \in DOMAIN ready' : i \in DOMAIN ready \/ (i = Len(ready) + 1 /\ ready'[i] = t)
      BY <1>3, AppendAt
    <2>2. CASE t.ch # 1 /\ (Doing(w)' => Doing(w))
      BY <1>1, <2>1, <2>2 DEF OneRunner, Run
    <2>3. CASE Doing(w) /\ ~Doing(w)'
      <3>1. \A i \in DOMAIN ready : ready[i].ch # 1
        BY <2>3 DEF OneRunner
      <3>2. \A v \in Worker : ~Doing(v)'
        BY <1>1, <2>3 DEF OneRunner
      <3>3. \A i \in DOMAIN ready' : ready'[i].ch = 1 => i = Len(ready) + 1
        BY <2>1, <3>1
      <3> QED  BY <2>3, <3>2, <3>3 DEF OneRunner, Run
    <2> QED  BY <1>3, <2>2, <2>3
  <1> QED  BY <1>2, <1>3

LEMMA RunnerPopped ==
  ASSUME IInv, OneRunner, NEW w \in Worker, Pop(w),
         \A i \in DOMAIN ready : ready[i].ch \in {0, 1}
  PROVE  OneRunner' /\ (Run' => Run)
  <1>1. /\ QueueOK /\ ready # <<>> /\ ready' = Tail(ready) /\ pc[w] = "idle" /\ Alone(w)
        /\ task'[w] = Head(ready)
        /\ pc'[w] = IF Head(ready).ch = 0 THEN Head(ready).what ELSE "start"
    BY OthersStay DEF Pop, Goto, IInv, WorkersOK
  <1>2. /\ \A i \in DOMAIN ready' : i + 1 \in DOMAIN ready /\ ready'[i] = ready[i + 1] /\ i \in Nat \ {0}
        /\ Head(ready) = ready[1] /\ 1 \in DOMAIN ready
    BY <1>1, TailAt
  <1>3. Doing(w)' => Head(ready).ch = 1
    <2>1. Head(ready) \in Ticket
      BY <1>1, HeadTailProperties DEF QueueOK
    <2>2. Head(ready).ch = 0 => pc'[w] \in EpisodeStage
      BY <1>1, <2>1 DEF Ticket, OfChapter, OfEpisode
    <2> QED  BY <1>2, <2>2 DEF EpisodeStage, Doing
  <1>4. ~Doing(w)
    BY <1>1 DEF Doing
  <1>5. \A v \in Worker \ {w} : Doing(v)' <=> Doing(v)
    BY <1>1 DEF Alone, Doing
  <1> HIDE DEF Doing
  <1>6. \A i, j \in DOMAIN ready' : ready'[i].ch = 1 /\ ready'[j].ch = 1 => i = j
    <2> SUFFICES ASSUME NEW i \in DOMAIN ready', NEW j \in DOMAIN ready',
                        ready'[i].ch = 1, ready'[j].ch = 1
                 PROVE  i = j
      OBVIOUS
    <2>1. i + 1 = j + 1
      BY <1>2 DEF OneRunner
    <2> QED  BY <1>2, <2>1
  <1>7. \A i \in DOMAIN ready', v \in Worker : ready'[i].ch = 1 => ~Doing(v)'
    <2> SUFFICES ASSUME NEW i \in DOMAIN ready', NEW v \in Worker, ready'[i].ch = 1, Doing(v)'
                 PROVE  FALSE
      OBVIOUS
    <2>1. CASE v # w
      BY <1>2, <1>5, <2>1 DEF OneRunner
    <2>2. CASE v = w
      <3>1. i + 1 = 1
        BY <1>2, <1>3, <2>2 DEF OneRunner
      <3> QED  BY <1>2, <3>1
    <2> QED  BY <2>1, <2>2
  <1>8. \A u, v \in Worker : Doing(u)' /\ Doing(v)' => u = v
    BY <1>2, <1>3, <1>5 DEF OneRunner
  <1>9. Run' => Run
    BY <1>2, <1>3, <1>5 DEF Run
  <1> QED  BY <1>6, <1>7, <1>8, <1>9 DEF OneRunner

\* When the last work on chapter 1 ends nobody works on it.
LEMMA LastRunner ==
  ASSUME OneRunner, NEW w \in Worker, Alone(w), ready' = ready, Doing(w), ~Doing(w)'
  PROVE  ~Run'
  <1>1. \A v \in Worker \ {w} : Doing(v)' <=> Doing(v)
    BY DEF Alone, Doing
  <1> HIDE DEF Doing
  <1> QED  BY <1>1 DEF OneRunner, Run

\* A step on chapter 1 that leaves the queue, the episode row and the video alone,
\* and writes the status of chapter 1 or nothing.
LEMMA WaitsOnRow ==
  ASSUME WorkersOK, QueueOK, RowsOK, Waits, NEW w \in Worker, Alone(w),
         Doing(w), NEW st \in JobStatus, SetStatus(1, st), UNCHANGED <<ready, final, epStatus>>,
         epStatus = "failed" \/ (pc[w] = "park" /\ pc'[w] = "refresh" /\ st = "awaiting_chapterize"),
         \/ Doing(w)' /\ task'[w].ch = 1 /\ st \notin {"failed", "completed"}
         \/ pc'[w] \in {"shortcut", "mirror"} /\ task'[w].ch = 1,
         pc'[w] \in {"merge", "count"} => st = "running",
         task'[w] = task[w]
  PROVE  Waits'
  <1>1. /\ 1 \in DOMAIN chapter /\ DOMAIN chapter' = DOMAIN chapter
        /\ chapter'[1].status = st
        /\ \A d \in DOMAIN chapter : d # 1 => chapter'[d] = chapter[d]
    BY StatusAt
  <1>2. OneRunner' /\ (Run' => Run)
    BY RunnerKept DEF Waits, Chapter1Kept
  <1>3. \A v \in Worker \ {w} : ~Doing(v) /\ ~Doing(v)'
    <2>1. \A v \in Worker \ {w} : Doing(v)' <=> Doing(v)
      BY DEF Alone, Doing
    <2> HIDE DEF Doing
    <2> QED  BY <2>1 DEF Waits, Chapter1Kept, OneRunner
  <1>4. st \in {"failed", "completed"} => ~Run'
    <2>1. st \in {"failed", "completed"} => ~Doing(w)'
      BY DEF Doing
    <2> QED  BY <2>1, LastRunner DEF Waits, Chapter1Kept
  <1>5. \A v \in Worker : pc'[v] \in {"merge", "count"} => st = "running"
    BY <1>3 DEF Doing
  <1>6. Chapter1Kept'
    BY <1>1, <1>2, <1>4, <1>5 DEF Chapter1Kept
  <1>7. NoMergeYet'
    <2>1. \A v \in Worker : pc'[v] \in Aside \/ Doing(v)'
      BY <1>3 DEF Alone, Waits, NoMergeYet, Aside
    <2>2. \A v \in Worker : pc'[v] \in {"start"} \cup Leased => task'[v].ch = 1
      BY DEF Alone, Waits, NoMergeYet
    <2>3. \A c \in DOMAIN chapter' : c > 1 => chapter'[c].status = "pending"
      BY <1>1 DEF Waits, NoMergeYet
    <2> QED  BY <2>1, <2>2, <2>3 DEF Waits, NoMergeYet
  <1>8. ParkedUnlessFailed'
    <2>1. CASE epStatus = "failed"
      <3>1. pc'[w] # "plan"
        BY DEF Doing
      <3> QED  BY <2>1, <3>1 DEF Waits, ParkedUnlessFailed, Alone
    <2>2. CASE epStatus # "failed"
      <3>1. pc[w] = "park" /\ pc'[w] = "refresh" /\ st = "awaiting_chapterize"
        BY <2>2
      <3>2. \A v \in Worker \ {w} : pc'[v] = pc[v] /\ task'[v] = task[v] /\ pc[v] \notin {"park", "refresh"}
        BY <1>3 DEF Alone, Doing
      <3> QED  BY <1>1, <2>2, <3>1, <3>2 DEF Waits, ParkedUnlessFailed
    <2> QED  BY <2>1, <2>2
  <1> QED  BY <1>6, <1>7, <1>8 DEF Waits

\* A step of a worker that does not work on chapter 1 afterwards, and asks for no
\* stage of a chapter and no merge.
LEMMA WaitsAside ==
  ASSUME QueueOK, RowsOK, Waits, NEW w \in Worker, Alone(w),
         pc'[w] \in Aside \ {"shortcut", "mirror"}, final' = final,
         ready' = ready \/ \E t : ready' = Append(ready, t) /\ t.ch = 0 /\ t.what # "ep_merge",
         epStatus' = epStatus \/ (epStatus # "failed" /\ epStatus' \in {"pending", "chaptering"}),
         pc'[w] = "plan" /\ epStatus' = "failed" => seen'[w].ep # "pending",
         1 \in DOMAIN chapter', chapter'[1].status = chapter[1].status,
         \A c \in DOMAIN chapter' : c > 1 => chapter'[c].status = "pending"
  PROVE  Waits'
  <1>1. ~Doing(w)' /\ pc'[w] \notin {"start"} \cup Leased
    BY DEF Aside, Doing, Leased
  <1>2. OneRunner' /\ (Run' => Run)
    BY <1>1, RunnerKept DEF Waits, Chapter1Kept
  <1>3. Chapter1Kept'
    <2>1. \A v \in Worker : pc'[v] \in {"merge", "count"} => pc[v] \in {"merge", "count"}
      BY <1>1 DEF Alone, Leased
    <2> QED  BY <1>2, <2>1 DEF Waits, Chapter1Kept
  <1>4. \A i \in DOMAIN ready' : \/ i \in DOMAIN ready /\ ready'[i] = ready[i]
                                 \/ ready'[i].ch = 0 /\ ready'[i].what # "ep_merge"
    <2>1. ASSUME NEW t, ready' = Append(ready, t), t.ch = 0, t.what # "ep_merge"
          PROVE  \A i \in DOMAIN ready' : \/ i \in DOMAIN ready /\ ready'[i] = ready[i]
                                          \/ ready'[i].ch = 0 /\ ready'[i].what # "ep_merge"
      BY <2>1, AppendAt
    <2> QED  BY <2>1
  <1>5. NoMergeYet'
    <2>1. \A v \in Worker : pc'[v] \in Aside \/ Doing(v)'
      BY DEF Alone, Waits, NoMergeYet, Doing
    <2>2. \A v \in Worker : pc'[v] \in {"start"} \cup Leased => task'[v].ch = 1
      BY <1>1 DEF Alone, Waits, NoMergeYet
    <2> QED  BY <1>4, <2>1, <2>2 DEF Waits, NoMergeYet
  <1>6. ParkedUnlessFailed'
    <2>1. CASE epStatus' # "failed"
      <3>1. epStatus # "failed"
        BY <2>1
      <3>2. \A i \in DOMAIN ready' : ready'[i].ch = 0
        BY <1>4, <3>1 DEF Waits, ParkedUnlessFailed
      <3>3. \A v \in Worker : pc'[v] \in {"start"} \cup Leased => pc'[v] = pc[v] /\ task'[v] = task[v]
        BY <1>1 DEF Alone
      <3> QED  BY <2>1, <3>1, <3>2, <3>3 DEF Waits, ParkedUnlessFailed, Leased
    <2>2. CASE epStatus' = "failed"
      <3>1. epStatus = "failed"
        BY <2>2
      <3> QED  BY <2>2, <3>1 DEF Waits, ParkedUnlessFailed, Alone
    <2> QED  BY <2>1, <2>2
  <1> QED  BY <1>3, <1>5, <1>6 DEF Waits

\* A step on chapter 1 that leaves its row and the queue alone.
LEMMA WaitsOn ==
  ASSUME QueueOK, RowsOK, Waits, NEW w \in Worker, Alone(w),
         Doing(w), Doing(w)', task'[w] = task[w], UNCHANGED <<ready, final, epStatus>>,
         epStatus = "failed", DOMAIN chapter' = DOMAIN chapter,
         \A c \in DOMAIN chapter : chapter'[c].status = chapter[c].status,
         pc'[w] \in {"merge", "count"} => pc[w] \in {"merge", "count"}
  PROVE  Waits'
  <1>0. 1 \in DOMAIN chapter
    BY DEF RowsOK
  <1>1. OneRunner' /\ (Run' => Run)
    BY RunnerKept DEF Waits, Chapter1Kept
  <1>2. Chapter1Kept'
    BY <1>0, <1>1 DEF Waits, Chapter1Kept, Alone
  <1>3. NoMergeYet'
    <2>1. pc[w] \in {"start"} \cup Leased /\ pc'[w] \in {"start"} \cup Leased
      BY DEF Doing, Leased
    <2>2. \A v \in Worker : pc'[v] \in Aside \/ Doing(v)'
      BY DEF Alone, Waits, NoMergeYet, Doing
    <2> QED  BY <2>1, <2>2 DEF Waits, NoMergeYet, Alone
  <1>4. ParkedUnlessFailed'
    <2>1. pc'[w] # "plan"
      BY DEF Doing
    <2> QED  BY <2>1 DEF Waits, ParkedUnlessFailed, Alone
  <1> QED  BY <1>2, <1>3, <1>4 DEF Waits

\* A step that pushes a stage of chapter 1, when nobody works on it then.
LEMMA WaitsPush ==
  ASSUME QueueOK, RowsOK, Waits, OneRunner', NEW t, ready' = Append(ready, t), t.ch = 1,
         t.what # "ep_merge", UNCHANGED <<final, epStatus>>, epStatus = "failed",
         DOMAIN chapter' = DOMAIN chapter,
         \A c \in DOMAIN chapter : c > 1 => chapter'[c] = chapter[c],
         chapter'[1].status \notin {"failed", "completed"},
         \A v \in Worker :
            pc'[v] = "idle" \/ (pc'[v] = pc[v] /\ task'[v] = task[v] /\ seen'[v] = seen[v] /\ ~Doing(v))
  PROVE  Waits'
  <1>1. Chapter1Kept'
    <2>1. \A v \in Worker : pc'[v] \notin {"merge", "count"}
      BY DEF Doing
    <2> QED  BY <2>1 DEF Chapter1Kept
  <1>2. \A i \in DOMAIN ready' : (i \in DOMAIN ready /\ ready'[i] = ready[i]) \/ ready'[i] = t
    BY AppendAt
  <1>3. NoMergeYet'
    <2>1. \A v \in Worker : pc'[v] \in Aside \/ Doing(v)'
      BY DEF Waits, NoMergeYet, Doing, Aside
    <2>2. \A v \in Worker : pc'[v] \in {"start"} \cup Leased => task'[v].ch = 1
      BY DEF Waits, NoMergeYet, Leased
    <2> QED  BY <1>2, <2>1, <2>2 DEF Waits, NoMergeYet
  <1>4. ParkedUnlessFailed'
    BY DEF Waits, ParkedUnlessFailed
  <1> QED  BY <1>1, <1>3, <1>4 DEF Waits

\* A task is popped.
LEMMA WaitsPopped ==
  ASSUME IInv, Waits, TranscribedOnce, transcribed, NEW w \in Worker, Pop(w)
  PROVE  Waits'
  <1>1. /\ QueueOK /\ ready # <<>> /\ ready' = Tail(ready) /\ pc[w] = "idle" /\ Alone(w)
        /\ task'[w] = Head(ready) /\ UNCHANGED rowVars
        /\ pc'[w] = IF Head(ready).ch = 0 THEN Head(ready).what ELSE "start"
    BY OthersStay DEF Pop, Goto, IInv, WorkersOK
  <1>2. /\ \A i \in DOMAIN ready' : \E j \in DOMAIN ready : ready'[i] = ready[j]
        /\ Head(ready) = ready[1] /\ 1 \in DOMAIN ready
    BY <1>1, TailAt
  <1>3. /\ Head(ready).what # "ep_merge" /\ Head(ready).ch \in {0, 1}
        /\ epStatus # "failed" => Head(ready).ch = 0
    BY <1>2 DEF Waits, NoMergeYet, ParkedUnlessFailed
  <1>4. \/ pc'[w] \in {"glossary", "chapterize"}
        \/ pc'[w] = "start" /\ task'[w].ch = 1 /\ epStatus = "failed"
    <2>1. Head(ready) \in Ticket
      BY <1>1, HeadTailProperties DEF QueueOK
    <2>2. Head(ready).ch = 0 => Head(ready).what \in EpisodeStage
      BY <1>1, <2>1 DEF Ticket, OfChapter, OfEpisode
    <2> QED  BY <1>1, <1>3, <2>2 DEF EpisodeStage
  <1>5. OneRunner' /\ (Run' => Run)
    BY RunnerPopped DEF Waits, Chapter1Kept, NoMergeYet
  <1>6. Chapter1Kept'
    BY <1>1, <1>4, <1>5 DEF Waits, Chapter1Kept, Alone, rowVars
  <1>7. NoMergeYet'
    <2>1. \A v \in Worker : pc'[v] \in Aside \/ Doing(v)'
      BY <1>1, <1>4 DEF Alone, Waits, NoMergeYet, Doing, Aside
    <2>2. \A v \in Worker : pc'[v] \in {"start"} \cup Leased => task'[v].ch = 1
      BY <1>1, <1>4 DEF Alone, Waits, NoMergeYet, Leased
    <2> QED  BY <1>1, <1>2, <2>1, <2>2 DEF Waits, NoMergeYet, rowVars
  <1>8. ParkedUnlessFailed'
    BY <1>1, <1>2, <1>4 DEF Waits, ParkedUnlessFailed, Alone, Leased, rowVars
  <1> QED  BY <1>6, <1>7, <1>8 DEF Waits

\* The handlers of the chapter stages.
LEMMA WaitsInChapter ==
  ASSUME IInv, TranscribedOnce, transcribed, Waits, NEW w \in Worker, HandleChapter(w)
  PROVE  Waits'
  <1>0. /\ QueueOK /\ WorkersOK /\ RowsOK /\ Alone(w) /\ Fits(task[w], pc[w])
        /\ 1 \in DOMAIN chapter /\ chapter \in Seq(Row)
    BY OthersStay DEF IInv, WorkersOK, RowsOK
  <1>1. /\ pc[w] \in Aside \/ Doing(w)
        /\ pc[w] \in {"start"} \cup Leased => task[w].ch = 1
        /\ epStatus # "failed" => pc[w] \notin (Leased \cup {"start"}) \ {"park", "refresh"}
        /\ pc[w] \in {"merge", "count"} => chapter[1].status = "running"
    BY DEF Waits, NoMergeYet, ParkedUnlessFailed, Chapter1Kept
  <1> USE DEF Goto, Idle
  <1>2. CASE StartStage(w)
    <2>1. task[w].what \in {"dub", "merge"}
      BY <1>0, <1>2 DEF StartStage, TranscribedOnce, Fits, OfChapter, ChapterStage
    <2>2. /\ pc[w] = "start" /\ pc'[w] \in {"dub", "merge"} /\ task' = task
          /\ SetStatus(1, "running") /\ UNCHANGED <<ready, final, epStatus>>
      BY <1>0, <1>1, <1>2, <2>1 DEF StartStage, WorkersOK
    <2>3. epStatus = "failed" /\ "running" \in JobStatus /\ Doing(w) /\ Doing(w)' /\ task'[w].ch = 1
      BY <1>1, <2>2 DEF JobStatus, Doing
    <2> QED  BY <1>0, <2>2, <2>3, WaitsOnRow
  <1>3. CASE RequeueBusy(w)
    <2>1. /\ pc[w] = "start" /\ pc'[w] = "idle" /\ ready' = Append(ready, task[w])
          /\ UNCHANGED <<epStatus, chapter, final>>
      BY <1>0, <1>3 DEF RequeueBusy, WorkersOK, rowVars
    <2>2. task[w].ch = 1 /\ task[w].what # "ep_merge" /\ epStatus = "failed"
      BY <1>0, <1>1, <2>1 DEF Fits, OfChapter, ChapterStage
    <2>3. Doing(w) /\ ~Doing(w)'
      BY <2>1 DEF Doing
    <2>4. OneRunner'
      BY <1>0, <2>1, <2>3, RunnerKept DEF Waits, Chapter1Kept
    <2>5. \A v \in Worker \ {w} : ~Doing(v)
      BY <2>3 DEF Waits, Chapter1Kept, OneRunner
    <2>6. chapter'[1].status \notin {"failed", "completed"}
      BY <2>1, <2>3 DEF Waits, Chapter1Kept, Run
    <2> QED  BY <1>0, <2>1, <2>2, <2>4, <2>5, <2>6, WaitsPush DEF Alone
  <1>4. CASE Park(w)
    <2>1. /\ pc[w] = "park" /\ task' = task /\ SetStatus(1, "awaiting_chapterize")
          /\ UNCHANGED <<ready, final, epStatus>>
          /\ pc'[w] = IF task[w].what = "merge" \/ task[w].skip THEN "complete" ELSE "refresh"
      BY <1>0, <1>1, <1>4 DEF Park, AfterStage, WorkersOK, Leased
    <2>2. epStatus # "failed" => pc'[w] = "refresh"
      BY <2>1 DEF Waits, ParkedUnlessFailed
    <2>3. Doing(w) /\ Doing(w)' /\ task'[w].ch = 1 /\ "awaiting_chapterize" \in JobStatus
      BY <1>1, <2>1 DEF Doing, Leased, JobStatus
    <2> QED  BY <1>0, <2>1, <2>2, <2>3, WaitsOnRow
  <1>5. CASE Dub(w)
    <2>1. /\ pc[w] = "dub" /\ pc'[w] \in {"complete", "refresh"} /\ task' = task
          /\ UNCHANGED <<ready, final, epStatus, chapter>>
      BY <1>0, <1>5 DEF Dub, AfterStage, WorkersOK, rowVars
    <2>2. Doing(w) /\ Doing(w)' /\ epStatus = "failed"
      BY <1>1, <2>1 DEF Doing, Leased
    <2> QED  BY <1>0, <2>1, <2>2, WaitsOn
  <1>6. CASE MergeChapter(w)
    <2>1. /\ pc[w] = "merge" /\ pc'[w] = "count" /\ task' = task
          /\ UNCHANGED <<ready, final, epStatus>>
          /\ chapter' = [chapter EXCEPT ![1] = [chapter[1] EXCEPT !.version = @ + 1]]
      BY <1>0, <1>1, <1>6 DEF MergeChapter, WorkersOK, Leased
    <2>2. Doing(w) /\ Doing(w)' /\ epStatus = "failed"
      BY <1>1, <2>1 DEF Doing, Leased
    <2>3. DOMAIN chapter' = DOMAIN chapter
      BY <1>6, LenKept
    <2>4. \A c \in DOMAIN chapter : chapter'[c].status = chapter[c].status
      <3>1. \A c \in DOMAIN chapter : chapter[c] \in Row
        BY <1>0
      <3>2. \A c \in DOMAIN chapter : c # 1 => chapter'[c] = chapter[c]
        BY <1>0, <2>1
      <3>3. chapter'[1] = [chapter[1] EXCEPT !.version = @ + 1]
        BY <1>0, <2>1
      <3>4. chapter'[1].status = chapter[1].status
        BY <1>0, <3>1, <3>3 DEF Row
      <3> QED  BY <3>2, <3>4
    <2> QED  BY <1>0, <2>1, <2>2, <2>3, <2>4, WaitsOn
  <1>7. CASE CountChapters(w)
    <2>1. pc[w] = "count"
      BY <1>1, <1>7 DEF CountChapters, Aside, Doing
    <2>2. ~AllCompleted
      BY <1>0, <1>1, <2>1 DEF AllCompleted
    <2>3. /\ pc'[w] \in {"complete", "refresh"} /\ task' = task
          /\ UNCHANGED <<ready, final, epStatus, chapter>>
      BY <1>0, <1>7, <2>1, <2>2 DEF CountChapters, AfterStage, WorkersOK, rowVars
    <2>4. Doing(w) /\ Doing(w)' /\ epStatus = "failed"
      BY <1>1, <2>1, <2>3 DEF Doing, Leased
    <2> QED  BY <1>0, <2>3, <2>4, WaitsOn
  <1>8. CASE CompleteChapter(w)
    <2>1. /\ pc[w] = "complete" /\ pc'[w] = "shortcut" /\ task' = task
          /\ SetStatus(1, "completed") /\ UNCHANGED <<ready, final, epStatus>>
      BY <1>0, <1>1, <1>8 DEF CompleteChapter, WorkersOK, Leased
    <2>2. Doing(w) /\ epStatus = "failed" /\ task'[w].ch = 1 /\ "completed" \in JobStatus
      BY <1>1, <2>1 DEF Doing, Leased, JobStatus
    <2> QED  BY <1>0, <2>1, <2>2, WaitsOnRow
  <1>9. CASE Shortcut(w) \/ MirrorFailure(w)
    <2>1. epStatus = "failed"
      BY <1>1, <1>9 DEF Shortcut, MirrorFailure, Leased
    <2>2. pc'[w] = "idle" /\ UNCHANGED <<ready, final, epStatus, chapter>>
      BY <1>0, <1>9, <2>1 DEF Shortcut, MirrorFailure, Over, WorkersOK, rowVars
    <2>3. \A c \in DOMAIN chapter' : c > 1 => chapter'[c].status = "pending"
      BY <2>2 DEF Waits, NoMergeYet
    <2> QED  BY <1>0, <2>2, <2>3, WaitsAside DEF Aside
  <1>10. CASE RefreshJob(w)
    <2>1. CASE chapter[1].status \in ParkedStatus
      <3>1. pc'[w] = "idle" /\ UNCHANGED <<ready, final, epStatus, chapter>>
        BY <1>0, <1>1, <1>10, <2>1 DEF RefreshJob, Leased, WorkersOK, rowVars
      <3>2. \A c \in DOMAIN chapter' : c > 1 => chapter'[c].status = "pending"
        BY <3>1 DEF Waits, NoMergeYet
      <3> QED  BY <1>0, <3>1, <3>2, WaitsAside DEF Aside
    <2>2. CASE chapter[1].status \notin ParkedStatus
      <3>1. /\ pc[w] = "refresh" /\ pc'[w] = "advance" /\ task' = task
            /\ UNCHANGED <<ready, final, epStatus, chapter>>
        BY <1>0, <1>1, <1>10, <2>2 DEF RefreshJob, Leased, WorkersOK, rowVars
      <3>2. epStatus = "failed"
        BY <2>2, <3>1 DEF Waits, ParkedUnlessFailed, ParkedStatus
      <3>3. Doing(w) /\ Doing(w)'
        BY <3>1 DEF Doing
      <3> QED  BY <1>0, <3>1, <3>2, <3>3, WaitsOn
    <2> QED  BY <2>1, <2>2
  <1>11. CASE Advance(w)
    <2> DEFINE t == ChapterTask(1, Following[task[w].what])
    <2>1. /\ pc[w] = "advance" /\ pc'[w] = "idle" /\ ready' = Append(ready, t)
          /\ SetStatus(1, "queued") /\ UNCHANGED <<epStatus, final>>
      BY <1>0, <1>1, <1>11 DEF Advance, EnqueueStage, Leased, WorkersOK
    <2>2. t.ch = 1 /\ t.what # "ep_merge" /\ epStatus = "failed"
      <3>1. task[w].what \in {"asr", "dub"}
        BY <1>0, <2>1 DEF Fits, Leased, OfChapter, ChapterStage
      <3> QED  BY <1>1, <2>1, <3>1 DEF ChapterTask, Following, Leased
    <2> HIDE DEF t
    <2>3. Doing(w) /\ ~Doing(w)'
      BY <2>1 DEF Doing
    <2>4. OneRunner'
      BY <1>0, <2>1, <2>3, RunnerKept DEF Waits, Chapter1Kept
    <2>5. \A v \in Worker \ {w} : ~Doing(v)
      BY <2>3 DEF Waits, Chapter1Kept, OneRunner
    <2>6. /\ DOMAIN chapter' = DOMAIN chapter /\ chapter'[1].status = "queued"
          /\ \A c \in DOMAIN chapter : c # 1 => chapter'[c] = chapter[c]
      BY <1>0, <2>1, StatusAt
    <2> QED  BY <1>0, <2>1, <2>2, <2>4, <2>5, <2>6, WaitsPush DEF Alone
  <1>12. CASE StageFails(w)
    <2>1. /\ pc[w] \in {"dub", "merge"} /\ pc'[w] = "mirror" /\ task' = task
          /\ SetStatus(1, "failed") /\ UNCHANGED <<ready, final, epStatus>>
      BY <1>0, <1>1, <1>12 DEF StageFails, ChapterStage, TranscribedOnce, WorkersOK, Leased
    <2>2. Doing(w) /\ epStatus = "failed" /\ task'[w].ch = 1 /\ "failed" \in JobStatus
      BY <1>1, <2>1 DEF Doing, Leased, JobStatus
    <2> QED  BY <1>0, <2>1, <2>2, WaitsOnRow
  <1>13. ~Transcribe(w) /\ ~EnqueueMerge(w) /\ ~MarkEpisodeRunning(w) /\ ~FailEpisode(w)
    BY <1>1 DEF Transcribe, EnqueueMerge, MarkEpisodeRunning, FailEpisode, Aside, Doing
  <1> QED  BY <1>2, <1>3, <1>4, <1>5, <1>6, <1>7, <1>8, <1>9, <1>10, <1>11, <1>12, <1>13
              DEF HandleChapter

\* The handlers of the episode tasks, while a fan-out may still come.
LEMMA WaitsInEpisode ==
  ASSUME IInv, OneSeed, transcribed, Waits, NEW w \in Worker, HandleEpisode(w), Open'
  PROVE  Waits'
  <1>0. /\ QueueOK /\ WorkersOK /\ RowsOK /\ Alone(w) /\ seen[w] \in Reading
        /\ 1 \in DOMAIN chapter /\ chapter \in Seq(Row)
    BY OthersStay DEF IInv, WorkersOK, RowsOK
  <1>1. /\ pc[w] \in Aside \/ Doing(w)
        /\ \A c \in DOMAIN chapter : c > 1 => chapter[c].status = "pending"
        /\ epStatus \in {"pending", "chaptering", "failed"}
    BY DEF Waits, NoMergeYet
  <1>2. ~OnTheWay(w)' /\ ready' = ready => ~OnTheWay(w)
    BY <1>0, LastSeed
  <1> USE DEF Goto, Idle
  <1>3. CASE ExtractGlossary(w) \/ LoadEpisode(w)
    <2>1. /\ pc'[w] \in {"idle", "enqueue_chapterize", "plan"}
          /\ pc'[w] = "plan" => seen'[w].ep = epStatus
          /\ UNCHANGED <<ready, final, epStatus, chapter>>
      <3>1. CASE ExtractGlossary(w)
        BY <1>0, <3>1 DEF ExtractGlossary, WorkersOK
      <3>2. CASE LoadEpisode(w)
        <4>1. CASE Len(chapter) > 1
          BY <1>0, <3>2, <4>1 DEF LoadEpisode, WorkersOK, rowVars
        <4>2. CASE ~(Len(chapter) > 1)
          <5> DEFINE note == [seen[w] EXCEPT !.ep = epStatus, !.first = chapter[1].status, !.plan = plan]
          <5>1. seen' = [seen EXCEPT ![w] = note] /\ Goto(w, "plan") /\ UNCHANGED rowVars /\ UNCHANGED ready
            BY <3>2, <4>2 DEF LoadEpisode
          <5>2. note.ep = epStatus
            BY <1>0 DEF Reading
          <5> HIDE DEF note
          <5> QED  BY <1>0, <5>1, <5>2 DEF WorkersOK, rowVars
        <4> QED  BY <4>1, <4>2
      <3> QED  BY <1>3, <3>1, <3>2
    <2> QED  BY <1>0, <1>1, <2>1, WaitsAside DEF Aside
  <1>4. CASE EnqueueChapterize(w)
    <2>1. /\ ready' = Append(ready, EpisodeTask("chapterize"))
          /\ pc'[w] = "idle" /\ UNCHANGED <<final, epStatus, chapter>>
      BY <1>0, <1>4 DEF EnqueueChapterize, WorkersOK, rowVars
    <2>2. EpisodeTask("chapterize").ch = 0 /\ EpisodeTask("chapterize").what # "ep_merge"
      BY DEF EpisodeTask
    <2> QED  BY <1>0, <1>1, <2>1, <2>2, WaitsAside DEF Aside
  <1>5. CASE DecideCuts(w)
    <2>1. /\ pc[w] = "plan" /\ pc'[w] \in {"slice", "idle", "resume"}
          /\ UNCHANGED <<ready, final, chapter>>
      BY <1>0, <1>5 DEF DecideCuts, WorkersOK
    <2>2. pc'[w] # "resume"
      BY <1>2, <2>1 DEF OnTheWay
    <2>3. epStatus = "failed" => seen[w].ep # "pending"
      BY <2>1 DEF Waits, ParkedUnlessFailed
    <2>4. epStatus' = epStatus \/ (epStatus # "failed" /\ epStatus' \in {"pending", "chaptering"})
      BY <1>1, <1>5, <2>3 DEF DecideCuts, UpdateEpisodeStatus, Allowed
    <2> QED  BY <1>0, <1>1, <2>1, <2>2, <2>4, WaitsAside DEF Aside
  <1>6. CASE NarrowChapter1(w) \/ BumpTotal(w)
    <2>1. pc'[w] \in {"create", "dispatch"} /\ UNCHANGED <<ready, final, epStatus, chapter>>
      BY <1>0, <1>6 DEF NarrowChapter1, BumpTotal, WorkersOK
    <2> QED  BY <1>0, <1>1, <2>1, WaitsAside DEF Aside
  <1>7. CASE CreateChapterJob(w)
    <2>1. pc'[w] \in {"create", "bump"} /\ UNCHANGED <<ready, final, epStatus>>
      BY <1>0, <1>7 DEF CreateChapterJob, WorkersOK
    <2>2. /\ 1 \in DOMAIN chapter' /\ chapter'[1].status = chapter[1].status
          /\ \A c \in DOMAIN chapter' : c > 1 => chapter'[c].status = "pending"
      <3>1. /\ DOMAIN chapter = 1..Len(chapter) /\ DOMAIN chapter' = 1..Len(chapter) + 1
            /\ Len(chapter) \in Nat \ {0}
            /\ \A c \in DOMAIN chapter : chapter'[c] = chapter[c]
            /\ chapter'[Len(chapter) + 1].status = "pending"
        BY <1>0, <1>7, ChapterAdded
      <3>2. \A c \in DOMAIN chapter' : c \in DOMAIN chapter \/ c = Len(chapter) + 1
        BY <3>1
      <3> QED  BY <1>0, <1>1, <3>1, <3>2
    <2> QED  BY <1>0, <2>1, <2>2, WaitsAside DEF Aside
  <1>8. ~DispatchEpisode(w)
    <2>1. DispatchEpisode(w) => OnTheWay(w) /\ ~OnTheWay(w)' /\ ready' = ready
      BY <1>0 DEF DispatchEpisode, OnTheWay, WorkersOK
    <2> QED  BY <1>2, <2>1
  <1>9. ~EpisodeStageFails(w)
    <2>1. EpisodeStageFails(w) => OnTheWay(w) /\ ~OnTheWay(w)' /\ ready' = ready
      BY <1>0, <1>1 DEF EpisodeStageFails, OnTheWay, WorkersOK, Aside, Doing, EpisodeStep
    <2> QED  BY <1>2, <2>1
  <1>10. /\ ~ResumeChapter1(w) /\ ~FanOut(w) /\ ~CheckChapters(w) /\ ~Concat(w)
         /\ ~WriteFinal(w) /\ ~EmptyOutput(w) /\ ~Clamp(w)
         /\ ~RecordOutput(w) /\ ~MergeFails(w)
    BY <1>1 DEF ResumeChapter1, FanOut, CheckChapters, Concat, WriteFinal, EmptyOutput, Clamp,
       RecordOutput, MergeFails, Aside, Doing
  <1> QED  BY <1>3, <1>4, <1>5, <1>6, <1>7, <1>8, <1>9, <1>10 DEF HandleEpisode

\* A user retries chapter 1.
LEMMA WaitsInRetry ==
  ASSUME IInv, transcribed, Waits, NEW c \in DOMAIN chapter, NEW s \in ChapterStage,
         NEW skip \in BOOLEAN, RetryChapter(c, s, skip)
  PROVE  Waits'
  <1> DEFINE t == [what |-> s, ch |-> c, skip |-> skip]
  <1>1. /\ QueueOK /\ RowsOK /\ ready' = Append(ready, t) /\ SetStatus(c, "queued")
        /\ UNCHANGED <<epStatus, final, pc, task, seen>>
        /\ chapter[c].status \in {"failed", "completed"}
    BY DEF RetryChapter, IInv
  <1>2. c = 1
    BY <1>1 DEF Waits, NoMergeYet, RowsOK
  <1>3. t.ch = 1 /\ t.what # "ep_merge"
    BY <1>2 DEF ChapterStage
  <1> HIDE DEF t
  <1>4. ~Run /\ epStatus = "failed"
    BY <1>1, <1>2 DEF Waits, Chapter1Kept, ParkedUnlessFailed
  <1>5. \A v \in Worker : ~Doing(v) /\ (Doing(v)' <=> Doing(v))
    BY <1>1, <1>4 DEF Run, Doing
  <1>6. OneRunner'
    <2>1. \A i \in DOMAIN ready' : i \in DOMAIN ready \/ i = Len(ready) + 1
      BY <1>1, AppendAt
    <2>2. \A i \in DOMAIN ready : ready'[i].ch # 1
      BY <1>1, <1>4, AppendAt DEF Run
    <2> HIDE DEF Doing
    <2> QED  BY <1>5, <2>1, <2>2 DEF OneRunner
  <1>7. /\ DOMAIN chapter' = DOMAIN chapter /\ chapter'[1].status = "queued"
        /\ \A d \in DOMAIN chapter : d # 1 => chapter'[d] = chapter[d]
    BY <1>1, <1>2, StatusAt
  <1> QED  BY <1>1, <1>3, <1>4, <1>5, <1>6, <1>7, WaitsPush

\* The transcription of a long video ends: chapter 1 is about to be parked, and
\* nothing else is about.
LEMMA WaitsBegin ==
  ASSUME IInv, OneSeed, Untranscribed, SkipNeedsFailure, ~transcribed, long,
         NEW w \in Worker, Transcribe(w)
  PROVE  Waits'
  <1>0. /\ QueueOK /\ WorkersOK /\ RowsOK /\ Alone(w)
        /\ 1 \in DOMAIN chapter /\ DOMAIN chapter = 1..Len(chapter)
    BY OthersStay DEF IInv, RowsOK, HandleChapter
  <1>1. /\ pc[w] = "asr" /\ pc'[w] = "park" /\ task' = task /\ seen' = seen
        /\ ready' = Append(ready, EpisodeTask("glossary"))
        /\ UNCHANGED <<epStatus, chapter, final>>
    BY <1>0 DEF Transcribe, Untranscribed, Goto, WorkersOK
  <1>2. OnTheWay(w)
    BY <1>1 DEF OnTheWay
  <1>3. DOMAIN ready = {}
    <2>1. \A i \in DOMAIN ready : Seed(ready[i])
      BY DEF Untranscribed, Seed
    <2> HIDE DEF OnTheWay
    <2> QED  BY <1>2, <2>1 DEF OneSeed
  <1>4. \A v \in Worker \ {w} : pc[v] = "idle"
    <2>1. \A v \in Worker \ {w} : ~OnTheWay(v)
      BY <1>2 DEF OneSeed
    <2>2. \A v \in Worker \ {w} : pc[v] \notin Leased
      BY <1>1 DEF Untranscribed, Leased
    <2> QED  BY <2>1, <2>2 DEF Untranscribed, OnTheWay, Leased
  <1>5. /\ task[w].what = "asr" /\ task[w].ch = 1
        /\ chapter[1].status \in {"queued", "running"}
        /\ Len(chapter) = 1 /\ epStatus \in {"pending", "failed"} /\ final = <<>>
        /\ task[w].skip => epStatus = "failed"
    BY <1>1, <1>2 DEF Untranscribed, Open, SkipNeedsFailure
  <1>6. /\ \A i \in DOMAIN ready' : ready'[i] = EpisodeTask("glossary")
        /\ EpisodeTask("glossary").ch = 0 /\ EpisodeTask("glossary").what = "glossary"
    BY <1>0, <1>1, <1>3, AppendAt DEF EpisodeTask
  <1>7. \A v \in Worker \ {w} : pc'[v] = "idle"
    BY <1>0, <1>4 DEF Alone
  <1>8. Chapter1Kept'
    <2>1. \A v \in Worker : Doing(v)' <=> v = w
      BY <1>1, <1>7 DEF Doing
    <2>2. \A v \in Worker : pc'[v] \notin {"merge", "count"}
      BY <1>1, <1>7
    <2> HIDE DEF Doing
    <2> QED  BY <1>1, <1>5, <1>6, <2>1, <2>2 DEF Chapter1Kept, OneRunner
  <1>9. NoMergeYet'
    <2>1. \A v \in Worker : pc'[v] \in Aside \/ Doing(v)'
      BY <1>1, <1>7 DEF Aside, Doing
    <2>2. \A v \in Worker : pc'[v] \in {"start"} \cup Leased => task'[v].ch = 1
      BY <1>1, <1>5, <1>7 DEF Leased
    <2> QED  BY <1>0, <1>1, <1>5, <1>6, <2>1, <2>2 DEF NoMergeYet
  <1>10. ParkedUnlessFailed'
    BY <1>1, <1>5, <1>6, <1>7 DEF ParkedUnlessFailed, Leased
  <1> QED  BY <1>8, <1>9, <1>10 DEF Waits

\* What holds while a fan-out may still come.
UndecidedWaits == Undecided => Waits

\* The place of an episode's life.
OneFanOut == OneSeed /\ Untranscribed /\ SkipNeedsFailure /\ TranscribedOnce /\ FanOutInStep
            /\ UndecidedWaits

LEMMA SeedStep ==
  ASSUME IInv, OneSeed, Untranscribed, Next
  PROVE  OneSeed' /\ (Open' => Open \/ ~transcribed)
  BY SeedPopped, SeedInChapter, SeedInEpisode, SeedInRetry DEF Next

LEMMA OneFanOutStep ==
  ASSUME IInv, OneFanOut, Next
  PROVE  OneFanOut'
  <1> USE DEF OneFanOut
  <1>1. OneSeed' /\ (Open' => Open \/ ~transcribed)
    BY SeedStep
  <1>2. transcribed => transcribed'
    BY TranscriptStays
  <1>3. Untranscribed' /\ SkipNeedsFailure'
    <2>1. CASE transcribed'
      BY <2>1 DEF Untranscribed, SkipNeedsFailure
    <2>2. CASE ~transcribed'
      <3>1. ~transcribed
        BY <1>2, <2>2
      <3> QED  BY <2>2, <3>1, EarlyPopped, EarlyHandled, EarlyRetried DEF Next
    <2> QED  BY <2>1, <2>2
  <1>4. TranscribedOnce'
    BY OnceStep
  <1>5. FanOutInStep'
    BY FanOutElsewhere, FanOutSteps DEF Next
  <1>6. UndecidedWaits'
    <2> SUFFICES ASSUME Undecided' PROVE Waits'
      BY DEF UndecidedWaits
    <2>1. long' /\ transcribed' /\ Open' /\ long
      BY TranscriptStays DEF Undecided
    <2>2. CASE transcribed
      <3>1. Waits
        BY <1>1, <2>1, <2>2 DEF UndecidedWaits, Undecided
      <3> QED  BY <2>1, <2>2, <3>1, WaitsPopped, WaitsInChapter, WaitsInEpisode, WaitsInRetry
                  DEF Next
    <2>3. CASE ~transcribed
      <3>1. PICK w \in Worker : Transcribe(w)
        <4>1. transcribed' = transcribed \/ \E w \in Worker : Transcribe(w)
          BY TranscriptStays
        <4> QED  BY <2>1, <2>3, <4>1
      <3> QED  BY <2>1, <2>3, <3>1, WaitsBegin
    <2> QED  BY <2>2, <2>3
  <1> QED  BY <1>1, <1>3, <1>4, <1>5, <1>6

LEMMA OneFanOutInit == Init => OneFanOut
  <1> SUFFICES ASSUME Init PROVE OneFanOut
    OBVIOUS
  <1>1. /\ DOMAIN ready = {1} /\ ready[1] = ChapterTask(1, "asr") /\ ~transcribed
        /\ \A w \in Worker : pc[w] = "idle"
        /\ Len(chapter) = 1 /\ chapter[1].status = "queued"
    BY DEF Init
  <1>2. ChapterTask(1, "asr").what = "asr" /\ ChapterTask(1, "asr").ch = 1 /\ ~ChapterTask(1, "asr").skip
    BY DEF ChapterTask
  <1>3. OneSeed
    BY <1>1 DEF OneSeed, OnTheWay
  <1>4. Untranscribed
    BY <1>1, <1>2 DEF Init, Untranscribed, Leased
  <1>5. SkipNeedsFailure
    BY <1>1, <1>2 DEF SkipNeedsFailure
  <1>6. TranscribedOnce /\ UndecidedWaits
    BY <1>1 DEF TranscribedOnce, UndecidedWaits, Undecided
  <1>7. FanOutInStep
    BY <1>1 DEF FanOutInStep
  <1> QED  BY <1>3, <1>4, <1>5, <1>6, <1>7 DEF OneFanOut

-----------------------------------------------------------------------------
(* The final video.                                                        *)

\* The number of chapters that a merge may have read, or have written: every one,
\* or the first of a short video that has been split since.
IsWhole(k) == k = Len(chapter) \/ (ShortSplit /\ k = 1)

\* A merge that has read the chapters has read outputs of theirs ...
MergeReadsAll ==
  /\ \A w \in Worker : pc[w] \in {"concat", "write"} =>
       /\ \A c \in 1..seen[w].count : c \in DOMAIN chapter /\ chapter[c].version > 0
       /\ IsWhole(seen[w].count)
  /\ final \in Seq(Nat)
  /\ FinalHasEveryChapter

\* ... and while a fan-out creates chapters, a merge can only have read the first.
OneWhileCreating ==
  \A w \in Worker : pc[w] = "create" =>
    /\ Len(final) <= 1
    /\ \A v \in Worker : pc[v] \in {"concat", "write"} => seen[v].count = 1

\* The rows keep their place, and a chapter's output is only ever replaced.
RowsStay ==
  /\ DOMAIN chapter' = DOMAIN chapter /\ Len(chapter') = Len(chapter)
  /\ \A c \in DOMAIN chapter : chapter[c].version > 0 => chapter'[c].version > 0

LEMMA OutputsStay ==
  ASSUME IInv
  PROVE  /\ \A w \in Worker :
              Pop(w) \/ HandleChapter(w) \/ (HandleEpisode(w) /\ ~CreateChapterJob(w)) => RowsStay
         /\ \A c \in DOMAIN chapter, s \in ChapterStage, skip \in BOOLEAN :
              RetryChapter(c, s, skip) => RowsStay
  <1> USE DEF RowsStay
  <1>0. /\ RowsOK /\ chapter \in Seq(Row) /\ \A c \in DOMAIN chapter : chapter[c] \in Row
        /\ UNCHANGED chapter => RowsStay
    BY DEF IInv, RowsOK
  <1>1. ASSUME NEW w \in Worker, Pop(w) PROVE RowsStay
    BY <1>0, <1>1 DEF Pop, rowVars
  <1>2. ASSUME NEW c \in DOMAIN chapter, NEW s \in ChapterStage, NEW skip \in BOOLEAN,
               RetryChapter(c, s, skip)
        PROVE  RowsStay
    BY <1>0, <1>2, StatusAt DEF RetryChapter
  <1>3. ASSUME NEW w \in Worker, HandleChapter(w) PROVE RowsStay
    <2>1. CASE MergeChapter(w)
      <3> DEFINE d == task[w].ch
      <3>1. chapter' = [chapter EXCEPT ![d] = [chapter[d] EXCEPT !.version = @ + 1]]
        BY <2>1 DEF MergeChapter
      <3>2. \A c \in DOMAIN chapter : c # d => chapter'[c] = chapter[c]
        BY <1>0, <3>1
      <3>3. d \in DOMAIN chapter => chapter'[d] = [chapter[d] EXCEPT !.version = @ + 1]
        BY <1>0, <3>1
      <3> HIDE DEF d
      <3>4. d \in DOMAIN chapter => chapter'[d].version > 0
        BY <1>0, <3>3 DEF Row
      <3>5. DOMAIN chapter' = DOMAIN chapter /\ Len(chapter') = Len(chapter)
        BY <1>3, LenKept
      <3> QED  BY <3>2, <3>4, <3>5
    <2>2. CASE \/ StartStage(w) \/ Park(w) \/ CompleteChapter(w) \/ Advance(w) \/ StageFails(w)
      <3>1. PICK c, st : SetStatus(c, st)
        BY <2>2 DEF StartStage, Park, CompleteChapter, Advance, StageFails, EnqueueStage
      <3> QED  BY <1>0, <3>1, StatusAt
    <2>3. CASE \/ RequeueBusy(w) \/ Transcribe(w) \/ Dub(w) \/ CountChapters(w) \/ EnqueueMerge(w)
               \/ Shortcut(w) \/ MarkEpisodeRunning(w) \/ RefreshJob(w) \/ MirrorFailure(w)
               \/ FailEpisode(w)
      <3>1. UNCHANGED chapter
        BY <2>3 DEF RequeueBusy, Transcribe, Dub, CountChapters, EnqueueMerge, Shortcut,
           MarkEpisodeRunning, RefreshJob, MirrorFailure, FailEpisode, rowVars
      <3> QED  BY <1>0, <3>1
    <2> QED  BY <1>3, <2>1, <2>2, <2>3 DEF HandleChapter
  <1>4. ASSUME NEW w \in Worker, HandleEpisode(w), ~CreateChapterJob(w) PROVE RowsStay
    <2>1. CASE ResumeChapter1(w) \/ FanOut(w)
      <3>1. PICK c, st : SetStatus(c, st)
        BY <2>1 DEF ResumeChapter1, FanOut, EnqueueStage
      <3> QED  BY <1>0, <3>1, StatusAt
    <2>2. CASE \/ ExtractGlossary(w) \/ EnqueueChapterize(w) \/ LoadEpisode(w) \/ DecideCuts(w)
               \/ NarrowChapter1(w) \/ BumpTotal(w) \/ DispatchEpisode(w) \/ CheckChapters(w)
               \/ Concat(w) \/ WriteFinal(w) \/ EmptyOutput(w) \/ Clamp(w) \/ RecordOutput(w)
               \/ MergeFails(w) \/ EpisodeStageFails(w)
      <3>1. UNCHANGED chapter
        BY <2>2 DEF ExtractGlossary, EnqueueChapterize, LoadEpisode, DecideCuts, NarrowChapter1,
           BumpTotal, DispatchEpisode, CheckChapters, Concat, WriteFinal, EmptyOutput, Clamp,
           RecordOutput, MergeFails,
           EpisodeStageFails, rowVars
      <3> QED  BY <1>0, <3>1
    <2> QED  BY <1>4, <2>1, <2>2 DEF HandleEpisode
  <1> QED  BY <1>1, <1>2, <1>3, <1>4

\* Until the one fan-out starts to enqueue, the chapters it has created wait: no
\* task is about them.
AtWork == {"start"} \cup Leased
OnlyTheFirst ==
  /\ \A i \in DOMAIN ready : ready[i].ch \in {0, 1}
  /\ \A w \in Worker : pc[w] \in AtWork => task[w].ch = 1
  /\ \A c \in DOMAIN chapter : c > 1 => chapter[c].status = "pending"
OthersWait == Open \/ ~transcribed => OnlyTheFirst

\* What keeps it so.
LEMMA FirstStays ==
  ASSUME IInv, OnlyTheFirst, NEW w \in Worker, Alone(w),
         pc'[w] \in AtWork => task'[w].ch = 1,
         ready' = ready \/ \E t : ready' = Append(ready, t) /\ t.ch \in {0, 1},
         \A c \in DOMAIN chapter' : c > 1 /\ c \in DOMAIN chapter =>
                                      chapter'[c].status = chapter[c].status,
         \A c \in DOMAIN chapter' : c \notin DOMAIN chapter => chapter'[c].status = "pending"
  PROVE  OnlyTheFirst'
  <1>1. \A i \in DOMAIN ready' : ready'[i].ch \in {0, 1}
    BY AppendAt DEF OnlyTheFirst, IInv
  <1>2. \A v \in Worker : pc'[v] \in AtWork => task'[v].ch = 1
    BY DEF OnlyTheFirst, Alone
  <1>3. \A c \in DOMAIN chapter' : c > 1 => chapter'[c].status = "pending"
    BY DEF OnlyTheFirst
  <1> QED  BY <1>1, <1>2, <1>3 DEF OnlyTheFirst

LEMMA FirstInChapter ==
  ASSUME IInv, OnlyTheFirst, NEW w \in Worker, HandleChapter(w)
  PROVE  OnlyTheFirst'
  <1>0. /\ Alone(w) /\ WorkersOK /\ RowsOK /\ task[w].ch = 1
        /\ \A c \in DOMAIN chapter : chapter[c] \in Row
    <2>1. pc[w] \in AtWork
      BY DEF HandleChapter, StartStage, RequeueBusy, Transcribe, Park, Dub, MergeChapter,
         CountChapters, EnqueueMerge, CompleteChapter, Shortcut, MarkEpisodeRunning, RefreshJob,
         Advance, StageFails, MirrorFailure, FailEpisode, AtWork, Leased, ChapterStage
    <2> QED  BY <2>1, OthersStay DEF OnlyTheFirst, IInv, RowsOK
  <1>1. pc'[w] \in AtWork => task'[w].ch = 1
    <2>1. pc'[w] = "idle" \/ task' = task
      BY <1>0 DEF HandleChapter, StartStage, RequeueBusy, Transcribe, Park, Dub, MergeChapter,
         CountChapters, EnqueueMerge, CompleteChapter, Shortcut, MarkEpisodeRunning, RefreshJob,
         Advance, StageFails, MirrorFailure, FailEpisode, Idle, Goto, WorkersOK
    <2> QED  BY <1>0, <2>1 DEF AtWork, Leased
  <1>2. ready' = ready \/ \E t : ready' = Append(ready, t) /\ t.ch \in {0, 1}
    <2>1. CASE RequeueBusy(w)
      BY <1>0, <2>1 DEF RequeueBusy
    <2>2. CASE Transcribe(w) \/ EnqueueMerge(w)
      <3>1. \A s : EpisodeTask(s).ch = 0
        BY DEF EpisodeTask
      <3> QED  BY <2>2, <3>1 DEF Transcribe, EnqueueMerge
    <2>3. CASE Advance(w)
      <3>1. \A s : ChapterTask(1, s).ch = 1
        BY DEF ChapterTask
      <3> QED  BY <1>0, <2>3, <3>1 DEF Advance, EnqueueStage
    <2>4. CASE \/ StartStage(w) \/ Park(w) \/ Dub(w) \/ MergeChapter(w) \/ CountChapters(w)
               \/ CompleteChapter(w) \/ Shortcut(w) \/ MarkEpisodeRunning(w) \/ RefreshJob(w)
               \/ StageFails(w) \/ MirrorFailure(w) \/ FailEpisode(w)
      BY <2>4 DEF StartStage, Park, Dub, MergeChapter, CountChapters, CompleteChapter, Shortcut,
         MarkEpisodeRunning, RefreshJob, StageFails, MirrorFailure, FailEpisode
    <2> QED  BY <2>1, <2>2, <2>3, <2>4 DEF HandleChapter
  <1>3. DOMAIN chapter' = DOMAIN chapter
    BY OutputsStay DEF RowsStay
  <1>4. \A c \in DOMAIN chapter : c > 1 => chapter'[c].status = chapter[c].status
    <2>1. CASE MergeChapter(w)
      <3>1. chapter' = [chapter EXCEPT ![1] = [chapter[1] EXCEPT !.version = @ + 1]]
        BY <1>0, <2>1 DEF MergeChapter
      <3> QED  BY <1>0, <3>1
    <2>2. CASE \/ StartStage(w) \/ Park(w) \/ CompleteChapter(w) \/ Advance(w) \/ StageFails(w)
      <3>1. PICK st : SetStatus(1, st)
        BY <1>0, <2>2 DEF StartStage, Park, CompleteChapter, Advance, StageFails, EnqueueStage
      <3> QED  BY <1>0, <3>1, StatusAt
    <2>3. CASE \/ RequeueBusy(w) \/ Transcribe(w) \/ Dub(w) \/ CountChapters(w) \/ EnqueueMerge(w)
               \/ Shortcut(w) \/ MarkEpisodeRunning(w) \/ RefreshJob(w) \/ MirrorFailure(w)
               \/ FailEpisode(w)
      BY <2>3 DEF RequeueBusy, Transcribe, Dub, CountChapters, EnqueueMerge, Shortcut,
         MarkEpisodeRunning, RefreshJob, MirrorFailure, FailEpisode, rowVars
    <2> QED  BY <2>1, <2>2, <2>3 DEF HandleChapter
  <1> QED  BY <1>0, <1>1, <1>2, <1>3, <1>4, FirstStays

LEMMA FirstInEpisode ==
  ASSUME IInv, OnlyTheFirst, NEW w \in Worker, HandleEpisode(w), ~FanOut(w)
  PROVE  OnlyTheFirst'
  <1>0. /\ Alone(w) /\ WorkersOK /\ RowsOK
        /\ \A c \in DOMAIN chapter : chapter[c] \in Row
    BY OthersStay DEF IInv, RowsOK
  <1>1. pc'[w] \notin AtWork
    BY <1>0 DEF HandleEpisode, ExtractGlossary, EnqueueChapterize, LoadEpisode, DecideCuts,
       ResumeChapter1, NarrowChapter1, CreateChapterJob, BumpTotal, DispatchEpisode,
       CheckChapters, Concat, WriteFinal, EmptyOutput, Clamp, RecordOutput, MergeFails,
       EpisodeStageFails, Idle, Goto, WorkersOK, AtWork, Leased
  <1>2. ready' = ready \/ \E t : ready' = Append(ready, t) /\ t.ch \in {0, 1}
    <2>1. CASE EnqueueChapterize(w)
      <3>1. EpisodeTask("chapterize").ch = 0
        BY DEF EpisodeTask
      <3> QED  BY <2>1, <3>1 DEF EnqueueChapterize
    <2>2. CASE ResumeChapter1(w)
      <3>1. ChapterTask(1, "dub").ch = 1
        BY DEF ChapterTask
      <3> QED  BY <2>2, <3>1 DEF ResumeChapter1, EnqueueStage
    <2>3. CASE ~EnqueueChapterize(w) /\ ~ResumeChapter1(w)
      BY <2>3 DEF HandleEpisode, ExtractGlossary, LoadEpisode, DecideCuts, NarrowChapter1,
         CreateChapterJob, BumpTotal, DispatchEpisode, CheckChapters, Concat, WriteFinal,
         EmptyOutput, Clamp, RecordOutput, MergeFails, EpisodeStageFails
    <2> QED  BY <2>1, <2>2, <2>3
  <1>3. \A c \in DOMAIN chapter' : IF c \in DOMAIN chapter
                                     THEN c > 1 => chapter'[c].status = chapter[c].status
                                     ELSE chapter'[c].status = "pending"
    <2>1. CASE CreateChapterJob(w)
      <3>1. chapter' = Append(chapter, [status |-> "pending", version |-> 0])
        BY <2>1 DEF CreateChapterJob
      <3> QED  BY <1>0, <3>1 DEF RowsOK
    <2>2. CASE ResumeChapter1(w)
      <3>1. SetStatus(1, "queued")
        BY <2>2 DEF ResumeChapter1, EnqueueStage
      <3> QED  BY <1>0, <3>1, StatusAt
    <2>3. CASE ~CreateChapterJob(w) /\ ~ResumeChapter1(w)
      BY <2>3 DEF HandleEpisode, ExtractGlossary, EnqueueChapterize, LoadEpisode, DecideCuts,
         NarrowChapter1, BumpTotal, DispatchEpisode, CheckChapters, Concat, WriteFinal,
         EmptyOutput, Clamp, RecordOutput, MergeFails, EpisodeStageFails, rowVars
    <2> QED  BY <2>1, <2>2, <2>3
  <1> QED  BY <1>0, <1>1, <1>2, <1>3, FirstStays

LEMMA OthersWaitStep ==
  ASSUME IInv, OneFanOut, OthersWait, Next
  PROVE  OthersWait'
  <1> SUFFICES ASSUME Open' \/ ~transcribed' PROVE OnlyTheFirst'
    BY DEF OthersWait
  <1>1. Open \/ ~transcribed
    BY SeedStep, TranscriptStays DEF OneFanOut
  <1>2. OnlyTheFirst /\ QueueOK /\ WorkersOK
    BY <1>1 DEF OthersWait, IInv
  <1>3. ASSUME NEW w \in Worker, FanOut(w) PROVE FALSE
    <2>1. pc[w] = "fan"
      BY <1>3 DEF FanOut
    <2> QED  BY <1>1, <2>1 DEF OneFanOut, FanOutInStep, Untranscribed
  <1>4. ASSUME NEW w \in Worker, Pop(w) PROVE OnlyTheFirst'
    <2>1. ready # <<>> /\ ready' = Tail(ready) /\ Alone(w) /\ UNCHANGED chapter
      BY <1>4, OthersStay DEF Pop, rowVars
    <2>2. /\ \A j \in DOMAIN ready' : j + 1 \in DOMAIN ready /\ ready'[j] = ready[j + 1]
          /\ Head(ready) = ready[1] /\ 1 \in DOMAIN ready /\ Head(ready) \in Ticket
      BY <1>2, <2>1, TailAt, HeadTailProperties DEF QueueOK
    <2>3. pc'[w] \in AtWork => task'[w].ch = 1
      <3>1. Head(ready).ch = 0 => Head(ready).what \in EpisodeStage
        BY <2>2 DEF Ticket, OfChapter, OfEpisode
      <3>2. task'[w] = Head(ready) /\ Head(ready).ch \in {0, 1}
        BY <1>2, <1>4, <2>2 DEF Pop, WorkersOK, OnlyTheFirst
      <3>3. pc'[w] = IF Head(ready).ch = 0 THEN Head(ready).what ELSE "start"
        BY <1>2, <1>4 DEF Pop, WorkersOK, Goto
      <3> QED  BY <3>1, <3>2, <3>3 DEF AtWork, Leased, EpisodeStage
    <2> QED  BY <1>2, <2>1, <2>2, <2>3 DEF OnlyTheFirst, Alone
  <1>5. ASSUME NEW c \in DOMAIN chapter, NEW s \in ChapterStage, NEW skip \in BOOLEAN,
               RetryChapter(c, s, skip)
        PROVE  OnlyTheFirst'
    <2>1. c = 1
      <3>1. chapter[c].status # "pending" /\ c \in Nat \ {0}
        BY <1>5 DEF RetryChapter, IInv, RowsOK
      <3> QED  BY <1>2, <3>1 DEF OnlyTheFirst
    <2>2. /\ ready' = Append(ready, [what |-> s, ch |-> c, skip |-> skip])
          /\ SetStatus(c, "queued") /\ UNCHANGED <<pc, task>>
      BY <1>5 DEF RetryChapter
    <2>3. \A i \in DOMAIN ready' : ready'[i].ch \in {0, 1}
      BY <1>2, <2>1, <2>2, AppendAt DEF OnlyTheFirst
    <2>4. /\ DOMAIN chapter' = DOMAIN chapter
          /\ \A d \in DOMAIN chapter : d # 1 => chapter'[d].status = chapter[d].status
      BY <2>1, <2>2, StatusAt DEF IInv, RowsOK
    <2> QED  BY <1>2, <2>2, <2>3, <2>4 DEF OnlyTheFirst
  <1> QED  BY <1>2, <1>3, <1>4, <1>5, FirstInChapter, FirstInEpisode DEF Next

LEMMA NotEmpty == \A s \in Seq(Nat) : s # <<>> /\ Len(s) <= 1 => Len(s) = 1
  <1>1. \A s \in Seq(Nat) : s # <<>> => Len(s) \in Nat \ {0}
    BY EmptySeq, Zenon
  <1>2. \A n \in Nat \ {0} : n <= 1 => n = 1
    OBVIOUS
  <1> QED  BY <1>1, <1>2, Zenon

\* Where the fan-out of a long video comes nobody merges and no final video is there.
LEMMA FanOutFindsNoMerge ==
  ASSUME IInv, OneFanOut, long, NEW w \in Worker, pc[w] = "create"
  PROVE  final = <<>> /\ \A v \in Worker : pc[v] \notin {"concat", "write"}
  <1>1. transcribed /\ Open
    BY DEF OneFanOut, Untranscribed, Open, OnTheWay
  <1>2. Waits
    BY <1>1 DEF OneFanOut, UndecidedWaits, Undecided
  <1> QED  BY <1>2 DEF Waits, NoMergeYet, Aside, Doing

\* What a step that takes nobody into a merge or to the creation of chapters keeps.
Bystands ==
  /\ final' \in {final, <<>>}
  /\ RowsStay
  /\ \A v \in Worker :
       /\ pc'[v] \in {"concat", "write"} => pc[v] \in {"concat", "write"} /\ seen'[v] = seen[v]
       /\ pc'[v] = "create" => pc[v] = "create"

LEMMA BystandsKeeps ==
  ASSUME IInv, MergeReadsAll, OneWhileCreating, long' = long, Bystands
  PROVE  MergeReadsAll' /\ OneWhileCreating'
  <1>1. ShortSplit' <=> ShortSplit
    BY DEF Bystands, RowsStay, ShortSplit
  <1>2. \A k : IsWhole(k)' <=> IsWhole(k)
    BY <1>1 DEF IsWhole, Bystands, RowsStay
  <1>3. FinalHasEveryChapter' /\ final' \in Seq(Nat)
    <2>1. CASE final' = final
      BY <1>1, <2>1 DEF MergeReadsAll, FinalHasEveryChapter, Bystands, RowsStay
    <2>2. CASE final' = <<>>
      BY <2>2 DEF FinalHasEveryChapter
    <2> QED  BY <2>1, <2>2 DEF Bystands
  <1>4. \A v \in Worker : pc'[v] \in {"concat", "write"} =>
          /\ \A c \in 1..seen'[v].count : c \in DOMAIN chapter' /\ chapter'[c].version > 0
          /\ IsWhole(seen[v].count)'
    <2> SUFFICES ASSUME NEW v \in Worker, pc'[v] \in {"concat", "write"}
                 PROVE  /\ \A c \in 1..seen'[v].count : c \in DOMAIN chapter' /\ chapter'[c].version > 0
                        /\ seen'[v].count = Len(chapter') \/ (ShortSplit' /\ seen'[v].count = 1)
      BY DEF IsWhole
    <2>1. pc[v] \in {"concat", "write"} /\ seen'[v] = seen[v]
      BY DEF Bystands
    <2> QED  BY <1>1, <2>1 DEF MergeReadsAll, IsWhole, Bystands, RowsStay
  <1>5. OneWhileCreating'
    <2> SUFFICES ASSUME NEW w \in Worker, pc'[w] = "create"
                 PROVE  /\ Len(final') <= 1
                        /\ \A v \in Worker : pc'[v] \in {"concat", "write"} => seen'[v].count = 1
      BY DEF OneWhileCreating
    <2>1. pc[w] = "create"
      BY DEF Bystands
    <2> QED  BY <2>1 DEF OneWhileCreating, Bystands
  <1> QED  BY <1>3, <1>4, <1>5 DEF MergeReadsAll

LEMMA ReadsAllInEpisode ==
  ASSUME IInv, OneFanOut, OthersWait, MergeReadsAll, OneWhileCreating,
         NEW w \in Worker, HandleEpisode(w)
  PROVE  MergeReadsAll' /\ OneWhileCreating'
  <1>0. /\ Alone(w) /\ WorkersOK /\ RowsOK /\ DOMAIN chapter = 1..Len(chapter) /\ Len(chapter) \in Nat
        /\ seen[w] \in Reading /\ long' = long
    BY OthersStay, TranscriptStays DEF IInv, RowsOK, WorkersOK, Next
  <1> USE DEF Goto, Idle
  <1>1. CASE CreateChapterJob(w)
    <2>1. /\ pc[w] = "create" /\ pc'[w] \notin {"concat", "write"} /\ final' = final
      BY <1>0, <1>1 DEF CreateChapterJob, WorkersOK
    <2>2. /\ DOMAIN chapter \subseteq DOMAIN chapter' /\ Len(chapter') = Len(chapter) + 1
          /\ \A c \in DOMAIN chapter : chapter'[c] = chapter[c]
      BY <1>0, <1>1, ChapterAdded
    <2>3. \A v \in Worker : pc'[v] \in {"concat", "write"} =>
                              pc[v] \in {"concat", "write"} /\ seen'[v] = seen[v]
      BY <1>0, <2>1 DEF Alone
    <2>4. CASE long
      <3>1. final = <<>> /\ \A v \in Worker : pc[v] \notin {"concat", "write"}
        BY <2>1, <2>4, FanOutFindsNoMerge
      <3>2. final' = <<>> /\ \A v \in Worker : pc'[v] \notin {"concat", "write"}
        BY <2>1, <2>3, <3>1
      <3> QED  BY <3>2 DEF MergeReadsAll, FinalHasEveryChapter, OneWhileCreating
    <2>5. CASE ~long
      <3>1. /\ Len(final) <= 1
            /\ \A v \in Worker : pc[v] \in {"concat", "write"} => seen[v].count = 1
        BY <2>1 DEF OneWhileCreating
      <3>2. ShortSplit'
        <4>1. Len(chapter') > 1 /\ ~long'
          BY <1>0, <2>2, <2>5 DEF RowsOK
        <4> QED  BY <4>1 DEF ShortSplit
      <3>3. FinalHasEveryChapter' /\ final' \in Seq(Nat)
        <4>1. final \in Seq(Nat) /\ (final # <<>> => Len(final) = 1)
          <5>1. final \in Seq(Nat)
            BY DEF MergeReadsAll
          <5>2. Len(final) <= 1
            BY <3>1
          <5> QED  BY <5>1, <5>2, NotEmpty
        <4> QED  BY <2>1, <3>2, <4>1 DEF MergeReadsAll, FinalHasEveryChapter
      <3>4. OneWhileCreating'
        BY <2>1, <2>3, <3>1 DEF OneWhileCreating
      <3>5. \A v \in Worker : pc'[v] \in {"concat", "write"} =>
              /\ \A c \in 1..seen'[v].count : c \in DOMAIN chapter' /\ chapter'[c].version > 0
              /\ IsWhole(seen[v].count)'
        BY <2>2, <2>3, <3>1, <3>2 DEF MergeReadsAll, IsWhole
      <3> QED  BY <3>3, <3>4, <3>5 DEF MergeReadsAll
    <2> QED  BY <2>4, <2>5
  <1>2. CASE CheckChapters(w)
    <2>1. UNCHANGED <<chapter, final>> /\ pc'[w] # "create"
      BY <1>0, <1>2 DEF CheckChapters, rowVars, WorkersOK
    <2>2. CASE AllCompleted /\ \A c \in DOMAIN chapter : chapter[c].version > 0
      <3> DEFINE note == [seen[w] EXCEPT !.ep = epStatus, !.count = Len(chapter)]
      <3>1. seen' = [seen EXCEPT ![w] = note]
        BY <1>2, <2>2 DEF CheckChapters
      <3>2. note.count = Len(chapter)
        BY <1>0 DEF Reading
      <3> HIDE DEF note
      <3>3. seen'[w].count = Len(chapter)
        BY <1>0, <3>1, <3>2 DEF WorkersOK
      <3>4. ASSUME NEW u \in Worker, pc[u] = "create" PROVE Len(chapter) = 1
        <4>1. OnlyTheFirst
          BY <3>4 DEF OthersWait, Open, OnTheWay
        <4>2. ~(2 \in DOMAIN chapter)
          BY <2>2, <4>1 DEF OnlyTheFirst, AllCompleted
        <4> QED  BY <1>0, <4>2 DEF RowsOK
      <3>5. MergeReadsAll'
        BY <1>0, <2>1, <2>2, <3>3
           DEF MergeReadsAll, FinalHasEveryChapter, Alone, IsWhole, ShortSplit
      <3>6. OneWhileCreating'
        BY <1>0, <2>1, <3>3, <3>4 DEF OneWhileCreating, Alone
      <3> QED  BY <3>5, <3>6
    <2>3. CASE ~(AllCompleted /\ \A c \in DOMAIN chapter : chapter[c].version > 0)
      <3>1. pc'[w] = "idle"
        BY <1>0, <1>2, <2>3 DEF CheckChapters, WorkersOK
      <3>2. Bystands
        BY <1>0, <2>1, <3>1 DEF Bystands, Alone, RowsStay
      <3> QED  BY <1>0, <3>2, BystandsKeeps
    <2> QED  BY <2>2, <2>3
  <1>3. CASE WriteFinal(w)
    <2>1. /\ pc[w] = "write" /\ pc'[w] = "clamp" /\ chapter' = chapter /\ seen' = seen
          /\ final' = [c \in 1..seen[w].count |-> chapter[c].version]
      BY <1>0, <1>3 DEF WriteFinal, WorkersOK
    <2>2. /\ seen[w].count \in Nat /\ IsWhole(seen[w].count)
          /\ \A c \in 1..seen[w].count : c \in DOMAIN chapter /\ chapter[c].version > 0
      BY <1>0, <2>1 DEF MergeReadsAll, Reading
    <2>3. final' \in Seq(Nat) /\ Len(final') = seen[w].count /\ DOMAIN final' = 1..seen[w].count
      <3>1. \A c \in DOMAIN chapter : chapter[c] \in Row
        BY <1>0, ElementOfSeq DEF RowsOK
      <3>2. \A c \in 1..seen[w].count : chapter[c].version \in Nat
        BY <2>2, <3>1 DEF Row
      <3> QED  BY <2>1, <2>2, <3>2
    <2>4. FinalHasEveryChapter'
      <3>1. \A c \in DOMAIN final' : final'[c] > 0
        BY <2>1, <2>2, <2>3
      <3>2. DOMAIN final' = DOMAIN chapter' \/ (ShortSplit' /\ Len(final') = 1)
        BY <1>0, <2>1, <2>2, <2>3 DEF IsWhole, ShortSplit
      <3> QED  BY <3>1, <3>2 DEF FinalHasEveryChapter
    <2>5. MergeReadsAll'
      BY <1>0, <2>1, <2>3, <2>4 DEF MergeReadsAll, Alone, IsWhole, ShortSplit
    <2>6. OneWhileCreating'
      BY <1>0, <2>1, <2>3 DEF OneWhileCreating, Alone
    <2> QED  BY <2>5, <2>6
  <1>4. CASE NarrowChapter1(w)
    <2>1. /\ pc[w] = "slice" /\ pc'[w] = "create" /\ UNCHANGED <<chapter, final>>
          /\ Len(chapter) = 1
      BY <1>0, <1>4 DEF NarrowChapter1, WorkersOK, OneFanOut, FanOutInStep
    <2>2. ~ShortSplit
      BY <2>1 DEF ShortSplit
    <2>3. Len(final) <= 1
      <3>1. CASE final = <<>>
        BY <3>1
      <3>2. CASE final # <<>>
        BY <1>0, <2>1, <2>2, <3>2 DEF MergeReadsAll, FinalHasEveryChapter
      <3> QED  BY <3>1, <3>2
    <2>4. \A v \in Worker : pc'[v] \in {"concat", "write"} =>
                              pc[v] \in {"concat", "write"} /\ seen'[v] = seen[v]
      BY <1>0, <2>1 DEF Alone
    <2>5. MergeReadsAll'
      BY <1>0, <2>1, <2>4 DEF MergeReadsAll, FinalHasEveryChapter, IsWhole, ShortSplit
    <2>6. OneWhileCreating'
      BY <2>1, <2>2, <2>3, <2>4 DEF OneWhileCreating, MergeReadsAll, IsWhole
    <2> QED  BY <2>5, <2>6
  <1>5. CASE /\ \/ ExtractGlossary(w) \/ EnqueueChapterize(w)
                \/ LoadEpisode(w) \/ DecideCuts(w) \/ ResumeChapter1(w)
                \/ BumpTotal(w) \/ DispatchEpisode(w) \/ FanOut(w)
                \/ Concat(w) \/ EmptyOutput(w) \/ Clamp(w)
                \/ RecordOutput(w) \/ MergeFails(w) \/ EpisodeStageFails(w)
             /\ ~CreateChapterJob(w)
    <2>1. /\ final' \in {final, <<>>} /\ pc'[w] # "create"
          /\ pc'[w] \in {"concat", "write"} => pc[w] \in {"concat", "write"} /\ seen'[w] = seen[w]
      BY <1>0, <1>5 DEF ExtractGlossary, EnqueueChapterize, LoadEpisode, DecideCuts, ResumeChapter1,
         BumpTotal, DispatchEpisode, FanOut, Concat, EmptyOutput, Clamp, RecordOutput, MergeFails,
         EpisodeStageFails, WorkersOK, rowVars
    <2>2. RowsStay
      BY <1>5, OutputsStay
    <2>3. Bystands
      BY <1>0, <2>1, <2>2 DEF Bystands, Alone
    <2> QED  BY <1>0, <2>3, BystandsKeeps
  <1> QED  BY <1>1, <1>2, <1>3, <1>4, <1>5 DEF HandleEpisode

LEMMA ReadsAllStep ==
  ASSUME IInv, OneFanOut, OthersWait, MergeReadsAll, OneWhileCreating, Next
  PROVE  MergeReadsAll' /\ OneWhileCreating'
  <1>0. WorkersOK /\ RowsOK /\ DOMAIN chapter = 1..Len(chapter) /\ Len(chapter) \in Nat
    BY DEF IInv, RowsOK
  <1>1. long' = long
    BY TranscriptStays
  <1>2. Bystands => MergeReadsAll' /\ OneWhileCreating'
    BY <1>1, BystandsKeeps
  <1>3. ASSUME NEW c \in DOMAIN chapter, NEW s \in ChapterStage, NEW skip \in BOOLEAN,
               RetryChapter(c, s, skip)
        PROVE  Bystands
    BY <1>3, OutputsStay DEF RetryChapter, Bystands
  <1>4. ASSUME NEW w \in Worker, Pop(w) PROVE Bystands
    <2>1. Alone(w) /\ UNCHANGED rowVars
      BY <1>4, OthersStay DEF Pop
    <2>2. pc'[w] \notin {"concat", "write", "create"}
      <3>1. Head(ready) \in Ticket
        BY <1>4, HeadTailProperties DEF IInv, QueueOK, Pop
      <3>2. Head(ready).ch = 0 => Head(ready).what \in EpisodeStage
        BY <3>1 DEF Ticket, OfChapter, OfEpisode
      <3> QED  BY <1>0, <1>4, <3>2 DEF Pop, Goto, WorkersOK, EpisodeStage
    <2>3. RowsStay
      BY <1>4, OutputsStay
    <2> QED  BY <2>1, <2>2, <2>3 DEF Alone, rowVars, Bystands
  <1>5. ASSUME NEW w \in Worker, HandleChapter(w) PROVE Bystands
    <2>1. Alone(w) /\ Fits(task[w], pc[w])
      BY <1>0, <1>5, OthersStay DEF WorkersOK
    <2>2. pc'[w] \in Leased \cup {"idle"} /\ final' = final
      BY <1>0, <1>5, <2>1
         DEF HandleChapter, StartStage, RequeueBusy, Transcribe, Park, Dub, MergeChapter,
             CountChapters, EnqueueMerge, CompleteChapter, Shortcut, MarkEpisodeRunning, RefreshJob,
             Advance, StageFails, MirrorFailure, FailEpisode, Leased, WorkersOK, Fits, OfChapter,
             ChapterStage, Goto, Idle, AfterStage, rowVars
    <2>4. RowsStay
      BY <1>5, OutputsStay
    <2> QED  BY <2>1, <2>2, <2>4 DEF Alone, Leased, Bystands
  <1> QED  BY <1>2, <1>3, <1>4, <1>5, ReadsAllInEpisode DEF Next

\* Together, and from the start.
Whole == IInv /\ OneFanOut /\ OthersWait /\ MergeReadsAll /\ OneWhileCreating

LEMMA WholeInit == Init => Whole
  <1> SUFFICES ASSUME Init PROVE Whole
    OBVIOUS
  <1>1. IInv /\ OneFanOut
    BY IInvInit, OneFanOutInit
  <1>2. OthersWait
    BY DEF Init, OthersWait, OnlyTheFirst, AtWork, Leased, ChapterTask
  <1>3. MergeReadsAll /\ OneWhileCreating
    BY DEF Init, MergeReadsAll, FinalHasEveryChapter, OneWhileCreating
  <1> QED  BY <1>1, <1>2, <1>3 DEF Whole

LEMMA WholeStep == Whole /\ [Next]_vars => Whole'
  <1> SUFFICES ASSUME Whole, [Next]_vars PROVE Whole'
    OBVIOUS
  <1>1. CASE Next
    <2>1. IInv'
      BY <1>1, IInvStep DEF Whole
    <2> QED  BY <1>1, <2>1, OneFanOutStep, OthersWaitStep, ReadsAllStep DEF Whole
  <1>2. CASE UNCHANGED vars
    <2>1. IInv'
      BY <1>2, IInvStep DEF Whole
    <2>2. OneFanOut'
      BY <1>2 DEF Whole, OneFanOut, vars, rowVars, OneSeed, Open, OnTheWay, Untranscribed, SkipNeedsFailure,
         Troubled, TranscribedOnce, FanOutInStep, UndecidedWaits, Undecided, Waits, Chapter1Kept,
         OneRunner, Run, Doing, NoMergeYet, ParkedUnlessFailed
    <2>3. OthersWait'
      BY <1>2 DEF Whole, OthersWait, OnlyTheFirst, Open, OnTheWay, vars, rowVars
    <2>4. MergeReadsAll' /\ OneWhileCreating'
      BY <1>2 DEF Whole, vars, rowVars, MergeReadsAll, FinalHasEveryChapter, IsWhole, ShortSplit,
         OneWhileCreating
    <2> QED  BY <2>1, <2>2, <2>3, <2>4 DEF Whole
  <1> QED  BY <1>1, <1>2

\* The final video holds an output of every chapter, whatever tasks are duplicated,
\* retried or late: the merge never overtakes the fan-out, except that of a short
\* video, whose final video may be the first chapter alone.
THEOREM FinalIsWhole == Spec => []FinalHasEveryChapter
  <1>1. Whole => FinalHasEveryChapter
    BY DEF Whole, MergeReadsAll
  <1> QED  BY <1>1, WholeInit, WholeStep, PTL DEF Spec

-----------------------------------------------------------------------------
(* The fan-out reaches every chapter.                                      *)

CountsOK == failures \in Nat /\ slips \in Nat

\* Unless an episode task failed, every pending chapter has a worker that is going
\* to enqueue it.
Delivers(w, c) ==
  pc[w] \in {"create", "bump", "dispatch"} \/ (pc[w] = "fan" /\ seen[w].next <= c)

PendingIsDelivered ==
  slips = 0 => \A c \in DOMAIN chapter :
                 chapter[c].status = "pending" => \E w \in Worker : Delivers(w, c)

\* The steps that make or enqueue pending chapters, and those that drop them.
LEMMA OnlyCreatePends ==
  ASSUME IInv
  PROVE  /\ \A w \in Worker :
              Pop(w) \/ HandleChapter(w) \/ (HandleEpisode(w) /\ ~CreateChapterJob(w)) =>
                /\ DOMAIN chapter' = DOMAIN chapter
                /\ \A c \in DOMAIN chapter : chapter'[c].status = "pending" => chapter[c].status = "pending"
         /\ \A c \in DOMAIN chapter, s \in ChapterStage, skip \in BOOLEAN :
              RetryChapter(c, s, skip) =>
                /\ DOMAIN chapter' = DOMAIN chapter
                /\ \A d \in DOMAIN chapter : chapter'[d].status = "pending" => chapter[d].status = "pending"
  <1> DEFINE Fewer == /\ DOMAIN chapter' = DOMAIN chapter
                      /\ \A c \in DOMAIN chapter :
                           chapter'[c].status = "pending" => chapter[c].status = "pending"
  <1>0. /\ RowsOK
        /\ chapter \in Seq(Row)
        /\ \A c \in DOMAIN chapter : chapter[c] \in Row
        /\ UNCHANGED chapter => Fewer
    BY DEF IInv, RowsOK
  <1>1. ASSUME NEW c, NEW st, st # "pending", SetStatus(c, st) PROVE Fewer
    BY <1>0, <1>1, StatusAt
  <1>2. ASSUME NEW w \in Worker, Pop(w) PROVE Fewer
    BY <1>0, <1>2 DEF Pop, rowVars
  <1>3. ASSUME NEW c \in DOMAIN chapter, NEW s \in ChapterStage, NEW skip \in BOOLEAN,
               RetryChapter(c, s, skip)
        PROVE  Fewer
    <2>1. SetStatus(c, "queued")
      BY <1>3 DEF RetryChapter
    <2> QED  BY <1>1, <2>1
  <1>4. ASSUME NEW w \in Worker, HandleChapter(w) PROVE Fewer
    <2>1. CASE MergeChapter(w)
      <3> DEFINE d == task[w].ch
      <3>1. chapter' = [chapter EXCEPT ![d] = [chapter[d] EXCEPT !.version = @ + 1]]
        BY <2>1 DEF MergeChapter
      <3>2. \A c \in DOMAIN chapter : c # d => chapter'[c] = chapter[c]
        BY <1>0, <3>1
      <3>3. d \in DOMAIN chapter => chapter'[d] = [chapter[d] EXCEPT !.version = @ + 1]
        BY <1>0, <3>1
      <3> HIDE DEF d
      <3>4. d \in DOMAIN chapter => chapter'[d].status = chapter[d].status
        BY <1>0, <3>3 DEF Row
      <3>5. DOMAIN chapter' = DOMAIN chapter
        BY <1>4, LenKept
      <3> QED  BY <3>2, <3>4, <3>5
    <2>2. CASE \/ StartStage(w) \/ Park(w) \/ CompleteChapter(w) \/ Advance(w) \/ StageFails(w)
      <3>1. PICK c, st : st # "pending" /\ SetStatus(c, st)
        BY <2>2 DEF StartStage, Park, CompleteChapter, Advance, StageFails, EnqueueStage
      <3> QED  BY <1>1, <3>1
    <2>3. CASE \/ RequeueBusy(w) \/ Transcribe(w) \/ Dub(w) \/ CountChapters(w) \/ EnqueueMerge(w)
               \/ Shortcut(w) \/ MarkEpisodeRunning(w) \/ RefreshJob(w) \/ MirrorFailure(w)
               \/ FailEpisode(w)
      <3>1. UNCHANGED chapter
        BY <2>3 DEF RequeueBusy, Transcribe, Dub, CountChapters, EnqueueMerge, Shortcut,
           MarkEpisodeRunning, RefreshJob, MirrorFailure, FailEpisode, rowVars
      <3> QED  BY <1>0, <3>1
    <2> QED  BY <1>4, <2>1, <2>2, <2>3 DEF HandleChapter
  <1>5. ASSUME NEW w \in Worker, HandleEpisode(w), ~CreateChapterJob(w) PROVE Fewer
    <2>1. CASE ResumeChapter1(w) \/ FanOut(w)
      <3>1. PICK c : SetStatus(c, "queued")
        BY <2>1 DEF ResumeChapter1, FanOut, EnqueueStage
      <3> QED  BY <1>1, <3>1
    <2>2. CASE \/ ExtractGlossary(w) \/ EnqueueChapterize(w) \/ LoadEpisode(w) \/ DecideCuts(w)
               \/ NarrowChapter1(w) \/ BumpTotal(w) \/ DispatchEpisode(w) \/ CheckChapters(w)
               \/ Concat(w) \/ WriteFinal(w) \/ EmptyOutput(w) \/ Clamp(w) \/ RecordOutput(w)
               \/ MergeFails(w) \/ EpisodeStageFails(w)
      <3>1. UNCHANGED chapter
        BY <2>2 DEF ExtractGlossary, EnqueueChapterize, LoadEpisode, DecideCuts, NarrowChapter1,
           BumpTotal, DispatchEpisode, CheckChapters, Concat, WriteFinal, EmptyOutput, Clamp,
           RecordOutput, MergeFails,
           EpisodeStageFails, rowVars
      <3> QED  BY <1>0, <3>1
    <2> QED  BY <1>5, <2>1, <2>2 DEF HandleEpisode
  <1> QED  BY <1>2, <1>3, <1>4, <1>5

\* A failure of an episode task is counted, and no step forgets one.
LEMMA CountsStep ==
  ASSUME CountsOK, Next
  PROVE  /\ CountsOK'
         /\ slips' >= slips /\ (slips' = 0 => slips = 0)
         /\ failures' = 0 => failures = 0
         /\ \A w \in Worker : MergeFails(w) \/ EpisodeStageFails(w) => slips' # 0
         /\ \A w \in Worker : StageFails(w) => failures' # 0
  <1> DEFINE Same == UNCHANGED <<failures, slips>>
             More == \/ Same
                     \/ (slips' = slips + 1 /\ UNCHANGED failures)
                     \/ (failures' = failures + 1 /\ UNCHANGED slips)
  <1>1. ASSUME NEW w \in Worker, Pop(w) PROVE Same
    BY <1>1 DEF Pop, countVars
  <1>2. ASSUME NEW c \in DOMAIN chapter, NEW s \in ChapterStage, NEW skip \in BOOLEAN,
               RetryChapter(c, s, skip)
        PROVE  Same
    BY <1>2 DEF RetryChapter
  <1>3. ASSUME NEW w \in Worker, HandleChapter(w) PROVE More
    BY <1>3 DEF HandleChapter, StartStage, RequeueBusy, Transcribe, Park, Dub, MergeChapter,
       CountChapters, EnqueueMerge, CompleteChapter, Shortcut, MarkEpisodeRunning, RefreshJob,
       Advance, StageFails, MirrorFailure, FailEpisode, countVars
  <1>4. ASSUME NEW w \in Worker, HandleEpisode(w) PROVE More
    BY <1>4 DEF HandleEpisode, ExtractGlossary, EnqueueChapterize, LoadEpisode, DecideCuts,
       ResumeChapter1, NarrowChapter1, CreateChapterJob, BumpTotal, DispatchEpisode, FanOut,
       CheckChapters, Concat, WriteFinal, EmptyOutput, Clamp, RecordOutput, MergeFails,
       EpisodeStageFails, countVars
  <1>5. More
    BY <1>1, <1>2, <1>3, <1>4 DEF Next
  <1>6. /\ CountsOK' /\ slips' >= slips
        /\ (slips' = 0 => slips = 0) /\ (failures' = 0 => failures = 0)
    BY <1>5 DEF CountsOK
  <1>7. \A w \in Worker : MergeFails(w) \/ EpisodeStageFails(w) => slips' # 0
    BY DEF MergeFails, EpisodeStageFails, CountsOK
  <1>8. \A w \in Worker : StageFails(w) => failures' # 0
    BY DEF StageFails, CountsOK
  <1> QED  BY <1>6, <1>7, <1>8

\* A merge that has written the final video finds it on disk, unless another one is
\* writing it again or has failed on it; a failure is counted, or is about to be.
Published == final # <<>> \/ lost \/ \E w \in Worker : pc[w] = "write"
Written ==
  /\ \A w \in Worker : pc[w] \in {"clamp", "record"} => Published
  /\ epStatus = "completed" => Published
  /\ lost => final = <<>> /\ (slips > 0 \/ \E w \in Worker : pc[w] = "clamp")

\* The steps of other calls.
LEMMA OthersPublish ==
  ASSUME IInv, Written, CountsOK, CountsOK', NEW w \in Worker, Alone(w), UNCHANGED <<final, lost>>,
         pc[w] \notin {"write", "clamp"}, pc'[w] \notin {"clamp", "record"},
         slips' >= slips, epStatus' = "completed" => epStatus = "completed"
  PROVE  Written'
  <1>1. Published => Published'
    BY DEF Published, Alone
  <1>2. \A v \in Worker : pc'[v] \in {"clamp", "record"} => pc[v] \in {"clamp", "record"}
    BY DEF Alone
  <1>3. ASSUME lost' PROVE final' = <<>> /\ (slips' > 0 \/ \E v \in Worker : pc'[v] = "clamp")
    BY <1>3 DEF Written, Alone, CountsOK
  <1> HIDE DEF Published
  <1> QED  BY <1>1, <1>2, <1>3 DEF Written

LEMMA WrittenInChapter ==
  ASSUME IInv, Written, CountsOK, CountsOK', slips' >= slips, NEW w \in Worker,
         Pop(w) \/ HandleChapter(w)
  PROVE  Written'
  <1>0. Alone(w) /\ WorkersOK /\ QueueOK /\ RowsOK
    BY OthersStay DEF IInv
  <1>1. pc[w] \in {"idle", "start"} \cup Leased
    BY DEF Pop, HandleChapter, StartStage, RequeueBusy, Transcribe, Park, Dub, MergeChapter,
       CountChapters, EnqueueMerge, CompleteChapter, Shortcut, MarkEpisodeRunning, RefreshJob,
       Advance, StageFails, MirrorFailure, FailEpisode, Leased, ChapterStage
  <1>2. pc'[w] \notin {"clamp", "record"}
    <2>1. CASE Pop(w)
      <3>1. Head(ready) \in Ticket
        BY <1>0, <2>1, HeadTailProperties DEF QueueOK, Pop
      <3>2. Head(ready).ch = 0 => Head(ready).what \in EpisodeStage
        BY <3>1 DEF Ticket, OfChapter, OfEpisode
      <3> QED  BY <1>0, <2>1, <3>2 DEF Pop, Goto, WorkersOK, EpisodeStage
    <2>2. CASE HandleChapter(w)
      <3>1. Fits(task[w], pc[w])
        BY <1>0 DEF WorkersOK
      <3>2. pc'[w] \in Leased \cup {"idle"}
        BY <1>0, <2>2, <3>1
           DEF HandleChapter, StartStage, RequeueBusy, Transcribe, Park, Dub, MergeChapter,
               CountChapters, EnqueueMerge, CompleteChapter, Shortcut, MarkEpisodeRunning,
               RefreshJob, Advance, StageFails, MirrorFailure, FailEpisode, Leased, WorkersOK, Fits,
               OfChapter, ChapterStage, Goto, Idle, AfterStage
      <3> QED  BY <3>2 DEF Leased
    <2> QED  BY <2>1, <2>2
  <1>3. UNCHANGED <<final, lost>>
    BY DEF Pop, HandleChapter, StartStage, RequeueBusy, Transcribe, Park, Dub, MergeChapter,
       CountChapters, EnqueueMerge, CompleteChapter, Shortcut, MarkEpisodeRunning, RefreshJob,
       Advance, StageFails, MirrorFailure, FailEpisode, rowVars
  <1>4. epStatus' = "completed" => epStatus = "completed"
    <2>1. CASE MarkEpisodeRunning(w) \/ FailEpisode(w)
      BY <1>0, <2>1, OnlyCompletedCompletes
         DEF MarkEpisodeRunning, FailEpisode, RowsOK, EpisodeStatus
    <2>2. CASE ~MarkEpisodeRunning(w) /\ ~FailEpisode(w)
      BY <2>2 DEF Pop, HandleChapter, StartStage, RequeueBusy, Transcribe, Park, Dub, MergeChapter,
         CountChapters, EnqueueMerge, CompleteChapter, Shortcut, RefreshJob, Advance, StageFails,
         MirrorFailure, rowVars
    <2> QED  BY <2>1, <2>2
  <1>5. pc[w] \notin {"write", "clamp"}
    BY <1>1 DEF Leased
  <1> QED  BY <1>0, <1>2, <1>3, <1>4, <1>5, OthersPublish

LEMMA WrittenInEpisode ==
  ASSUME IInv, Written, CountsOK, CountsOK', slips' >= slips, NEW w \in Worker, HandleEpisode(w),
         MergeFails(w) => slips' > 0
  PROVE  Written'
  <1>0. Alone(w) /\ WorkersOK /\ RowsOK
    BY OthersStay DEF IInv
  <1> USE DEF Goto, Idle
  <1>1. CASE Concat(w)
    <2>1. pc'[w] = "write" /\ final' = <<>> /\ UNCHANGED <<lost, epStatus>>
      BY <1>0, <1>1 DEF Concat, WorkersOK
    <2>2. Published'
      BY <2>1 DEF Published
    <2>3. pc[w] = "concat"
      BY <1>1 DEF Concat
    <2>4. lost' => slips' > 0 \/ \E v \in Worker : pc'[v] = "clamp"
      BY <1>0, <2>1, <2>3 DEF Written, Alone, CountsOK
    <2> QED  BY <2>1, <2>2, <2>4 DEF Written
  <1>2. CASE WriteFinal(w)
    <2>1. final' # <<>> /\ lost' = FALSE
      <3>1. seen[w].count \in Nat /\ seen[w].count >= 1
        BY <1>0, <1>2 DEF WriteFinal, IInv, MergeHasChapters, WorkersOK, Reading
      <3>2. 1 \in DOMAIN final'
        BY <1>2, <3>1 DEF WriteFinal
      <3> QED  BY <1>2, <3>2 DEF WriteFinal
    <2> QED  BY <2>1 DEF Written, Published
  <1>3. CASE EmptyOutput(w)
    <2>1. pc'[w] = "clamp" /\ final' = <<>> /\ lost' = TRUE
      BY <1>0, <1>3 DEF EmptyOutput, WorkersOK
    <2> QED  BY <2>1 DEF Written, Published
  <1>4. CASE Clamp(w)
    <2>1. final' # <<>> /\ ~lost'
      BY <1>4 DEF Clamp, rowVars, Written
    <2> QED  BY <2>1 DEF Written, Published
  <1>5. CASE RecordOutput(w)
    <2>1. pc[w] = "record" /\ pc'[w] = "idle" /\ UNCHANGED <<final, lost>>
      BY <1>0, <1>5 DEF RecordOutput, WorkersOK
    <2>2. Published'
      <3>1. Published
        BY <2>1 DEF Written
      <3> QED  BY <1>0, <2>1, <3>1 DEF Published, Alone
    <2>3. lost' => final' = <<>> /\ (slips' > 0 \/ \E v \in Worker : pc'[v] = "clamp")
      BY <1>0, <2>1 DEF Written, Alone, CountsOK
    <2> QED  BY <2>2, <2>3 DEF Written
  <1>6. CASE MergeFails(w)
    <2>1. /\ pc'[w] = "idle" /\ slips' > 0
          /\ final' \in IF pc[w] = "write" THEN {final, <<>>} ELSE {final}
          /\ lost' = (lost \/ (pc[w] = "write" /\ final' = <<>>))
      BY <1>0, <1>6 DEF MergeFails, WorkersOK
    <2>2. Published => Published'
      <3>1. CASE pc[w] = "write"
        BY <2>1, <3>1 DEF Published
      <3>2. CASE pc[w] # "write"
        BY <1>0, <2>1, <3>2 DEF Published, Alone
      <3> QED  BY <3>1, <3>2
    <2>3. epStatus' = "completed" => epStatus = "completed"
      BY <1>0, <1>6, OnlyCompletedCompletes DEF MergeFails, RowsOK, EpisodeStatus
    <2>4. \A v \in Worker : pc'[v] \in {"clamp", "record"} => pc[v] \in {"clamp", "record"}
      BY <1>0, <2>1 DEF Alone
    <2>5. lost' => final' = <<>>
      BY <2>1 DEF Written
    <2> HIDE DEF Published
    <2> QED  BY <2>1, <2>2, <2>3, <2>4, <2>5 DEF Written
  <1>7. CASE \/ ExtractGlossary(w) \/ EnqueueChapterize(w) \/ LoadEpisode(w) \/ DecideCuts(w)
             \/ ResumeChapter1(w) \/ NarrowChapter1(w) \/ CreateChapterJob(w) \/ BumpTotal(w)
             \/ DispatchEpisode(w) \/ FanOut(w) \/ CheckChapters(w) \/ EpisodeStageFails(w)
    <2>1. pc[w] \notin {"write", "clamp"} /\ pc'[w] \notin {"clamp", "record"}
      BY <1>0, <1>7 DEF ExtractGlossary, EnqueueChapterize, LoadEpisode, DecideCuts, ResumeChapter1,
         NarrowChapter1, CreateChapterJob, BumpTotal, DispatchEpisode, FanOut, CheckChapters,
         EpisodeStageFails, EpisodeStep, MergeStep, WorkersOK
    <2>2. UNCHANGED <<final, lost>>
      BY <1>7 DEF ExtractGlossary, EnqueueChapterize, LoadEpisode, DecideCuts, ResumeChapter1,
         NarrowChapter1, CreateChapterJob, BumpTotal, DispatchEpisode, FanOut, CheckChapters,
         EpisodeStageFails, rowVars
    <2>3. epStatus' = "completed" => epStatus = "completed"
      <3>1. CASE DecideCuts(w) \/ DispatchEpisode(w)
        BY <1>0, <3>1, OnlyCompletedCompletes
           DEF DecideCuts, DispatchEpisode, RowsOK, EpisodeStatus
      <3>2. CASE ~DecideCuts(w) /\ ~DispatchEpisode(w)
        BY <1>7, <3>2 DEF ExtractGlossary, EnqueueChapterize, LoadEpisode, ResumeChapter1,
           NarrowChapter1, CreateChapterJob, BumpTotal, FanOut, CheckChapters, EpisodeStageFails,
           rowVars
      <3> QED  BY <3>1, <3>2
    <2> QED  BY <1>0, <2>1, <2>2, <2>3, OthersPublish
  <1> QED  BY <1>1, <1>2, <1>3, <1>4, <1>5, <1>6, <1>7 DEF HandleEpisode

LEMMA WrittenStep ==
  ASSUME IInv, Written, CountsOK, Next
  PROVE  Written'
  <1>1. /\ CountsOK' /\ slips' >= slips
        /\ \A w \in Worker : MergeFails(w) => slips' > 0
    BY CountsStep DEF CountsOK
  <1>2. ASSUME NEW c \in DOMAIN chapter, NEW s \in ChapterStage, NEW skip \in BOOLEAN,
               RetryChapter(c, s, skip)
        PROVE  Written'
    BY <1>2 DEF RetryChapter, Written, Published
  <1> QED  BY <1>1, <1>2, WrittenInChapter, WrittenInEpisode DEF Next

Safe == IInv /\ CountsOK /\ Written

LEMMA SafeInit == Init => Safe
  <1> SUFFICES ASSUME Init PROVE Safe
    OBVIOUS
  <1>1. IInv
    BY IInvInit
  <1>2. CountsOK /\ Written
    BY DEF Init, CountsOK, Written
  <1> QED  BY <1>1, <1>2 DEF Safe

LEMMA SafeStep == Safe /\ [Next]_vars => Safe'
  <1> SUFFICES ASSUME Safe, [Next]_vars PROVE Safe'
    OBVIOUS
  <1>1. IInv'
    BY IInvStep DEF Safe
  <1>2. CASE Next
    BY <1>1, <1>2, CountsStep, WrittenStep DEF Safe
  <1>3. CASE UNCHANGED vars
    BY <1>1, <1>3 DEF Safe, CountsOK, Written, Published, vars, rowVars, countVars
  <1> QED  BY <1>2, <1>3

\* A completed episode has its final video, however many workers merge it, repair
\* its chapters or fail at the same time: except while a merge is writing it again,
\* and after such a merge has failed on it.
THEOREM CompletedEpisodesArePublished == Spec => []CompletedIsPublished
  <1>1. Safe => CompletedIsPublished
    BY DEF Safe, Written, Published, CompletedIsPublished
  <1> QED  BY <1>1, SafeInit, SafeStep, PTL DEF Spec

LEMMA DeliveredStep ==
  ASSUME IInv, OneFanOut, CountsOK, PendingIsDelivered, Next
  PROVE  PendingIsDelivered'
  <1> SUFFICES ASSUME slips' = 0, NEW c \in DOMAIN chapter', chapter'[c].status = "pending"
               PROVE  \E v \in Worker : Delivers(v, c)'
    BY DEF PendingIsDelivered
  <1>0. WorkersOK /\ RowsOK /\ slips = 0 /\ DOMAIN chapter = 1..Len(chapter) /\ Len(chapter) \in Nat
    BY CountsStep DEF IInv, RowsOK
  <1> USE DEF Goto, Idle
  <1>1. ASSUME NEW d \in DOMAIN chapter, NEW s \in ChapterStage, NEW skip \in BOOLEAN,
               RetryChapter(d, s, skip)
        PROVE  \E v \in Worker : Delivers(v, c)'
    <2>1. c \in DOMAIN chapter /\ chapter[c].status = "pending"
      BY <1>1, OnlyCreatePends
    <2>2. PICK v \in Worker : Delivers(v, c)
      BY <1>0, <2>1 DEF PendingIsDelivered
    <2> QED  BY <1>1, <2>2 DEF RetryChapter, Delivers
  <1>2. ASSUME NEW w \in Worker, Pop(w) \/ HandleChapter(w)
        PROVE  \E v \in Worker : Delivers(v, c)'
    <2>1. c \in DOMAIN chapter /\ chapter[c].status = "pending"
      BY <1>2, OnlyCreatePends
    <2>2. PICK v \in Worker : Delivers(v, c)
      BY <1>0, <2>1 DEF PendingIsDelivered
    <2>3. Alone(w)
      BY <1>2, OthersStay
    <2>4. pc[w] \in {"idle", "start"} \cup Leased
      BY <1>2 DEF Pop, HandleChapter, StartStage, RequeueBusy, Transcribe, Park, Dub, MergeChapter,
       CountChapters, EnqueueMerge, CompleteChapter, Shortcut, MarkEpisodeRunning, RefreshJob,
       Advance, StageFails, MirrorFailure, FailEpisode, Leased, ChapterStage
    <2>5. v # w
      BY <2>2, <2>4 DEF Delivers, Leased
    <2> QED  BY <2>2, <2>3, <2>5 DEF Alone, Delivers
  <1>3. ASSUME NEW w \in Worker, HandleEpisode(w)
        PROVE  \E v \in Worker : Delivers(v, c)'
    <2>0. Alone(w) /\ seen[w] \in Reading
      BY <1>0, <1>3, OthersStay DEF WorkersOK
    <2>1. CASE CreateChapterJob(w)
      <3>1. pc'[w] \in {"create", "bump"}
        BY <1>0, <2>1 DEF CreateChapterJob, WorkersOK
      <3> QED  BY <3>1 DEF Delivers
    <2>2. CASE ~CreateChapterJob(w)
      <3>1. c \in DOMAIN chapter /\ chapter[c].status = "pending"
        BY <1>3, <2>2, OnlyCreatePends
      <3>2. PICK v \in Worker : Delivers(v, c)
        BY <1>0, <3>1 DEF PendingIsDelivered
      <3>3. CASE v # w
        BY <2>0, <3>2, <3>3 DEF Alone, Delivers
      <3>4. CASE v = w
        <4>1. pc[w] \in {"create", "bump", "dispatch"} \/ (pc[w] = "fan" /\ seen[w].next <= c)
          BY <3>2, <3>4 DEF Delivers
        <4>2. CASE BumpTotal(w)
          BY <1>0, <4>2 DEF BumpTotal, WorkersOK, Delivers
        <4>3. CASE DispatchEpisode(w)
          <5>1. pc'[w] = "fan" /\ seen'[w].next = 1
            BY <1>0, <2>0, <4>3 DEF DispatchEpisode, WorkersOK, Reading
          <5> QED  BY <1>0, <3>1, <5>1 DEF Delivers
        <4>4. CASE FanOut(w)
          <5>1. /\ pc[w] = "fan" /\ seen[w].next <= c /\ Len(chapter) = seen[w].cuts
                /\ seen[w].next \in Nat
            BY <2>0, <4>1, <4>4 DEF FanOut, OneFanOut, FanOutInStep, Reading
          <5>2. c # seen[w].next
            <6>1. SetStatus(seen[w].next, "queued")
              BY <4>4 DEF FanOut, EnqueueStage
            <6>2. seen[w].next \in DOMAIN chapter => chapter'[seen[w].next].status = "queued"
              BY <1>0, <6>1, StatusAt
            <6> QED  BY <3>1, <6>2
          <5>3. c <= seen[w].cuts /\ c \in Nat
            BY <1>0, <3>1, <5>1
          <5>4. seen[w].next # seen[w].cuts
            BY <5>1, <5>2, <5>3
          <5>5. pc'[w] = "fan" /\ seen'[w].next = seen[w].next + 1
            BY <1>0, <2>0, <4>4, <5>1, <5>4 DEF FanOut, WorkersOK, Reading
          <5>6. seen'[w].next <= c
            BY <5>1, <5>2, <5>3, <5>5
          <5> QED  BY <5>5, <5>6 DEF Delivers
        <4>5. ~EpisodeStageFails(w) /\ ~MergeFails(w)
          BY CountsStep
        <4>6. ~CreateChapterJob(w)
          BY <2>2
        <4> QED  BY <1>3, <4>1, <4>2, <4>3, <4>4, <4>5, <4>6
              DEF HandleEpisode, ExtractGlossary, EnqueueChapterize, LoadEpisode, DecideCuts,
              ResumeChapter1, NarrowChapter1, CheckChapters, Concat, WriteFinal, EmptyOutput,
              Clamp, RecordOutput
      <3> QED  BY <3>3, <3>4
    <2> QED  BY <2>1, <2>2
  <1> QED  BY <1>1, <1>2, <1>3 DEF Next

Reached == Whole /\ CountsOK /\ PendingIsDelivered

LEMMA ReachedInit == Init => Reached
  <1> SUFFICES ASSUME Init PROVE Reached
    OBVIOUS
  <1>1. Whole
    BY WholeInit
  <1>2. CountsOK /\ PendingIsDelivered
    BY DEF Init, CountsOK, PendingIsDelivered
  <1> QED  BY <1>1, <1>2 DEF Reached

LEMMA ReachedStep == Reached /\ [Next]_vars => Reached'
  <1> SUFFICES ASSUME Reached, [Next]_vars PROVE Reached'
    OBVIOUS
  <1>0. Whole'
    BY WholeStep DEF Reached
  <1>1. CASE Next
    BY <1>0, <1>1, CountsStep, DeliveredStep DEF Reached, Whole
  <1>2. CASE UNCHANGED vars
    BY <1>0, <1>2 DEF Reached, CountsOK, PendingIsDelivered, Delivers, vars, rowVars, countVars
  <1> QED  BY <1>1, <1>2

\* The fan-out reaches every chapter: unless an episode task failed, no chapter is
\* left pending when nothing is left to do, for any number of chapters and workers.
THEOREM FanOutIsComplete == Spec => []FanOutReachesAll
  <1>1. Reached => FanOutReachesAll
    BY DEF Reached, PendingIsDelivered, FanOutReachesAll, Quiet, Delivers
  <1> QED  BY <1>1, ReachedInit, ReachedStep, PTL DEF Spec

-----------------------------------------------------------------------------
(* The fan-in is not missed.                                               *)

\* Who completes a chapter, gives it an output, publishes the video, sets the
\* total, fails the episode or is about to.
OnlyTheseEnd(w) ==
  /\ ~CompleteChapter(w) => (AllCompleted' => AllCompleted)
  /\ ~MergeChapter(w) =>
       ((\A c \in DOMAIN chapter' : chapter'[c].version > 0) =>
          \A c \in DOMAIN chapter : chapter[c].version > 0)

LEMMA WhoEnds ==
  ASSUME IInv, NEW w \in Worker, Pop(w) \/ HandleChapter(w) \/ HandleEpisode(w)
  PROVE  OnlyTheseEnd(w)
  <1> DEFINE Same == /\ DOMAIN chapter \subseteq DOMAIN chapter'
                     /\ \A c \in DOMAIN chapter :
                          /\ chapter'[c].status = "completed" => chapter[c].status = "completed"
                          /\ chapter'[c].version = chapter[c].version
  <1>0. /\ RowsOK
        /\ \A c \in DOMAIN chapter : chapter[c] \in Row
        /\ UNCHANGED chapter => Same
    BY DEF IInv, RowsOK
  <1>1. ASSUME NEW c, NEW st, st # "completed", SetStatus(c, st) PROVE Same
    BY <1>0, <1>1, StatusAt
  <1>2. Same => OnlyTheseEnd(w)
    BY DEF OnlyTheseEnd, AllCompleted
  <1> HIDE DEF Same
  <1>3. CASE CompleteChapter(w)
    <2>1. ~MergeChapter(w)
      BY <1>3 DEF CompleteChapter, MergeChapter
    <2>2. SetStatus(task[w].ch, "completed")
      BY <1>3 DEF CompleteChapter
    <2>3. /\ DOMAIN chapter' = DOMAIN chapter
          /\ \A c \in DOMAIN chapter : chapter'[c].version = chapter[c].version
      BY <1>0, <2>2, StatusAt
    <2> QED  BY <1>3, <2>1, <2>3 DEF OnlyTheseEnd
  <1>4. CASE MergeChapter(w)
    <2> DEFINE d == task[w].ch
    <2>1. chapter' = [chapter EXCEPT ![d] = [chapter[d] EXCEPT !.version = @ + 1]]
      BY <1>4 DEF MergeChapter
    <2>2. \A c \in DOMAIN chapter : c # d => chapter'[c] = chapter[c]
      BY <1>0, <2>1
    <2>3. d \in DOMAIN chapter => chapter'[d] = [chapter[d] EXCEPT !.version = @ + 1]
      BY <1>0, <2>1
    <2> HIDE DEF d
    <2>4. d \in DOMAIN chapter => chapter'[d].status = chapter[d].status
      BY <1>0, <2>3 DEF Row
    <2>5. DOMAIN chapter' = DOMAIN chapter
      BY <1>4, LenKept DEF HandleChapter
    <2>6. AllCompleted' => AllCompleted
      BY <2>2, <2>4, <2>5 DEF AllCompleted
    <2> QED  BY <1>4, <2>6 DEF OnlyTheseEnd
  <1>5. CASE \/ StartStage(w) \/ Park(w) \/ Advance(w) \/ StageFails(w) \/ ResumeChapter1(w) \/ FanOut(w)
    <2>1. PICK c, st : st # "completed" /\ SetStatus(c, st)
      BY <1>5 DEF StartStage, Park, Advance, StageFails, ResumeChapter1, FanOut, EnqueueStage
    <2> QED  BY <1>1, <1>2, <2>1
  <1>6. CASE \/ Pop(w) \/ RequeueBusy(w) \/ Transcribe(w) \/ Dub(w) \/ CountChapters(w)
             \/ EnqueueMerge(w) \/ Shortcut(w) \/ MarkEpisodeRunning(w) \/ RefreshJob(w)
             \/ MirrorFailure(w) \/ FailEpisode(w)
             \/ ExtractGlossary(w) \/ EnqueueChapterize(w) \/ LoadEpisode(w) \/ DecideCuts(w)
             \/ NarrowChapter1(w) \/ BumpTotal(w) \/ DispatchEpisode(w) \/ CheckChapters(w)
             \/ Concat(w) \/ WriteFinal(w) \/ EmptyOutput(w) \/ Clamp(w) \/ RecordOutput(w)
             \/ MergeFails(w) \/ EpisodeStageFails(w)
    <2>1. UNCHANGED chapter
      BY <1>6 DEF Pop, RequeueBusy, Transcribe, Dub, CountChapters, EnqueueMerge, Shortcut,
         MarkEpisodeRunning, RefreshJob, MirrorFailure, FailEpisode, ExtractGlossary,
         EnqueueChapterize, LoadEpisode, DecideCuts, NarrowChapter1, BumpTotal, DispatchEpisode,
         CheckChapters, Concat, WriteFinal, EmptyOutput, Clamp, RecordOutput, MergeFails,
         EpisodeStageFails, rowVars
    <2> QED  BY <1>0, <1>2, <2>1
  <1>7. CASE CreateChapterJob(w)
    <2>1. Same
      BY <1>0, <1>7, ChapterAdded DEF Same
    <2> QED  BY <1>2, <2>1
  <1> QED  BY <1>3, <1>4, <1>5, <1>6, <1>7 DEF HandleChapter, HandleEpisode

\* Who fails the episode, or is about to; who sets its total and its video.
LEMMA WhoFails ==
  ASSUME IInv, NEW w \in Worker, Pop(w) \/ HandleChapter(w) \/ HandleEpisode(w)
  PROVE  /\ epStatus' = "failed" =>
              FailEpisode(w) \/ MergeFails(w) \/ (epStatus = "failed" /\ ~DispatchEpisode(w))
         /\ pc'[w] = "mirror" => StageFails(w)
         /\ pc'[w] = "fail_ep" => MirrorFailure(w) /\ ~(total > 1)
         /\ total' = total \/ BumpTotal(w)
         /\ final' = <<>> => final = <<>> \/ Concat(w) \/ EmptyOutput(w) \/ MergeFails(w)
  <1>0. /\ WorkersOK /\ RowsOK /\ seen[w] \in Reading /\ Fits(task[w], pc[w])
        /\ epStatus \in EpisodeStatus
    BY DEF IInv, RowsOK, WorkersOK
  <1> USE DEF Goto, Idle, AfterStage
  <1>1. ASSUME NEW to \in EpisodeStatus \ {"failed"}, UpdateEpisodeStatus(to)
        PROVE  epStatus' = "failed" => epStatus = "failed"
    BY <1>1 DEF UpdateEpisodeStatus
  <1>2. UpdateEpisodeStatus("dispatched") => epStatus' # "failed"
    BY <1>0 DEF UpdateEpisodeStatus, Allowed, EpisodeStatus
  <1>3. CASE Pop(w)
    <2>1. Head(ready) \in Ticket
      BY <1>3, HeadTailProperties DEF IInv, QueueOK, Pop
    <2>2. pc'[w] \in {"start"} \cup EpisodeStage
      BY <1>0, <1>3, <2>1 DEF Pop, WorkersOK, Ticket, OfChapter, OfEpisode
    <2>3. UNCHANGED rowVars /\ ~DispatchEpisode(w)
      BY <1>3 DEF Pop, DispatchEpisode
    <2> QED  BY <2>2, <2>3 DEF EpisodeStage, rowVars
  <1>4. CASE HandleChapter(w)
    <2>1. UNCHANGED <<total, final>> /\ ~DispatchEpisode(w)
      BY <1>4 DEF HandleChapter, StartStage, RequeueBusy, Transcribe, Park, Dub, MergeChapter,
             CountChapters, EnqueueMerge, CompleteChapter, Shortcut, MarkEpisodeRunning, RefreshJob,
             Advance, StageFails, MirrorFailure, FailEpisode, rowVars, DispatchEpisode, Leased,
             ChapterStage
    <2>2. CASE MirrorFailure(w)
      BY <1>0, <2>1, <2>2 DEF MirrorFailure, WorkersOK, rowVars
    <2>3. CASE StageFails(w)
      BY <1>0, <2>1, <2>3 DEF StageFails, WorkersOK
    <2>4. CASE FailEpisode(w)
      BY <1>0, <2>1, <2>4 DEF FailEpisode, WorkersOK
    <2>5. CASE MarkEpisodeRunning(w)
      <3>1. epStatus' = "failed" => epStatus = "failed"
        BY <1>1, <2>5 DEF MarkEpisodeRunning, EpisodeStatus
      <3>2. pc'[w] = "recount"
        BY <1>0, <2>5 DEF MarkEpisodeRunning, WorkersOK
      <3> QED  BY <2>1, <3>1, <3>2
    <2>6. CASE \/ StartStage(w) \/ RequeueBusy(w) \/ Transcribe(w) \/ Park(w) \/ Dub(w)
               \/ MergeChapter(w) \/ CountChapters(w) \/ EnqueueMerge(w) \/ CompleteChapter(w)
               \/ Shortcut(w) \/ RefreshJob(w) \/ Advance(w)
      <3>1. UNCHANGED epStatus
        BY <2>6 DEF StartStage, RequeueBusy, Transcribe, Park, Dub, MergeChapter,
             CountChapters, EnqueueMerge, CompleteChapter, Shortcut, RefreshJob, Advance, rowVars
      <3>2. pc'[w] \notin {"mirror", "fail_ep"}
        BY <1>0, <2>6 DEF StartStage, RequeueBusy, Transcribe, Park, Dub, MergeChapter,
             CountChapters, EnqueueMerge, CompleteChapter, Shortcut, RefreshJob, Advance,
             WorkersOK, Fits, OfChapter, ChapterStage, Leased
      <3> QED  BY <2>1, <3>1, <3>2
    <2> QED  BY <1>4, <2>2, <2>3, <2>4, <2>5, <2>6 DEF HandleChapter
  <1>5. CASE HandleEpisode(w)
    <2>1. pc'[w] \notin {"mirror", "fail_ep"}
      BY <1>0, <1>5 DEF HandleEpisode, ExtractGlossary, EnqueueChapterize, LoadEpisode, DecideCuts,
         ResumeChapter1, NarrowChapter1, CreateChapterJob, BumpTotal, DispatchEpisode, FanOut,
         CheckChapters, Concat, WriteFinal, EmptyOutput, Clamp, RecordOutput, MergeFails,
         EpisodeStageFails, WorkersOK
    <2>2. total' = total \/ BumpTotal(w)
      BY <1>5 DEF HandleEpisode, ExtractGlossary, EnqueueChapterize, LoadEpisode, DecideCuts,
         ResumeChapter1, NarrowChapter1, CreateChapterJob, DispatchEpisode, FanOut,
         CheckChapters, Concat, WriteFinal, EmptyOutput, Clamp, RecordOutput, MergeFails,
         EpisodeStageFails, rowVars
    <2>3. final' = <<>> => final = <<>> \/ Concat(w) \/ EmptyOutput(w) \/ MergeFails(w)
      <3>1. CASE WriteFinal(w)
        <4>1. seen[w].count >= 1 /\ seen[w].count \in Nat /\ DOMAIN final' = 1..seen[w].count
          BY <1>0, <3>1 DEF WriteFinal, IInv, MergeHasChapters, Reading
        <4>2. 1 \in DOMAIN final'
          BY <4>1
        <4> QED  BY <4>2
      <3>2. CASE ~WriteFinal(w)
        BY <1>5, <3>2 DEF HandleEpisode, ExtractGlossary, EnqueueChapterize, LoadEpisode, DecideCuts,
         ResumeChapter1, NarrowChapter1, CreateChapterJob, BumpTotal, DispatchEpisode, FanOut,
         CheckChapters, Clamp, RecordOutput, EpisodeStageFails, rowVars
      <3> QED  BY <3>1, <3>2
    <2>4. epStatus' = "failed" => MergeFails(w) \/ (epStatus = "failed" /\ ~DispatchEpisode(w))
      <3>1. CASE DispatchEpisode(w)
        BY <1>2, <3>1 DEF DispatchEpisode
      <3>2. CASE DecideCuts(w)
        BY <1>1, <3>2 DEF DecideCuts, DispatchEpisode, EpisodeStatus
      <3>3. CASE RecordOutput(w)
        BY <1>1, <3>3 DEF RecordOutput, DispatchEpisode, EpisodeStatus
      <3>4. CASE \/ ExtractGlossary(w) \/ EnqueueChapterize(w) \/ LoadEpisode(w) \/ ResumeChapter1(w)
                 \/ NarrowChapter1(w) \/ CreateChapterJob(w) \/ BumpTotal(w) \/ FanOut(w)
                 \/ CheckChapters(w) \/ Concat(w) \/ WriteFinal(w) \/ EmptyOutput(w)
                 \/ Clamp(w) \/ EpisodeStageFails(w)
        <4>1. UNCHANGED epStatus /\ ~DispatchEpisode(w)
          BY <3>4 DEF ExtractGlossary, EnqueueChapterize, LoadEpisode, ResumeChapter1,
             NarrowChapter1, CreateChapterJob, BumpTotal, FanOut, CheckChapters, Concat,
             WriteFinal, EmptyOutput, Clamp,
             EpisodeStageFails, rowVars, DispatchEpisode, EpisodeStep
        <4> QED  BY <4>1
      <3> QED  BY <1>5, <3>1, <3>2, <3>3, <3>4 DEF HandleEpisode
    <2> QED  BY <2>1, <2>2, <2>3, <2>4
  <1> QED  BY <1>3, <1>4, <1>5

\* Without a failure of a chapter stage or an episode task the episode has not failed.
FailureNoted ==
  failures = 0 => /\ \A w \in Worker : pc[w] \notin {"mirror", "fail_ep"}
                  /\ slips = 0 => epStatus # "failed"

\* An episode of several chapters has their rows, and its fan-out is done or about
\* to dispatch it.
Dispatching ==
  total > 1 => /\ Len(chapter) > 1
               /\ Open => \E w \in Worker : pc[w] = "dispatch"

\* Once it is done no failure of a chapter fails the episode.
FailsNoMore ==
  long /\ total > 1 /\ ~Open /\ slips = 0 =>
    epStatus # "failed" /\ \A w \in Worker : pc[w] # "fail_ep"

\* Every chapter is ready, and none of the failures has kept the merge away.
Ripe ==
  /\ AllCompleted
  /\ \A c \in DOMAIN chapter : chapter[c].version > 0
  /\ slips = 0
  /\ failures = 0 \/ (total > 1 /\ long)
  /\ final = <<>>

\* The merge is queued, under way, or a worker is going to ask for it; or one has
\* written a video that is gone, and is about to notice.
Asks(w) == pc[w] \in {"count", "enqueue", "shortcut", "running", "recount", "reenqueue",
                      "ep_merge", "concat", "write", "clamp"}
Coming == (\E i \in DOMAIN ready : ready[i].what = "ep_merge") \/ \E w \in Worker : Asks(w)

MergeIsComing == Ripe => Coming

LEMMA FailureNotedStep ==
  ASSUME IInv, CountsOK, FailureNoted, Next
  PROVE  FailureNoted'
  <1> SUFFICES ASSUME failures' = 0
               PROVE  /\ \A v \in Worker : pc'[v] \notin {"mirror", "fail_ep"}
                      /\ slips' = 0 => epStatus' # "failed"
    BY DEF FailureNoted
  <1>0. /\ failures = 0
        /\ slips' = 0 => slips = 0
        /\ \A w \in Worker : ~StageFails(w) /\ (MergeFails(w) => slips' # 0)
    BY CountsStep
  <1>1. /\ \A v \in Worker : pc[v] \notin {"mirror", "fail_ep"}
        /\ slips = 0 => epStatus # "failed"
    BY <1>0 DEF FailureNoted
  <1>2. ASSUME NEW w \in Worker, Pop(w) \/ HandleChapter(w) \/ HandleEpisode(w)
        PROVE  /\ \A v \in Worker : pc'[v] \notin {"mirror", "fail_ep"}
               /\ slips' = 0 => epStatus' # "failed"
    <2>1. Alone(w)
      BY <1>2, OthersStay
    <2>2. ~MirrorFailure(w) /\ ~FailEpisode(w)
      BY <1>1 DEF MirrorFailure, FailEpisode
    <2>3. pc'[w] \notin {"mirror", "fail_ep"} /\ (slips' = 0 => epStatus' # "failed")
      BY <1>0, <1>1, <1>2, <2>2, WhoFails
    <2> QED  BY <1>1, <2>1, <2>3 DEF Alone
  <1>3. ASSUME NEW c \in DOMAIN chapter, NEW s \in ChapterStage, NEW skip \in BOOLEAN,
               RetryChapter(c, s, skip)
        PROVE  UNCHANGED <<epStatus, pc>>
    BY <1>3 DEF RetryChapter
  <1> QED  BY <1>0, <1>1, <1>2, <1>3 DEF Next

LEMMA DispatchingStep ==
  ASSUME IInv, OneFanOut, Dispatching, Next
  PROVE  Dispatching'
  <1> SUFFICES ASSUME total' > 1
               PROVE  Len(chapter') > 1 /\ (Open' => \E v \in Worker : pc'[v] = "dispatch")
    BY DEF Dispatching
  <1>0. WorkersOK /\ RowsOK /\ Len(chapter) \in Nat
    BY DEF IInv, RowsOK
  <1>1. Len(chapter') >= Len(chapter)
    <2>1. ASSUME NEW w \in Worker, CreateChapterJob(w) PROVE Len(chapter') >= Len(chapter)
      BY <1>0, <2>1, ChapterAdded
    <2>2. CASE \A w \in Worker : ~CreateChapterJob(w)
      <3>1. Len(chapter') = Len(chapter)
        BY <2>2, OutputsStay DEF Next, RowsStay
      <3> QED  BY <1>0, <3>1
    <2> QED  BY <2>1, <2>2
  <1>2. ASSUME NEW w \in Worker, BumpTotal(w)
        PROVE  Len(chapter') > 1 /\ pc'[w] = "dispatch"
    BY <1>0, <1>2 DEF BumpTotal, OneFanOut, FanOutInStep, WorkersOK, Goto
  <1>3. CASE total' = total
    <2>1. Len(chapter) > 1 /\ (Open => \E v \in Worker : pc[v] = "dispatch") /\ transcribed
      BY <1>3 DEF Dispatching, OneFanOut, Untranscribed
    <2>2. Len(chapter') > 1
      BY <1>0, <1>1, <2>1
    <2>3. Open' => Open
      BY <2>1, SeedStep DEF OneFanOut
    <2>4. ASSUME Open' PROVE \E v \in Worker : pc'[v] = "dispatch"
      <3>1. PICK v \in Worker : pc[v] = "dispatch"
        BY <2>1, <2>3, <2>4
      <3>2. OnTheWay(v) /\ OneSeed /\ OneSeed'
        BY <3>1, SeedStep DEF OnTheWay, OneFanOut
      <3>3. ASSUME NEW w \in Worker, Pop(w) \/ HandleChapter(w) \/ HandleEpisode(w)
            PROVE  \E u \in Worker : pc'[u] = "dispatch"
        <4>1. Alone(w)
          BY <3>3, OthersStay
        <4>2. CASE w # v
          BY <3>1, <4>1, <4>2 DEF Alone
        <4>3. CASE w = v
          <5>1. DispatchEpisode(w)
            BY <3>1, <3>3, <4>3 DEF Pop, HandleChapter, StartStage, RequeueBusy, Transcribe,
             Park, Dub, MergeChapter, CountChapters, EnqueueMerge, CompleteChapter, Shortcut,
             MarkEpisodeRunning, RefreshJob,
             Advance, StageFails, MirrorFailure, FailEpisode, ChapterStage, HandleEpisode,
             ExtractGlossary, EnqueueChapterize, LoadEpisode, DecideCuts, ResumeChapter1,
             NarrowChapter1, CreateChapterJob, BumpTotal, FanOut, CheckChapters, Concat,
             WriteFinal, EmptyOutput, Clamp,
             RecordOutput, MergeFails, EpisodeStageFails
          <5>2. pc'[w] = "fan" /\ ready' = ready /\ task' = task
            BY <1>0, <5>1 DEF DispatchEpisode, WorkersOK, Goto
          <5>3. ~OnTheWay(w)'
            BY <5>2 DEF OnTheWay
          <5>4. \A u \in Worker \ {w} : ~OnTheWay(u)'
            BY <3>2, <4>1, <4>3 DEF OneSeed, Alone, OnTheWay
          <5>5. \A i \in DOMAIN ready' : ~Seed(ready'[i])
            BY <3>2, <4>3, <5>2 DEF OneSeed
          <5>6. ~Open'
            BY <5>3, <5>4, <5>5 DEF Open, Seed
          <5> QED  BY <2>4, <5>6
        <4> QED  BY <4>2, <4>3
      <3>4. ASSUME NEW c \in DOMAIN chapter, NEW s \in ChapterStage, NEW skip \in BOOLEAN,
                   RetryChapter(c, s, skip)
            PROVE  pc' = pc
        BY <3>4 DEF RetryChapter
      <3> QED  BY <3>1, <3>3, <3>4 DEF Next
    <2> QED  BY <2>2, <2>4
  <1>4. CASE total' # total
    <2>1. ASSUME NEW c \in DOMAIN chapter, NEW s \in ChapterStage, NEW skip \in BOOLEAN,
                 RetryChapter(c, s, skip)
          PROVE  FALSE
      BY <1>4, <2>1 DEF RetryChapter
    <2>2. PICK w \in Worker : BumpTotal(w)
      BY <1>4, <2>1, WhoFails DEF Next
    <2> QED  BY <1>2, <2>2
  <1> QED  BY <1>3, <1>4

\* While the fan-out is open, an episode of several chapters still has a pending one.
LEMMA SecondIsPending ==
  ASSUME IInv, OthersWait, Len(chapter) > 1, Open
  PROVE  ~AllCompleted
  <1>1. 2 \in DOMAIN chapter
    BY DEF IInv, RowsOK
  <1>2. chapter[2].status = "pending"
    BY <1>1 DEF OthersWait, OnlyTheFirst
  <1> QED  BY <1>1, <1>2 DEF AllCompleted

LEMMA FailsNoMoreStep ==
  ASSUME IInv, OneFanOut, CountsOK, Dispatching, FailsNoMore, Next
  PROVE  FailsNoMore'
  <1> SUFFICES ASSUME long', total' > 1, ~Open', slips' = 0
               PROVE  epStatus' # "failed" /\ \A v \in Worker : pc'[v] # "fail_ep"
    BY DEF FailsNoMore
  <1>0. long /\ slips = 0 /\ WorkersOK
    BY CountsStep, TranscriptStays DEF IInv
  <1>1. ASSUME NEW w \in Worker, BumpTotal(w) PROVE FALSE
    <2>1. pc'[w] = "dispatch"
      BY <1>0, <1>1 DEF BumpTotal, Goto, WorkersOK
    <2> QED  BY <2>1 DEF Open, OnTheWay
  <1>2. ASSUME NEW c \in DOMAIN chapter, NEW s \in ChapterStage, NEW skip \in BOOLEAN,
               RetryChapter(c, s, skip)
        PROVE  /\ UNCHANGED <<total, epStatus, pc>>
               /\ Open => Open'
    <2>1. /\ UNCHANGED <<total, epStatus, pc, task>>
          /\ ready' = Append(ready, [what |-> s, ch |-> c, skip |-> skip])
      BY <1>2 DEF RetryChapter
    <2>2. \A i \in DOMAIN ready : i \in DOMAIN ready' /\ ready'[i] = ready[i]
      BY <2>1, AppendAt DEF IInv
    <2> QED  BY <2>1, <2>2 DEF Open, OnTheWay, Seed
  <1>3. total' = total
    BY <1>1, <1>2, WhoFails DEF Next
  <1>4. CASE ~Open
    <2>1. epStatus # "failed" /\ \A v \in Worker : pc[v] # "fail_ep"
      BY <1>0, <1>3, <1>4 DEF FailsNoMore
    <2>2. ASSUME NEW w \in Worker, Pop(w) \/ HandleChapter(w) \/ HandleEpisode(w)
          PROVE  epStatus' # "failed" /\ \A v \in Worker : pc'[v] # "fail_ep"
      <3>1. Alone(w) /\ ~FailEpisode(w) /\ ~MergeFails(w)
        BY <2>1, <2>2, OthersStay, CountsStep DEF FailEpisode
      <3>2. epStatus' # "failed" /\ pc'[w] # "fail_ep"
        BY <1>3, <2>1, <2>2, <3>1, WhoFails
      <3> QED  BY <2>1, <3>1, <3>2 DEF Alone
    <2> QED  BY <1>2, <2>1, <2>2 DEF Next
  <1>5. CASE Open
    <2>1. Len(chapter) > 1 /\ \E v \in Worker : pc[v] = "dispatch"
      BY <1>3, <1>5 DEF Dispatching
    <2>2. PICK v \in Worker : pc[v] = "dispatch"
      BY <2>1
    <2>3. Waits
      <3>1. transcribed
        BY <2>1 DEF OneFanOut, Untranscribed
      <3> QED  BY <1>0, <1>5, <3>1 DEF OneFanOut, UndecidedWaits, Undecided
    <2>4. \A u \in Worker : pc[u] # "fail_ep"
      BY <2>3 DEF Waits, NoMergeYet, Aside, Doing
    <2>5. ASSUME NEW w \in Worker, Pop(w) \/ HandleChapter(w) \/ HandleEpisode(w)
          PROVE  epStatus' # "failed" /\ \A u \in Worker : pc'[u] # "fail_ep"
      <3>1. Alone(w) /\ ~FailEpisode(w) /\ ~MergeFails(w)
        BY <2>4, <2>5, OthersStay, CountsStep DEF FailEpisode
      <3>2. w = v
        <4>1. CASE w # v
          <5>1. pc'[v] = "dispatch"
            BY <2>2, <3>1, <4>1 DEF Alone
          <5> QED  BY <5>1 DEF Open, OnTheWay
        <4> QED  BY <4>1
      <3>3. DispatchEpisode(w)
        BY <2>2, <2>5, <3>2 DEF Pop, HandleChapter, StartStage, RequeueBusy, Transcribe,
             Park, Dub, MergeChapter, CountChapters, EnqueueMerge, CompleteChapter, Shortcut,
             MarkEpisodeRunning, RefreshJob,
             Advance, StageFails, MirrorFailure, FailEpisode, ChapterStage, HandleEpisode,
             ExtractGlossary, EnqueueChapterize, LoadEpisode, DecideCuts, ResumeChapter1,
             NarrowChapter1, CreateChapterJob, BumpTotal, FanOut, CheckChapters, Concat,
             WriteFinal, EmptyOutput, Clamp,
             RecordOutput, MergeFails, EpisodeStageFails
      <3>4. epStatus' # "failed" /\ pc'[w] # "fail_ep"
        BY <1>3, <2>5, <3>1, <3>3, WhoFails
      <3> QED  BY <2>4, <3>1, <3>4 DEF Alone
    <2>6. ASSUME NEW c \in DOMAIN chapter, NEW s \in ChapterStage, NEW skip \in BOOLEAN,
                 RetryChapter(c, s, skip)
          PROVE  FALSE
      BY <1>2, <1>5, <2>6
    <2> QED  BY <2>5, <2>6 DEF Next
  <1> QED  BY <1>4, <1>5

\* The queue still holds the merge task, or a worker has just taken it.
LEMMA MergeTaskStays ==
  ASSUME IInv, NEW w \in Worker, Pop(w) \/ HandleChapter(w) \/ HandleEpisode(w),
         NEW i \in DOMAIN ready, ready[i].what = "ep_merge"
  PROVE  Coming'
  <1>0. QueueOK /\ WorkersOK
    BY DEF IInv
  <1>1. CASE Pop(w)
    <2>1. ready # <<>> /\ ready' = Tail(ready)
      BY <1>1 DEF Pop
    <2>2. /\ DOMAIN ready = 1..Len(ready) /\ Len(ready) \in Nat \ {0}
          /\ DOMAIN ready' = 1..Len(ready) - 1
          /\ \A j \in DOMAIN ready' : ready'[j] = ready[j + 1]
          /\ Head(ready) = ready[1]
      BY <1>0, <2>1, TailAt
    <2>3. CASE i = 1
      <3>1. Head(ready) \in Ticket
        BY <1>0, <2>1, HeadTailProperties DEF QueueOK
      <3>2. Head(ready).what = "ep_merge" /\ Head(ready).ch = 0
        BY <2>2, <2>3, <3>1 DEF Ticket, OfChapter, OfEpisode, ChapterStage
      <3>3. pc'[w] = "ep_merge"
        BY <1>0, <1>1, <3>2 DEF Pop, Goto, WorkersOK
      <3> QED  BY <3>3 DEF Coming, Asks
    <2>4. CASE i # 1
      <3>1. i - 1 \in DOMAIN ready' /\ (i - 1) + 1 = i
        BY <2>2, <2>4
      <3>2. ready'[i - 1].what = "ep_merge"
        BY <2>2, <3>1
      <3> QED  BY <3>1, <3>2 DEF Coming
    <2> QED  BY <2>3, <2>4
  <1>2. CASE HandleChapter(w) \/ HandleEpisode(w)
    <2>1. ready' = ready \/ \E t : ready' = Append(ready, t)
      BY <1>2 DEF HandleChapter, StartStage, RequeueBusy, Transcribe, Park, Dub, MergeChapter,
       CountChapters, EnqueueMerge, CompleteChapter, Shortcut, MarkEpisodeRunning, RefreshJob,
       Advance, StageFails, MirrorFailure, FailEpisode, EnqueueStage, HandleEpisode,
       ExtractGlossary, EnqueueChapterize, LoadEpisode, DecideCuts, ResumeChapter1, NarrowChapter1,
       CreateChapterJob, BumpTotal, DispatchEpisode, FanOut, CheckChapters, Concat, WriteFinal,
       EmptyOutput, Clamp, RecordOutput,
       MergeFails, EpisodeStageFails
    <2>2. i \in DOMAIN ready' /\ ready'[i] = ready[i]
      BY <1>0, <2>1, AppendAt
    <2> QED  BY <2>2 DEF Coming
  <1> QED  BY <1>1, <1>2

\* An episode that is ripe is not over: no failure that counts has failed it, and
\* who has completed it without its video is a merge that is still under way.
LEMMA RipeIsNotOver ==
  ASSUME IInv, OthersWait, Written, FailureNoted, Dispatching, FailsNoMore, Ripe,
         \A w \in Worker : pc[w] \notin {"write", "clamp"}
  PROVE  ~Over(epStatus)
  <1>1. epStatus # "completed"
    BY DEF Written, Published, Ripe
  <1>2. epStatus # "failed"
    <2>1. CASE failures = 0
      BY <2>1 DEF FailureNoted, Ripe
    <2>2. CASE total > 1 /\ long /\ ~Open
      BY <2>2 DEF FailsNoMore, Ripe
    <2>3. CASE total > 1 /\ Open
      <3>1. ~AllCompleted
        BY <2>3, SecondIsPending DEF Dispatching
      <3> QED  BY <3>1 DEF Ripe
    <2> QED  BY <2>1, <2>2, <2>3 DEF Ripe
  <1> QED  BY <1>1, <1>2 DEF Over

\* A worker that asks for the merge does so, and a merge that has found every
\* chapter writes the video.
LEMMA AskingGoesOn ==
  ASSUME IInv, NEW w \in Worker, Pop(w) \/ HandleChapter(w) \/ HandleEpisode(w), Asks(w),
         ~Over(epStatus) \/ pc[w] # "shortcut", Ripe, ~MergeFails(w), ~EpisodeStageFails(w),
         final' = <<>>
  PROVE  Coming'
  <1>0. QueueOK /\ WorkersOK /\ Len(ready) \in Nat
    BY DEF IInv, QueueOK
  <1> USE DEF Goto
  <1>1. CASE EnqueueMerge(w)
    <2>1. ready' = Append(ready, EpisodeTask("ep_merge"))
      BY <1>1 DEF EnqueueMerge
    <2>2. Len(ready) + 1 \in DOMAIN ready' /\ ready'[Len(ready) + 1] = EpisodeTask("ep_merge")
      BY <1>0, <2>1, AppendAt
    <2>3. EpisodeTask("ep_merge").what = "ep_merge"
      BY DEF EpisodeTask
    <2> QED  BY <2>2, <2>3 DEF Coming
  <1>2. CASE CountChapters(w)
    <2>1. AllCompleted
      BY DEF Ripe
    <2>2. pc'[w] \in {"enqueue", "reenqueue"}
      BY <1>0, <1>2, <2>1 DEF CountChapters, WorkersOK
    <2> QED  BY <2>2 DEF Coming, Asks
  <1>3. CASE Shortcut(w)
    <2>1. pc'[w] \in {"running", "recount"}
      BY <1>0, <1>3 DEF Shortcut, WorkersOK
    <2> QED  BY <2>1 DEF Coming, Asks
  <1>4. CASE MarkEpisodeRunning(w)
    <2>1. pc'[w] = "recount"
      BY <1>0, <1>4 DEF MarkEpisodeRunning, WorkersOK
    <2> QED  BY <2>1 DEF Coming, Asks
  <1>5. CASE CheckChapters(w)
    <2>1. AllCompleted /\ \A c \in DOMAIN chapter : chapter[c].version > 0
      BY DEF Ripe
    <2>2. pc'[w] = "concat"
      BY <1>0, <1>5, <2>1 DEF CheckChapters, WorkersOK
    <2> QED  BY <2>2 DEF Coming, Asks
  <1>6. CASE Concat(w)
    <2>1. pc'[w] = "write"
      BY <1>0, <1>6 DEF Concat, WorkersOK
    <2> QED  BY <2>1 DEF Coming, Asks
  <1>8. ~WriteFinal(w)
    <2> SUFFICES ASSUME WriteFinal(w) PROVE FALSE
      OBVIOUS
    <2>1. seen[w].count >= 1 /\ seen[w].count \in Nat /\ DOMAIN final' = 1..seen[w].count
      BY DEF WriteFinal, IInv, MergeHasChapters, WorkersOK, Reading
    <2>2. 1 \in DOMAIN final'
      BY <2>1
    <2> QED  BY <2>2
  <1>9. ~EmptyOutput(w) /\ ~Clamp(w)
    BY DEF EmptyOutput, Clamp, Ripe
  <1>7. \/ EnqueueMerge(w) \/ CountChapters(w) \/ Shortcut(w) \/ MarkEpisodeRunning(w)
        \/ CheckChapters(w) \/ Concat(w) \/ WriteFinal(w) \/ EmptyOutput(w) \/ Clamp(w)
    BY DEF Asks, Pop, HandleChapter, StartStage, RequeueBusy, Transcribe, Park, Dub, MergeChapter,
       CompleteChapter, RefreshJob, Advance, StageFails, MirrorFailure, FailEpisode, ChapterStage,
       HandleEpisode, ExtractGlossary, EnqueueChapterize, LoadEpisode, DecideCuts, ResumeChapter1,
       NarrowChapter1, CreateChapterJob, BumpTotal, DispatchEpisode, FanOut, RecordOutput
  <1> QED  BY <1>1, <1>2, <1>3, <1>4, <1>5, <1>6, <1>7, <1>8, <1>9

LEMMA MergeIsComingStep ==
  ASSUME IInv, OneFanOut, OthersWait, CountsOK, Written, FailureNoted, Dispatching, FailsNoMore,
         MergeIsComing, Next
  PROVE  MergeIsComing'
  <1> SUFFICES ASSUME Ripe' PROVE Coming'
    BY DEF MergeIsComing
  <1>0. /\ WorkersOK /\ RowsOK /\ slips' = 0 /\ slips = 0 /\ (failures' = 0 => failures = 0)
        /\ long' = long
    BY CountsStep, TranscriptStays DEF IInv, Ripe
  <1>1. ASSUME NEW c \in DOMAIN chapter, NEW s \in ChapterStage, NEW skip \in BOOLEAN,
               RetryChapter(c, s, skip)
        PROVE  FALSE
    <2>1. c \in DOMAIN chapter' /\ chapter'[c].status = "queued"
      BY <1>0, <1>1, StatusAt DEF RetryChapter
    <2> QED  BY <2>1 DEF Ripe, AllCompleted
  <1>2. PICK w \in Worker : Pop(w) \/ HandleChapter(w) \/ HandleEpisode(w)
    BY <1>1 DEF Next
  <1>3. Alone(w) /\ ~MergeFails(w) /\ ~EpisodeStageFails(w)
    BY <1>0, <1>2, OthersStay, CountsStep
  <1>4. CASE CompleteChapter(w)
    <2>1. pc'[w] = "shortcut"
      BY <1>0, <1>4 DEF CompleteChapter, Goto, WorkersOK
    <2> QED  BY <2>1 DEF Coming, Asks
  <1>5. CASE MergeChapter(w)
    <2>1. pc'[w] = "count"
      BY <1>0, <1>5 DEF MergeChapter, Goto, WorkersOK
    <2> QED  BY <2>1 DEF Coming, Asks
  <1>6. CASE BumpTotal(w)
    <2>1. pc[w] = "bump" /\ chapter' = chapter
      BY <1>6 DEF BumpTotal
    <2>2. Len(chapter) > 1 /\ Open
      BY <2>1 DEF OneFanOut, FanOutInStep, Open, OnTheWay
    <2>3. ~AllCompleted
      BY <1>0, <2>2, SecondIsPending
    <2>4. AllCompleted' <=> AllCompleted
      BY <2>1 DEF AllCompleted
    <2> QED  BY <2>3, <2>4 DEF Ripe
  <1>8. CASE Concat(w)
    <2>1. pc'[w] = "write"
      BY <1>0, <1>8 DEF Concat, Goto, WorkersOK
    <2> QED  BY <2>1 DEF Coming, Asks
  <1>9. CASE EmptyOutput(w)
    <2>1. pc'[w] = "clamp"
      BY <1>0, <1>9 DEF EmptyOutput, Goto, WorkersOK
    <2> QED  BY <2>1 DEF Coming, Asks
  <1>7. CASE /\ ~CompleteChapter(w) /\ ~MergeChapter(w) /\ ~BumpTotal(w)
             /\ ~Concat(w) /\ ~EmptyOutput(w)
    <2>1. Ripe
      <3>1. AllCompleted /\ \A c \in DOMAIN chapter : chapter[c].version > 0
        BY <1>2, <1>7, WhoEnds DEF OnlyTheseEnd, Ripe
      <3>2. final = <<>> /\ total' = total
        BY <1>2, <1>3, <1>7, WhoFails DEF Ripe
      <3>3. failures = 0 \/ (total > 1 /\ long)
        BY <1>0, <3>2 DEF Ripe
      <3> QED  BY <1>0, <3>1, <3>2, <3>3 DEF Ripe
    <2>2. ASSUME NEW u \in Worker, pc[u] \in {"write", "clamp"} PROVE Coming'
      <3>1. CASE u # w
        BY <1>3, <2>2, <3>1 DEF Alone, Coming, Asks
      <3>2. CASE u = w
        <4>1. pc[w] # "shortcut" /\ Asks(w) /\ final' = <<>>
          BY <2>2, <3>2 DEF Asks, Ripe
        <4> QED  BY <1>2, <1>3, <2>1, <4>1, AskingGoesOn
      <3> QED  BY <3>1, <3>2
    <2>3. Coming /\ final' = <<>>
      BY <1>0, <2>1 DEF MergeIsComing, Ripe
    <2>4. CASE \E i \in DOMAIN ready : ready[i].what = "ep_merge"
      BY <1>2, <2>4, MergeTaskStays
    <2>5. ASSUME NEW v \in Worker, Asks(v) PROVE Coming'
      <3>1. CASE v = w
        <4>1. CASE \A u \in Worker : pc[u] \notin {"write", "clamp"}
          <5>1. ~Over(epStatus)
            BY <2>1, <4>1, RipeIsNotOver
          <5> QED  BY <1>2, <1>3, <2>1, <2>3, <2>5, <3>1, <5>1, AskingGoesOn
        <4>2. CASE ~(\A u \in Worker : pc[u] \notin {"write", "clamp"})
          BY <2>2, <4>2
        <4> QED  BY <4>1, <4>2
      <3>2. CASE v # w
        <4>1. Asks(v)'
          BY <1>3, <2>5, <3>2 DEF Alone, Asks
        <4> QED  BY <4>1 DEF Coming
      <3> QED  BY <3>1, <3>2
    <2> QED  BY <2>3, <2>4, <2>5 DEF Coming
  <1> QED  BY <1>4, <1>5, <1>6, <1>7, <1>8, <1>9

Gathered == Reached /\ Written /\ FailureNoted /\ Dispatching /\ FailsNoMore /\ MergeIsComing

LEMMA GatheredInit == Init => Gathered
  <1> SUFFICES ASSUME Init PROVE Gathered
    OBVIOUS
  <1>1. Reached
    BY ReachedInit
  <1>2. Written /\ FailureNoted /\ Dispatching /\ FailsNoMore
    BY DEF Init, Written, FailureNoted, Dispatching, FailsNoMore
  <1>3. ~AllCompleted
    <2>1. chapter[1].status = "queued" /\ 1 \in DOMAIN chapter
      BY DEF Init
    <2> QED  BY <2>1 DEF AllCompleted
  <1> QED  BY <1>1, <1>2, <1>3 DEF Gathered, MergeIsComing, Ripe

LEMMA GatheredStep == Gathered /\ [Next]_vars => Gathered'
  <1> SUFFICES ASSUME Gathered, [Next]_vars PROVE Gathered'
    OBVIOUS
  <1>0. Reached'
    BY ReachedStep DEF Gathered
  <1>1. CASE Next
    <2>1. IInv /\ OneFanOut /\ OthersWait /\ CountsOK
      BY DEF Gathered, Reached, Whole
    <2> QED  BY <1>0, <1>1, <2>1, WrittenStep, FailureNotedStep, DispatchingStep, FailsNoMoreStep,
                MergeIsComingStep DEF Gathered
  <1>2. CASE UNCHANGED vars
    <2>1. Written' /\ FailureNoted' /\ Dispatching' /\ FailsNoMore'
      BY <1>2 DEF Gathered, FailureNoted, Dispatching, FailsNoMore, Written, Published, Open, OnTheWay, vars,
         rowVars, countVars
    <2>2. MergeIsComing'
      BY <1>2 DEF Gathered, MergeIsComing, Ripe, Coming, Asks, AllCompleted, vars,
         rowVars, countVars
    <2> QED  BY <1>0, <2>1, <2>2 DEF Gathered
  <1> QED  BY <1>1, <1>2

LEMMA QuietAsksNothing == Quiet => ~Coming
  BY DEF Quiet, Coming, Asks

\* The fan-in is not missed, whichever chapter completes last and however their
\* counts interleave with failures, retries and the fan-out.
THEOREM FanInIsNotMissed == Spec => []FanInFires
  <1>1. Gathered => FanInFires
    BY QuietAsksNothing DEF Gathered, MergeIsComing, Ripe, FanInFires
  <1> QED  BY <1>1, GatheredInit, GatheredStep, PTL DEF Spec

-----------------------------------------------------------------------------
(* The bound on the chapters, and with it every type.                      *)

\* What an episode task may have noted.
Noted == [ep : EpisodeStatus, first : JobStatus, plan : 0..MaxChapters,
          cuts : 1..MaxChapters, next : 1..MaxChapters + 1, count : 0..MaxChapters]

\* Who works holds a task.
HoldersWork == \A w \in Worker : pc[w] # "idle" => task[w] \in Task

\* An idle worker's notes are of that type.
LEMMA UnseenIsNoted == Unseen \in Noted
  BY EpisodeAssumption DEF Unseen, Noted, EpisodeStatus, JobStatus

\* The tasks of TypeOK are among those of the invariant; episode and chapter
\* tasks can be told apart.
LEMMA TasksAreTickets ==
  /\ Task \subseteq Ticket
  /\ \A t \in Task \cap OfChapter : t.ch \in 1..MaxChapters
  /\ \A s \in EpisodeStage : EpisodeTask(s) \in Task
  /\ \A s \in ChapterStage, c \in 1..MaxChapters, b \in BOOLEAN :
       [what |-> s, ch |-> c, skip |-> b] \in Task
  <1>1. Task \subseteq Ticket
    <2>1. [what : ChapterStage, ch : 1..MaxChapters, skip : BOOLEAN] \subseteq OfChapter
      <3>1. 1..MaxChapters \subseteq Nat \ {0}
        BY EpisodeAssumption
      <3> QED  BY <3>1 DEF OfChapter
    <2> QED  BY <2>1 DEF Task, Ticket, OfEpisode
  <1>2. ASSUME NEW t \in Task \cap OfChapter PROVE t.ch \in 1..MaxChapters
    <2>1. t.ch # 0
      BY <1>2 DEF OfChapter
    <2> QED  BY <2>1 DEF Task
  <1>3. ASSUME NEW s \in EpisodeStage PROVE EpisodeTask(s) \in Task
    BY DEF Task, EpisodeTask
  <1>4. ASSUME NEW s \in ChapterStage, NEW c \in 1..MaxChapters, NEW b \in BOOLEAN
        PROVE  [what |-> s, ch |-> c, skip |-> b] \in Task
    BY DEF Task
  <1> QED  BY <1>1, <1>2, <1>3, <1>4

\* A worker that returns keeps nothing; one that goes on keeps its task.
LEMMA HoldersReturn ==
  ASSUME WorkersOK, HoldersWork, task \in [Worker -> Task \cup {NoTask}], NEW w \in Worker,
         Idle(w)
  PROVE  HoldersWork' /\ task' \in [Worker -> Task \cup {NoTask}]
  BY DEF WorkersOK, HoldersWork, Idle, Goto

LEMMA HoldersGoOn ==
  ASSUME WorkersOK, HoldersWork, task \in [Worker -> Task \cup {NoTask}], NEW w \in Worker,
         pc[w] # "idle", Alone(w), UNCHANGED task
  PROVE  HoldersWork' /\ task' \in [Worker -> Task \cup {NoTask}]
  BY DEF WorkersOK, HoldersWork, Alone

\* Every task is of a chapter the episode may have, or of the episode.
LEMMA TasksStep ==
  ASSUME IInv, OneFanOut, TypeOK, Next
  PROVE  /\ ready' \in Seq(Task)
         /\ task' \in [Worker -> Task \cup {NoTask}]
         /\ HoldersWork'
  <1> DEFINE Tasks == task' \in [Worker -> Task \cup {NoTask}] /\ HoldersWork'
  <1>0. /\ WorkersOK /\ HoldersWork /\ ready \in Seq(Task)
        /\ task \in [Worker -> Task \cup {NoTask}]
        /\ chapter \in Seq(Row) /\ Len(chapter) \in 1..MaxChapters
    BY DEF IInv, TypeOK, HoldersWork, Row
  <1>1. ASSUME NEW w \in Worker, Pop(w) PROVE ready' \in Seq(Task) /\ Tasks
    <2>1. Head(ready) \in Task /\ ready' \in Seq(Task)
      BY <1>0, <1>1, HeadTailProperties DEF Pop
    <2>2. task' = [task EXCEPT ![w] = Head(ready)] /\ \A v \in Worker \ {w} : pc'[v] = pc[v]
      BY <1>0, <1>1 DEF Pop, Goto, WorkersOK
    <2>3. Tasks
      BY <1>0, <2>1, <2>2 DEF HoldersWork
    <2> QED  BY <2>1, <2>3
  <1>2. ASSUME NEW c \in DOMAIN chapter, NEW s \in ChapterStage, NEW skip \in BOOLEAN,
               RetryChapter(c, s, skip)
        PROVE  ready' \in Seq(Task) /\ Tasks
    <2> DEFINE t == [what |-> s, ch |-> c, skip |-> skip]
    <2>1. c \in 1..MaxChapters
      BY <1>0, LenProperties, EpisodeAssumption
    <2>2. t \in Task
      BY <2>1, TasksAreTickets
    <2>3. ready' = Append(ready, t) /\ UNCHANGED <<pc, task>>
      BY <1>2 DEF RetryChapter
    <2> HIDE DEF t
    <2>4. ready' \in Seq(Task)
      BY <1>0, <2>2, <2>3, AppendProperties
    <2> QED  BY <1>0, <2>3, <2>4 DEF HoldersWork
  <1>3. ASSUME NEW w \in Worker, HandleChapter(w) PROVE ready' \in Seq(Task) /\ Tasks
    <2>0. Alone(w)
      BY <1>0, <1>3, OthersStay
    <2>1. pc[w] # "idle" /\ (Idle(w) \/ UNCHANGED task)
      BY <1>3 DEF HandleChapter, StartStage, RequeueBusy, Transcribe, Park, Dub, MergeChapter,
         CountChapters, EnqueueMerge, CompleteChapter, Shortcut, MarkEpisodeRunning, RefreshJob,
         Advance, StageFails, MirrorFailure, FailEpisode, ChapterStage
    <2>2. Tasks
      BY <1>0, <2>0, <2>1, HoldersReturn, HoldersGoOn
    <2>3. CASE RequeueBusy(w)
      <3>1. task[w] \in Task /\ ready' = Append(ready, task[w])
        BY <1>0, <2>3 DEF RequeueBusy, HoldersWork
      <3> QED  BY <1>0, <2>2, <3>1, AppendProperties
    <2>4. CASE Transcribe(w) \/ EnqueueMerge(w)
      <3>1. PICK s \in EpisodeStage : ready' = Append(ready, EpisodeTask(s))
        BY <2>4 DEF Transcribe, EnqueueMerge, EpisodeStage
      <3>2. EpisodeTask(s) \in Task
        BY TasksAreTickets
      <3> QED  BY <1>0, <2>2, <3>1, <3>2, AppendProperties
    <2>5. CASE Advance(w)
      <3>1. /\ task[w] \in Task \cap OfChapter /\ task[w].what # "merge"
            /\ ready' = Append(ready, ChapterTask(task[w].ch, Following[task[w].what]))
        BY <1>0, <2>5 DEF Advance, EnqueueStage, HoldersWork, WorkersOK, Fits, Leased
      <3>2. Following[task[w].what] \in ChapterStage /\ task[w].ch \in 1..MaxChapters
        BY <3>1, TasksAreTickets DEF OfChapter, ChapterStage, Following
      <3>3. ChapterTask(task[w].ch, Following[task[w].what]) \in Task
        BY <3>2, TasksAreTickets DEF ChapterTask
      <3> QED  BY <1>0, <2>2, <3>1, <3>3, AppendProperties
    <2>6. CASE \/ StartStage(w) \/ Park(w) \/ Dub(w) \/ MergeChapter(w) \/ CountChapters(w)
               \/ CompleteChapter(w) \/ Shortcut(w) \/ MarkEpisodeRunning(w) \/ RefreshJob(w)
               \/ StageFails(w) \/ MirrorFailure(w) \/ FailEpisode(w)
      <3>1. ready' = ready
        BY <2>6 DEF StartStage, Park, Dub, MergeChapter, CountChapters, CompleteChapter, Shortcut,
           MarkEpisodeRunning, RefreshJob, StageFails, MirrorFailure, FailEpisode
      <3> QED  BY <1>0, <2>2, <3>1
    <2> QED  BY <1>3, <2>3, <2>4, <2>5, <2>6 DEF HandleChapter
  <1>4. ASSUME NEW w \in Worker, HandleEpisode(w) PROVE ready' \in Seq(Task) /\ Tasks
    <2>0. Alone(w)
      BY <1>0, <1>4, OthersStay
    <2>1. pc[w] # "idle" /\ (Idle(w) \/ UNCHANGED task)
      BY <1>4 DEF HandleEpisode, ExtractGlossary, EnqueueChapterize, LoadEpisode, DecideCuts,
         ResumeChapter1, NarrowChapter1, CreateChapterJob, BumpTotal, DispatchEpisode, FanOut,
         CheckChapters, Concat, WriteFinal, EmptyOutput, Clamp, RecordOutput, MergeFails,
         EpisodeStageFails, EpisodeStep
    <2>2. Tasks
      BY <1>0, <2>0, <2>1, HoldersReturn, HoldersGoOn
    <2>3. CASE EnqueueChapterize(w)
      <3>1. ready' = Append(ready, EpisodeTask("chapterize")) /\ "chapterize" \in EpisodeStage
        BY <2>3 DEF EnqueueChapterize, EpisodeStage
      <3>2. EpisodeTask("chapterize") \in Task
        BY <3>1, TasksAreTickets
      <3> QED  BY <1>0, <2>2, <3>1, <3>2, AppendProperties
    <2>4. CASE ResumeChapter1(w) \/ FanOut(w)
      <3>1. PICK c \in 1..MaxChapters : ready' = Append(ready, ChapterTask(c, "dub"))
        <4>1. CASE ResumeChapter1(w)
          BY <4>1, EpisodeAssumption DEF ResumeChapter1, EnqueueStage
        <4>2. CASE FanOut(w)
          <5>1. /\ ready' = Append(ready, ChapterTask(seen[w].next, "dub")) /\ pc[w] = "fan"
                /\ seen[w] \in Reading /\ seen[w] \in Noted
            BY <1>0, <4>2 DEF FanOut, EnqueueStage, WorkersOK, TypeOK, Noted
          <5>2. seen[w].next <= seen[w].cuts
            BY <5>1 DEF OneFanOut, FanOutInStep
          <5>3. seen[w].next \in 1..MaxChapters
            BY <5>1, <5>2, EpisodeAssumption DEF Noted
          <5> QED  BY <5>1, <5>3
        <4> QED  BY <2>4, <4>1, <4>2
      <3>2. ChapterTask(c, "dub") \in Task
        BY TasksAreTickets DEF ChapterTask, ChapterStage
      <3> QED  BY <1>0, <2>2, <3>1, <3>2, AppendProperties
    <2>5. CASE \/ ExtractGlossary(w) \/ LoadEpisode(w) \/ DecideCuts(w) \/ NarrowChapter1(w)
               \/ CreateChapterJob(w) \/ BumpTotal(w) \/ DispatchEpisode(w) \/ CheckChapters(w)
               \/ Concat(w) \/ WriteFinal(w) \/ EmptyOutput(w) \/ Clamp(w) \/ RecordOutput(w)
               \/ MergeFails(w) \/ EpisodeStageFails(w)
      <3>1. ready' = ready
        BY <2>5 DEF ExtractGlossary, LoadEpisode, DecideCuts, NarrowChapter1, CreateChapterJob,
           BumpTotal, DispatchEpisode, CheckChapters, Concat, WriteFinal, EmptyOutput, Clamp,
           RecordOutput, MergeFails,
           EpisodeStageFails
      <3> QED  BY <1>0, <2>2, <3>1
    <2> QED  BY <1>4, <2>3, <2>4, <2>5 DEF HandleEpisode
  <1> QED  BY <1>1, <1>2, <1>3, <1>4 DEF Next

\* What a task has noted of the chapters is within their bound.
Within(note) ==
  /\ note.plan <= MaxChapters /\ note.cuts \in 1..MaxChapters
  /\ note.next <= MaxChapters + 1 /\ note.count <= MaxChapters

\* Notes of the right type are those that the bound on the chapters allows.
LEMMA NotedIsWithin ==
  ASSUME NEW note \in Reading
  PROVE  note \in Noted <=> Within(note)
  <1>1. MaxChapters \in Nat
    BY EpisodeAssumption
  <1>2. note \in Noted => Within(note)
    BY DEF Noted, Within
  <1>3. Within(note) => note \in Noted
    BY <1>1 DEF Noted, Within, Reading
  <1> QED  BY <1>2, <1>3

\* An episode task notes what it reads, and its loops stop at the last chapter.
LEMMA NotesStep ==
  ASSUME IInv, OneFanOut, TypeOK, Next
  PROVE  \A v \in Worker : Within(seen'[v])
  <1>0. /\ WorkersOK /\ MaxChapters \in Nat \ {0} /\ Within(Unseen)
        /\ \A v \in Worker : seen[v] \in Reading /\ Within(seen[v])
        /\ Len(chapter) \in 1..MaxChapters /\ plan \in 0..MaxChapters
    <2>1. \A v \in Worker : seen[v] \in Reading /\ seen[v] \in Noted
      BY DEF IInv, WorkersOK, TypeOK, Noted
    <2>2. Within(Unseen)
      BY UnseenIsReading, UnseenIsNoted, NotedIsWithin
    <2> QED  BY <2>1, <2>2, NotedIsWithin, EpisodeAssumption DEF IInv, TypeOK
  <1>1. ASSUME NEW w \in Worker, Pop(w) PROVE UNCHANGED seen
    BY <1>1 DEF Pop
  <1>2. ASSUME NEW c \in DOMAIN chapter, NEW s \in ChapterStage, NEW skip \in BOOLEAN,
               RetryChapter(c, s, skip)
        PROVE  UNCHANGED seen
    BY <1>2 DEF RetryChapter
  <1>3. ASSUME NEW w \in Worker, Idle(w) PROVE \A v \in Worker : Within(seen'[v])
    BY <1>0, <1>3 DEF Idle, WorkersOK
  <1>4. ASSUME NEW w \in Worker, HandleChapter(w) PROVE UNCHANGED seen \/ Idle(w)
    BY <1>4 DEF HandleChapter, StartStage, RequeueBusy, Transcribe, Park, Dub, MergeChapter,
       CountChapters, EnqueueMerge, CompleteChapter, Shortcut, MarkEpisodeRunning, RefreshJob,
       Advance, StageFails, MirrorFailure, FailEpisode
  <1>5. ASSUME NEW w \in Worker, HandleEpisode(w) PROVE \A v \in Worker : Within(seen'[v])
    <2>0. seen[w] \in Reading /\ Within(seen[w])
      BY <1>0
    <2> DEFINE Notes1 == \E note \in Reading : Within(note) /\ seen' = [seen EXCEPT ![w] = note]
    <2>1. ASSUME LoadEpisode(w) /\ ~Idle(w) PROVE Notes1
      <3> DEFINE note == [seen[w] EXCEPT !.ep = epStatus, !.first = chapter[1].status, !.plan = plan]
      <3>1. chapter[1] \in Row /\ epStatus \in EpisodeStatus
        BY ElementOfSeq, <1>0 DEF IInv, RowsOK
      <3>2. note \in Reading /\ Within(note)
        <4>1. note \in Reading
          <5>1. plan \in Nat /\ chapter[1].status \in JobStatus
            BY <1>0, <3>1 DEF Row
          <5>2. [seen[w] EXCEPT !.ep = epStatus] \in Reading
            BY <2>0, <3>1 DEF Reading
          <5>3. [seen[w] EXCEPT !.ep = epStatus, !.first = chapter[1].status] \in Reading
            BY <5>1, <5>2 DEF Reading
          <5> QED  BY <5>1, <5>3 DEF Reading
        <4>2. /\ note.plan = plan /\ note.cuts = seen[w].cuts
              /\ note.next = seen[w].next /\ note.count = seen[w].count
          BY <2>0 DEF Reading
        <4> HIDE DEF note
        <4> QED  BY <1>0, <2>0, <4>1, <4>2 DEF Within
      <3>3. seen' = [seen EXCEPT ![w] = note]
        BY <2>1 DEF LoadEpisode
      <3> HIDE DEF note
      <3> QED  BY <3>2, <3>3
    <2>2. ASSUME DecideCuts(w) /\ ~Idle(w) /\ ~UNCHANGED seen PROVE Notes1
      <3>1. PICK n \in 1..MaxChapters : seen' = [seen EXCEPT ![w].cuts = n]
        BY <1>0, <2>0, <2>2 DEF DecideCuts, Within, Reading
      <3> DEFINE note == [seen[w] EXCEPT !.cuts = n]
      <3>2. note \in Reading /\ Within(note)
        BY <1>0, <2>0, SMTT(30) DEF Reading, Within
      <3>3. seen' = [seen EXCEPT ![w] = note]
        BY <3>1
      <3> HIDE DEF note
      <3> QED  BY <3>2, <3>3
    <2>3. ASSUME NarrowChapter1(w) \/ DispatchEpisode(w) PROVE Notes1
      <3>1. PICK n \in {1, 2} : seen' = [seen EXCEPT ![w].next = n]
        BY <2>3 DEF NarrowChapter1, DispatchEpisode
      <3> DEFINE note == [seen[w] EXCEPT !.next = n]
      <3>2. note \in Reading /\ Within(note)
        BY <1>0, <2>0, SMTT(30) DEF Reading, Within
      <3>3. seen' = [seen EXCEPT ![w] = note]
        BY <3>1
      <3> HIDE DEF note
      <3> QED  BY <3>2, <3>3
    <2>4. ASSUME CreateChapterJob(w) \/ (FanOut(w) /\ ~Idle(w)) PROVE Notes1
      <3>1. /\ seen' = [seen EXCEPT ![w].next = seen[w].next + 1] /\ pc[w] \in {"create", "fan"}
        BY <2>4 DEF CreateChapterJob, FanOut
      <3>2. seen[w].next <= seen[w].cuts
        BY <3>1 DEF OneFanOut, FanOutInStep
      <3> DEFINE note == [seen[w] EXCEPT !.next = seen[w].next + 1]
      <3>3. note \in Reading /\ Within(note)
        BY <1>0, <2>0, <3>2, SMTT(30) DEF Reading, Within
      <3>4. seen' = [seen EXCEPT ![w] = note]
        BY <3>1
      <3> HIDE DEF note
      <3> QED  BY <3>3, <3>4
    <2>5. ASSUME CheckChapters(w) /\ ~Idle(w) PROVE Notes1
      <3> DEFINE note == [seen[w] EXCEPT !.ep = epStatus, !.count = Len(chapter)]
      <3>1. epStatus \in EpisodeStatus
        BY DEF IInv, RowsOK
      <3>2. note \in Reading /\ Within(note)
        <4>1. note \in Reading
          <5>1. Len(chapter) \in Nat
            BY <1>0
          <5>2. [seen[w] EXCEPT !.ep = epStatus] \in Reading
            BY <2>0, <3>1 DEF Reading
          <5> QED  BY <5>1, <5>2 DEF Reading
        <4>2. /\ note.plan = seen[w].plan /\ note.cuts = seen[w].cuts
              /\ note.next = seen[w].next /\ note.count = Len(chapter)
          BY <2>0 DEF Reading
        <4> HIDE DEF note
        <4> QED  BY <1>0, <2>0, <4>1, <4>2 DEF Within
      <3>3. seen' = [seen EXCEPT ![w] = note]
        BY <2>5 DEF CheckChapters
      <3> HIDE DEF note
      <3> QED  BY <3>2, <3>3
    <2>6. ASSUME Notes1 PROVE \A v \in Worker : Within(seen'[v])
      BY <1>0, <2>6 DEF WorkersOK
    <2>7. \/ UNCHANGED seen \/ Idle(w)
          \/ (LoadEpisode(w) /\ ~Idle(w)) \/ (DecideCuts(w) /\ ~Idle(w) /\ ~UNCHANGED seen)
          \/ NarrowChapter1(w) \/ DispatchEpisode(w)
          \/ CreateChapterJob(w) \/ (FanOut(w) /\ ~Idle(w)) \/ (CheckChapters(w) /\ ~Idle(w))
      BY <1>5 DEF HandleEpisode, ExtractGlossary, EnqueueChapterize, ResumeChapter1, BumpTotal,
         Concat, WriteFinal, EmptyOutput, Clamp, RecordOutput, MergeFails, EpisodeStageFails
    <2>8. UNCHANGED seen => \A v \in Worker : Within(seen'[v])
      BY <1>0
    <2> HIDE DEF Notes1
    <2> QED  BY <1>3, <2>1, <2>2, <2>3, <2>4, <2>5, <2>6, <2>7, <2>8
  <1>6. UNCHANGED seen => \A v \in Worker : Within(seen'[v])
    BY <1>0
  <1>7. ASSUME NEW w \in Worker, HandleChapter(w) PROVE \A v \in Worker : Within(seen'[v])
    BY <1>3, <1>4, <1>6, <1>7
  <1> QED  BY <1>1, <1>2, <1>5, <1>6, <1>7 DEF Next

\* The rows of the episode: a chapter is added only while the plan has one more.
LEMMA RowsStep ==
  ASSUME IInv, OneFanOut, MergeReadsAll, TypeOK, Next
  PROVE  /\ total' \in 1..MaxChapters /\ plan' \in 0..MaxChapters
         /\ Len(chapter') \in 1..MaxChapters
         /\ transcribed' \in BOOLEAN /\ whole' \in BOOLEAN /\ long' \in BOOLEAN
         /\ lost' \in BOOLEAN /\ emptied' \in BOOLEAN
  <1>0. /\ MaxChapters \in Nat \ {0} /\ chapter \in Seq(Row)
        /\ Len(chapter) \in 1..MaxChapters /\ DOMAIN chapter = 1..Len(chapter)
        /\ total \in 1..MaxChapters /\ plan \in 0..MaxChapters
        /\ transcribed \in BOOLEAN /\ whole \in BOOLEAN /\ long \in BOOLEAN
        /\ lost \in BOOLEAN /\ emptied \in BOOLEAN
        /\ \A v \in Worker : seen[v].cuts \in 1..MaxChapters /\ seen[v].count \in Nat
    BY EpisodeAssumption, LenProperties DEF IInv, RowsOK, TypeOK
  <1>1. Len(chapter') \in 1..MaxChapters
    <2>1. ASSUME NEW w \in Worker, CreateChapterJob(w) PROVE Len(chapter') \in 1..MaxChapters
      <3>1. Len(chapter') = Len(chapter) + 1
        BY <2>1, ChapterAdded DEF IInv
      <3>2. Len(chapter) = seen[w].next - 1 /\ seen[w].next <= seen[w].cuts /\ seen[w].next \in Nat
        BY <2>1 DEF CreateChapterJob, OneFanOut, FanOutInStep, IInv, WorkersOK, Reading
      <3>3. seen[w].cuts \in 1..MaxChapters
        BY <1>0
      <3>4. Len(chapter) + 1 <= seen[w].cuts /\ Len(chapter) \in Nat
        BY <1>0, <3>2, <3>3
      <3>5. MaxChapters \in Nat
        BY EpisodeAssumption
      <3> QED  BY <3>1, <3>3, <3>4, <3>5
    <2>2. ASSUME NEW w \in Worker, HandleChapter(w) \/ (HandleEpisode(w) /\ ~CreateChapterJob(w))
          PROVE  Len(chapter') \in 1..MaxChapters
      BY <1>0, <2>2, LenKept
    <2>3. ASSUME NEW w \in Worker, Pop(w) PROVE Len(chapter') \in 1..MaxChapters
      BY <1>0, <2>3 DEF Pop, rowVars
    <2>4. ASSUME NEW c \in DOMAIN chapter, NEW s \in ChapterStage, NEW skip \in BOOLEAN,
                 RetryChapter(c, s, skip)
          PROVE  Len(chapter') \in 1..MaxChapters
      <3>1. SetStatus(c, "queued")
        BY <2>4 DEF RetryChapter
      <3> QED  BY <1>0, <3>1, StatusAt DEF IInv
    <2> QED  BY <2>1, <2>2, <2>3, <2>4 DEF Next
  <1>2. lost' \in BOOLEAN /\ emptied' \in BOOLEAN
    <2>1. ASSUME NEW w \in Worker, WriteFinal(w) \/ EmptyOutput(w) \/ MergeFails(w)
          PROVE  lost' \in BOOLEAN /\ emptied' \in BOOLEAN
      BY <1>0, <2>1 DEF WriteFinal, EmptyOutput, MergeFails
    <2>2. ASSUME NEW w \in Worker, MergeChapter(w) PROVE lost' \in BOOLEAN /\ emptied' \in BOOLEAN
      BY <1>0, <2>2 DEF MergeChapter
    <2>3. \/ UNCHANGED <<lost, emptied>>
          \/ \E w \in Worker : WriteFinal(w) \/ EmptyOutput(w) \/ MergeFails(w) \/ MergeChapter(w)
      BY ZenonT(40) DEF Next, Pop, RetryChapter, rowVars, HandleChapter, StartStage, RequeueBusy,
         Transcribe, Park, Dub, CountChapters, EnqueueMerge, CompleteChapter, Shortcut,
         MarkEpisodeRunning, RefreshJob, Advance, StageFails, MirrorFailure, FailEpisode,
         HandleEpisode, ExtractGlossary, EnqueueChapterize, LoadEpisode, DecideCuts,
         ResumeChapter1, NarrowChapter1, CreateChapterJob, BumpTotal, DispatchEpisode, FanOut,
         CheckChapters, Concat, Clamp, RecordOutput, EpisodeStageFails
    <2> QED  BY <1>0, <2>1, <2>2, <2>3
  <1>3. /\ total' = total \/ \E w \in Worker : total' = seen[w].cuts
        /\ plan' = plan \/ plan' \in LongPlans \cup ShortPlans
        /\ transcribed' \in {transcribed, TRUE} /\ whole' \in {whole, FALSE} /\ long' = long
    BY ZenonT(40) DEF Next, Pop, RetryChapter, rowVars, HandleChapter, StartStage, RequeueBusy, Transcribe,
       Park, Dub, MergeChapter, CountChapters, EnqueueMerge, CompleteChapter, Shortcut,
       MarkEpisodeRunning, RefreshJob, Advance, StageFails, MirrorFailure, FailEpisode,
       HandleEpisode, ExtractGlossary, EnqueueChapterize, LoadEpisode, DecideCuts,
       ResumeChapter1, NarrowChapter1, CreateChapterJob, BumpTotal, DispatchEpisode, FanOut,
       CheckChapters, Concat, WriteFinal, EmptyOutput, Clamp, RecordOutput, MergeFails,
       EpisodeStageFails
  <1>4. total' \in 1..MaxChapters /\ plan' \in 0..MaxChapters
    BY <1>0, <1>3, EpisodeAssumption
  <1>5. transcribed' \in BOOLEAN /\ whole' \in BOOLEAN /\ long' \in BOOLEAN
    BY <1>0, <1>3
  <1> QED  BY <1>1, <1>2, <1>4, <1>5

\* Failures, slips and repairs stop at their bounds.
LEMMA LimitsStep ==
  ASSUME TypeOK, Next
  PROVE  failures' \in 0..MaxFailures /\ slips' \in 0..MaxSlips /\ repairs' \in 0..MaxRepairs
  <1> DEFINE Same == UNCHANGED <<failures, slips, repairs>>
             Up(x, max) == x < max /\ x' = x + 1
             More == \/ Same
                     \/ Up(failures, MaxFailures) /\ UNCHANGED <<slips, repairs>>
                     \/ Up(slips, MaxSlips) /\ UNCHANGED <<failures, repairs>>
                     \/ Up(repairs, MaxRepairs) /\ UNCHANGED <<failures, slips>>
  <1>1. ASSUME NEW w \in Worker, Pop(w) PROVE Same
    BY <1>1 DEF Pop, countVars
  <1>2. ASSUME NEW c \in DOMAIN chapter, NEW s \in ChapterStage, NEW skip \in BOOLEAN,
               RetryChapter(c, s, skip)
        PROVE  More
    BY <1>2 DEF RetryChapter
  <1>3. ASSUME NEW w \in Worker, HandleChapter(w) PROVE More
    BY <1>3 DEF HandleChapter, StartStage, RequeueBusy, Transcribe, Park, Dub, MergeChapter,
       CountChapters, EnqueueMerge, CompleteChapter, Shortcut, MarkEpisodeRunning, RefreshJob,
       Advance, StageFails, MirrorFailure, FailEpisode, countVars
  <1>4. ASSUME NEW w \in Worker, HandleEpisode(w) PROVE More
    BY <1>4 DEF HandleEpisode, ExtractGlossary, EnqueueChapterize, LoadEpisode, DecideCuts,
       ResumeChapter1, NarrowChapter1, CreateChapterJob, BumpTotal, DispatchEpisode, FanOut,
       CheckChapters, Concat, WriteFinal, EmptyOutput, Clamp, RecordOutput, MergeFails,
       EpisodeStageFails, countVars
  <1>5. More
    BY <1>1, <1>2, <1>3, <1>4 DEF Next
  <1>6. failures \in 0..MaxFailures /\ slips \in 0..MaxSlips /\ repairs \in 0..MaxRepairs
    BY DEF TypeOK
  <1> QED  BY <1>5, <1>6, EpisodeAssumption

\* The initial state has the right types.
LEMMA TypesInit == Init => TypeOK
  <1> SUFFICES ASSUME Init PROVE TypeOK
    OBVIOUS
  <1> USE DEF Init
  <1>1. epStatus \in EpisodeStatus /\ total \in 1..MaxChapters /\ plan \in 0..MaxChapters
    BY EpisodeAssumption DEF EpisodeStatus
  <1>2. chapter \in Seq([status : JobStatus, version : Nat]) /\ Len(chapter) \in 1..MaxChapters
    BY EpisodeAssumption DEF JobStatus
  <1>3. /\ transcribed \in BOOLEAN /\ whole \in BOOLEAN /\ long \in BOOLEAN /\ final \in Seq(Nat)
        /\ lost \in BOOLEAN /\ emptied \in BOOLEAN
    <2>1. long \in BOOLEAN
      BY EpisodeAssumption
    <2>2. transcribed \in BOOLEAN /\ whole \in BOOLEAN /\ lost \in BOOLEAN /\ emptied \in BOOLEAN
      OBVIOUS
    <2>3. final \in Seq(Nat)
      OBVIOUS
    <2> QED  BY <2>1, <2>2, <2>3
  <1>4. ready \in Seq(Task)
    <2>1. ChapterTask(1, "asr") \in Task
      BY EpisodeAssumption DEF Task, ChapterTask, ChapterStage
    <2> QED  BY <2>1
  <1>5. /\ pc \in [Worker -> {"idle", "start"} \cup Leased \cup EpisodeStep]
        /\ task \in [Worker -> Task \cup {NoTask}] /\ \A w \in Worker : pc[w] = "idle"
    OBVIOUS
  <1>6. seen \in [Worker -> Noted]
    BY UnseenIsNoted
  <1>7. failures \in 0..MaxFailures /\ slips \in 0..MaxSlips /\ repairs \in 0..MaxRepairs
    BY EpisodeAssumption
  <1> QED  BY <1>1, <1>2, <1>3, <1>4, <1>5, <1>6, <1>7 DEF TypeOK, Noted

\* Every step keeps them.
LEMMA TypesStep ==
  ASSUME Whole, TypeOK, [Next]_vars
  PROVE  TypeOK'
  <1>1. CASE Next
    <2>1. WorkersOK' /\ RowsOK'
      BY <1>1, IInvStep DEF Whole, IInv
    <2>2. /\ ready' \in Seq(Task) /\ task' \in [Worker -> Task \cup {NoTask}]
          /\ \A w \in Worker : pc'[w] # "idle" => task'[w] \in Task
      BY <1>1, TasksStep DEF Whole, HoldersWork
    <2>3. seen' \in [Worker -> Noted]
      <3>1. \A w \in Worker : Within(seen'[w])
        BY <1>1, NotesStep DEF Whole
      <3>2. seen' \in [Worker -> Reading]
        BY <2>1 DEF WorkersOK
      <3>3. \A w \in Worker : seen'[w] \in Noted
        BY <3>1, <3>2, NotedIsWithin
      <3> QED  BY <3>2, <3>3
    <2>4. /\ total' \in 1..MaxChapters /\ plan' \in 0..MaxChapters
          /\ Len(chapter') \in 1..MaxChapters
          /\ transcribed' \in BOOLEAN /\ whole' \in BOOLEAN /\ long' \in BOOLEAN
          /\ lost' \in BOOLEAN /\ emptied' \in BOOLEAN
      BY <1>1, RowsStep DEF Whole
    <2>7. final' \in Seq(Nat)
      BY <1>1, WholeStep DEF Whole, MergeReadsAll
    <2>5. failures' \in 0..MaxFailures /\ slips' \in 0..MaxSlips /\ repairs' \in 0..MaxRepairs
      BY <1>1, LimitsStep
    <2>6. /\ epStatus' \in EpisodeStatus /\ chapter' \in Seq([status : JobStatus, version : Nat])
          /\ pc' \in [Worker -> {"idle", "start"} \cup Leased \cup EpisodeStep]
      BY <2>1 DEF RowsOK, WorkersOK, Row, Label
    <2> QED  BY <2>2, <2>3, <2>4, <2>5, <2>6, <2>7 DEF TypeOK, Noted
  <1>2. CASE UNCHANGED vars
    BY <1>2 DEF TypeOK, vars, rowVars, countVars
  <1> QED  BY <1>1, <1>2

\* Every variable keeps its type: no plan, loop or late task takes the episode
\* past its chapters, and no worker works without a task.
THEOREM EpisodeTypeCorrect == Spec => []TypeOK
  <1>1. Init => Whole /\ TypeOK
    BY WholeInit, TypesInit
  <1>2. Whole /\ TypeOK /\ [Next]_vars => (Whole /\ TypeOK)'
    BY WholeStep, TypesStep
  <1> QED  BY <1>1, <1>2, PTL DEF Spec
=============================================================================
