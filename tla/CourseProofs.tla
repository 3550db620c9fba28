---------------------------- MODULE CourseProofs -----------------------------
(***************************************************************************)
(* Proofs about CourseControl: whichever tool starts a lecture and however *)
(* old the files it reads are, the lectures before it have been accepted;  *)
(* and what counts as accepted is complete. They hold for any number of    *)
(* lectures, finalizers, episodes, reviews and faults.                     *)
(***************************************************************************)
EXTENDS CourseControl, SequenceTheorems, FiniteSetTheorems, WellFoundedInduction, TLAPS

----------------------------------------------------------------------------
(* Lemmas on the operators of CourseStatus                                 *)

(* Every set of numbers that is not empty has a least one.                 *)
LEMMA LeastNumber ==
    ASSUME NEW T \in SUBSET Nat, T # {}
    PROVE  \E x \in T : \A y \in T : x =< y
<1>1. PICK x \in T : \A y \in T : ~(<<y, x>> \in OpToRel(<, Nat))
  BY NatLessThanWellFounded, WFMin
<1>2. \A y \in T : ~(y < x)
  BY <1>1 DEF OpToRel
<1> QED
  BY <1>2

(* Min is a member of the set and below all of it.                         *)
LEMMA MinIsLeast ==
    ASSUME NEW S \in SUBSET Nat, S # {}
    PROVE  Min(S) \in S /\ \A y \in S : Min(S) =< y
BY LeastNumber DEF Min

(* Max of numbers up to n is one of them.                                  *)
LEMMA MaxIsMember ==
    ASSUME NEW n \in Nat, NEW S \in SUBSET (1..n), S # {}
    PROVE  Max(S) \in S
<1> DEFINE T == {k \in Nat : \A y \in S : y =< k}
<1>1. n \in T
  OBVIOUS
<1>2. PICK m \in T : \A k \in T : m =< k
  <2> HIDE DEF T
  <2>1. T \in SUBSET Nat
    BY DEF T
  <2> QED
    BY <1>1, <2>1, LeastNumber
<1>3. m \in S
  <2> SUFFICES ASSUME m \notin S PROVE FALSE
    OBVIOUS
  <2>1. PICK s \in S : TRUE
    OBVIOUS
  <2>2. m - 1 \in Nat /\ \A y \in S : y =< m - 1
    BY <2>1
  <2> QED
    BY <1>2, <2>2
<1>4. m \in S /\ \A y \in S : m >= y
  BY <1>3
<1> QED
  BY <1>4 DEF Max

(* The latest episode, when there is one, is an episode of the lecture.    *)
LEMMA LatestIsEpisode ==
    ASSUME NEW eps \in Seq([lecture : Lectures, status : EpisodeStatuses]), NEW l
    PROVE  /\ LatestEpisode(eps, l) \in {0} \cup EpisodesOf(eps, l)
           /\ LatestCompleted(eps, l) \in {0} \cup EpisodesOf(eps, l)
<1> DEFINE C == {i \in EpisodesOf(eps, l) : eps[i].status = "completed"}
<1>1. Len(eps) \in Nat /\ EpisodesOf(eps, l) \in SUBSET (1..Len(eps))
  BY DEF EpisodesOf
<1>2. C \in SUBSET (1..Len(eps)) /\ C \subseteq EpisodesOf(eps, l)
  BY <1>1
<1>3. LatestEpisode(eps, l) \in {0} \cup EpisodesOf(eps, l)
  BY <1>1, MaxIsMember DEF LatestEpisode, MaxOr0
<1>4. MaxOr0(C) \in {0} \cup C
  <2> HIDE DEF C
  <2> QED
    BY <1>1, <1>2, MaxIsMember DEF MaxOr0
<1>5. LatestCompleted(eps, l) = MaxOr0(C)
  BY DEF LatestCompleted
<1> QED
  BY <1>2, <1>3, <1>4, <1>5

(* The tracker has a row of the declared shape for every lecture.          *)
LEMMA TrackerTyped ==
    ASSUME NEW src \in [Lectures -> SourceStates],
           NEW eps \in Seq([lecture : Lectures, status : EpisodeStatuses]),
           Len(eps) <= MaxEpisodes, MaxEpisodes \in Nat
    PROVE  BuildTracker(src, eps) \in [Lectures -> TrackerRows]
<1> SUFFICES ASSUME NEW l \in Lectures
             PROVE  TrackerRow(src[l], eps, l) \in TrackerRows
  BY DEF BuildTracker
<1> DEFINE latest == LatestEpisode(eps, l)
<1> DEFINE done == LatestCompleted(eps, l)
<1>1. Len(eps) \in Nat /\ EpisodesOf(eps, l) \subseteq 1..Len(eps)
  BY DEF EpisodesOf
<1>2. latest \in {0} \cup EpisodesOf(eps, l) /\ done \in {0} \cup EpisodesOf(eps, l)
  BY LatestIsEpisode
<1> HIDE DEF latest, done
<1>3. /\ latest \in 0..MaxEpisodes /\ done \in 0..MaxEpisodes
      /\ latest # 0 => latest \in 1..Len(eps)
  BY <1>1, <1>2
<1>5. latest # 0 => eps[latest].status \in EpisodeStatuses
  <2>1. ASSUME NEW i \in 1..Len(eps)
        PROVE  eps[i] \in [lecture : Lectures, status : EpisodeStatuses]
    BY <2>1, ElementOfSeq
  <2> QED
    BY <1>3, <2>1
<1>4. ClassifyLecture(src[l], eps, l) \in TrackerStatuses
  BY <1>5 DEF latest, ClassifyLecture, TrackerStatuses, EpisodeStatuses
<1> QED
  BY <1>3, <1>4 DEF latest, done, TrackerRow, TrackerRows

(* The acceptance table has the declared shape, and it shows a lecture as  *)
(* accepted only if the lecture's manifest is.                             *)
LEMMA TableTyped ==
    ASSUME NEW rows \in [Lectures -> TrackerRows], NEW ds \in [Lectures -> Dirs]
    PROVE  /\ AcceptanceTable(rows, ds) \in [Lectures -> [status : AcceptanceStatuses,
                                                          ready : BOOLEAN]]
           /\ \A l \in Lectures : AcceptanceTable(rows, ds)[l].status = "accepted"
                                     => ds[l].manifest.accepted
<1> SUFFICES ASSUME NEW l \in Lectures
             PROVE  /\ LectureAcceptance(rows[l], ds[l]) \in [status : AcceptanceStatuses,
                                                               ready : BOOLEAN]
                    /\ LectureAcceptance(rows[l], ds[l]).status = "accepted"
                          => ds[l].manifest.accepted
  BY DEF AcceptanceTable
<1> DEFINE missing == BoardMissing(rows[l], ds[l])
           status == AcceptanceStatus(rows[l], ds[l], missing)
<1>1. status \in AcceptanceStatuses /\ (status = "accepted" => ds[l].manifest.accepted)
  <2> HIDE DEF missing
  <2> QED
    BY DEF AcceptanceStatus, AcceptanceStatuses, ManifestOnBoard, NoManifest
<1>2. LectureAcceptance(rows[l], ds[l]).status = status
      /\ LectureAcceptance(rows[l], ds[l]).ready \in BOOLEAN
      /\ LectureAcceptance(rows[l], ds[l])
            = [status |-> LectureAcceptance(rows[l], ds[l]).status,
               ready |-> LectureAcceptance(rows[l], ds[l]).ready]
  BY DEF LectureAcceptance
<1> QED
  BY <1>1, <1>2

(* A decision names a lecture of the course, and it starts one only when   *)
(* the table shows every lecture before it as accepted.                    *)
LEMMA DecisionTyped ==
    ASSUME NEW rows \in [Lectures -> TrackerRows],
           NEW acc \in [Lectures -> [status : AcceptanceStatuses, ready : BOOLEAN]],
           NEW fin, NEW g, NumLectures \in Nat
    PROVE  LET action == DecideNextAction(rows, acc, fin, g)
           IN  /\ action \in Actions
               /\ action.status \in {"ready_to_start", "ready_to_finalize"}
                     => action.lecture \in Lectures
               /\ action.status = "ready_to_start"
                     => \A m \in 1..(action.lecture - 1) : acc[m].status = "accepted"
<1> DEFINE open == {l \in Lectures : acc[l].status # "accepted"}
           n == Min(open)
           action == DecideNextAction(rows, acc, fin, g)
<1>1. CASE open = {}
  <2>1. action = [status |-> "all_lectures_accepted", lecture |-> 0]
    BY <1>1 DEF DecideNextAction
  <2> QED
    BY <2>1 DEF Actions, ActionStatuses
<1>2. CASE open # {}
  <2>1. open \in SUBSET Nat
    BY DEF Lectures
  <2>2. n \in open /\ \A y \in open : n =< y
    BY <1>2, <2>1, MinIsLeast
  <2>3. n \in Lectures /\ acc[n].status \in AcceptanceStatuses \ {"accepted"}
    BY <2>2
  <2>4. action.lecture = n /\ action.status \in ActionStatuses
        /\ action = [status |-> action.status, lecture |-> action.lecture]
    BY <1>2, <2>3 DEF DecideNextAction, AcceptanceStatuses, ActionStatuses
  <2>5. \A m \in 1..(n - 1) : acc[m].status = "accepted"
    BY <2>2 DEF Lectures
  <2> HIDE DEF action, n, open
  <2>6. action \in Actions
    BY <2>3, <2>4 DEF Actions, Lectures
  <2> QED
    BY <2>3, <2>4, <2>5, <2>6 DEF action
<1> QED
  BY <1>1, <1>2

----------------------------------------------------------------------------
(* The inductive invariant                                                 *)

\* Who works on a lecture names one of the course, and an episode.
Placed ==
    /\ \A f \in Finalizers : finalizer[f].pc # "gone" => finalizer[f].lecture \in Lectures
    /\ \A f \in Finalizers : finalizer[f].pc \in {"audit", "publish"} => finalizer[f].episode # 0
    /\ \A a \in Advancers : advancer[a].pc \in {"start", "spawn"}
                                => advancer[a].action.lecture \in Lectures
    /\ reviewer.pc # "away" => reviewer.lecture \in Lectures

\* No file and no process holds an acceptance that nobody gave.
Licensed ==
    /\ \A l \in Lectures : dirs[l].manifest.accepted => l \in everAccepted
    /\ \A l \in Lectures : accTable[l].status = "accepted" => l \in everAccepted
    /\ \A a \in Advancers : advancer[a].pc = "start"
                                => 1..(advancer[a].action.lecture - 1) \subseteq everAccepted

\* The seven artifacts of a manifest and its directory.
Complete(d, manifest) ==
    /\ manifest.episode # 0 /\ manifest.asr /\ manifest.pack
    /\ d.asr # 0 /\ d.fit # 0 /\ d.pack # 0 /\ d.prov # 0

\* An accepted manifest is complete, and so is the copy the accept tool holds.
Backed ==
    /\ \A l \in Lectures : dirs[l].manifest.accepted => Complete(dirs[l], dirs[l].manifest)
    /\ reviewer.pc = "accept" => Complete(dirs[reviewer.lecture], reviewer.manifest)

LEMMA CompleteMeansNothingMissing ==
    ASSUME NEW d \in Dirs
    PROVE  AcceptMissing(d) = {} <=> Complete(d, d.manifest)
<1> DEFINE found == [final_video |-> d.manifest.episode # 0,
                     final_audio |-> d.asr # 0,
                     final_mix_asr_report |-> d.manifest.asr /\ d.asr # 0,
                     fit_audit |-> d.fit # 0,
                     human_review_pack |-> d.manifest.pack /\ d.pack # 0,
                     risk_queue |-> d.prov # 0,
                     adapter_profile_provenance |-> d.prov # 0]
<1>1. AcceptMissing(d) = {a \in DOMAIN found : ~found[a]}
  BY DEF AcceptMissing
<1>2. DOMAIN found = {"final_video", "final_audio", "final_mix_asr_report", "fit_audit",
                      "human_review_pack", "risk_queue", "adapter_profile_provenance"}
  OBVIOUS
<1>3. (\A a \in DOMAIN found : found[a]) <=> Complete(d, d.manifest)
  <2>1. d.manifest.asr \in BOOLEAN /\ d.manifest.pack \in BOOLEAN
    BY DEF Dirs, Manifests
  <2>2. (\A a \in DOMAIN found : found[a])
          <=> /\ found.final_video /\ found.final_audio /\ found.final_mix_asr_report
              /\ found.fit_audit /\ found.human_review_pack /\ found.risk_queue
              /\ found.adapter_profile_provenance
    <3> HIDE DEF found
    <3> QED
      BY <1>2
  <2> QED
    BY <2>1, <2>2 DEF Complete
<1> HIDE DEF found
<1> QED
  BY <1>1, <1>3

----------------------------------------------------------------------------
(* What the shared steps of several actions do to the files                *)

LEMMA TrackerRefreshedTyped ==
    ASSUME CourseTypeOK, TrackerRefreshed
    PROVE  tracker' \in [Lectures -> TrackerRows] /\ faults' \in 0..MaxFaults
<1>1. BuildTracker(source, episodes) \in [Lectures -> TrackerRows]
  BY TrackerTyped, CourseAssumption DEF CourseTypeOK
<1> QED
  BY <1>1, CourseAssumption DEF CourseTypeOK, TrackerRefreshed, Fault, NoFault

LEMMA StatusRefreshedTyped ==
    ASSUME CourseTypeOK, StatusRefreshed, dirs' \in [Lectures -> Dirs]
    PROVE  /\ tracker' \in [Lectures -> TrackerRows] /\ faults' \in 0..MaxFaults
           /\ accTable' \in [Lectures -> [status : AcceptanceStatuses, ready : BOOLEAN]]
           /\ accTable' # accTable
                => \A l \in Lectures : accTable'[l].status = "accepted" => dirs'[l].manifest.accepted
<1>1. BuildTracker(source, episodes) \in [Lectures -> TrackerRows]
  BY TrackerTyped, CourseAssumption DEF CourseTypeOK
<1>2. CASE /\ tracker' = BuildTracker(source, episodes)
           /\ accTable' = AcceptanceTable(tracker', dirs') /\ NoFault
  BY <1>1, <1>2, TableTyped DEF CourseTypeOK, NoFault
<1>3. CASE UNCHANGED <<tracker, accTable>> /\ Fault
  BY <1>3, CourseAssumption DEF CourseTypeOK, Fault
<1> QED
  BY <1>2, <1>3 DEF StatusRefreshed

LEMMA NewEpisodeTyped ==
    ASSUME CourseTypeOK, NEW l \in Lectures, NewEpisode(l)
    PROVE  /\ episodes' \in Seq([lecture : Lectures, status : EpisodeStatuses])
           /\ Len(episodes') <= MaxEpisodes
           /\ \A i \in DOMAIN episodes' : \/ i \in DOMAIN episodes /\ episodes'[i] = episodes[i]
                                          \/ episodes'[i].lecture = l
<1> DEFINE Episode == [lecture : Lectures, status : EpisodeStatuses]
           new == [lecture |-> l, status |-> "running"]
<1>1. new \in Episode /\ new.lecture = l
  BY DEF EpisodeStatuses
<1>2. /\ episodes \in Seq(Episode) /\ Len(episodes) < MaxEpisodes
      /\ episodes' = Append(episodes, new)
  <2> DEFINE others == Cardinality(Unstarted \ {l})
  <2>1. others \in Nat
    <3>1. IsFiniteSet(Lectures)
      BY CourseAssumption, FS_Interval DEF Lectures
    <3>2. Unstarted \ {l} \subseteq Lectures
      BY DEF Unstarted
    <3>3. IsFiniteSet(Unstarted \ {l})
      BY <3>1, <3>2, FS_Subset
    <3> QED
      BY <3>3, FS_CardinalityType
  <2>2. /\ Len(episodes) + others < MaxEpisodes
        /\ episodes' = Append(episodes, new)
    BY DEF NewEpisode
  <2>3. episodes \in Seq(Episode)
    BY DEF CourseTypeOK
  <2> HIDE DEF others, new, Episode
  <2>4. Len(episodes) \in Nat
    BY <2>3
  <2> QED
    BY <2>1, <2>2, <2>3, <2>4, CourseAssumption
<1> HIDE DEF new, Episode
<1>3. /\ episodes' \in Seq(Episode) /\ Len(episodes') = Len(episodes) + 1
      /\ \A i \in 1..Len(episodes) : episodes'[i] = episodes[i]
      /\ episodes'[Len(episodes) + 1] = new
  BY <1>1, <1>2, AppendProperties
<1>4. /\ DOMAIN episodes' = 1..(Len(episodes) + 1) /\ DOMAIN episodes = 1..Len(episodes)
      /\ Len(episodes) \in Nat
  BY <1>2, <1>3
<1> QED
  BY <1>1, <1>2, <1>3, <1>4, CourseAssumption DEF Episode

(* A decision, whatever the refresh before it could do, is licensed by the *)
(* acceptance table it read.                                               *)
LEMMA DecideTyped ==
    ASSUME CourseTypeOK, NEW a \in Advancers, Decide(a), UNCHANGED dirs
    PROVE  /\ tracker' \in [Lectures -> TrackerRows] /\ faults' \in 0..MaxFaults
           /\ accTable' \in [Lectures -> [status : AcceptanceStatuses, ready : BOOLEAN]]
           /\ accTable' # accTable
                => \A l \in Lectures : accTable'[l].status = "accepted" => dirs'[l].manifest.accepted
           /\ Decided \in Actions
           /\ Decided.status \in {"ready_to_start", "ready_to_finalize"}
                => Decided.lecture \in Lectures
           /\ Decided.status = "ready_to_start"
                => \A m \in 1..(Decided.lecture - 1) : accTable'[m].status = "accepted"
<1>1. BuildTracker(source, episodes) \in [Lectures -> TrackerRows]
  BY TrackerTyped, CourseAssumption DEF CourseTypeOK
<1>2. /\ tracker' \in [Lectures -> TrackerRows] /\ faults' \in 0..MaxFaults
      /\ accTable' \in [Lectures -> [status : AcceptanceStatuses, ready : BOOLEAN]]
      /\ accTable' # accTable
           => \A l \in Lectures : accTable'[l].status = "accepted" => dirs'[l].manifest.accepted
  <2>1. CASE tracker' = BuildTracker(source, episodes)
             /\ accTable' = AcceptanceTable(tracker', dirs) /\ NoFault
    BY <1>1, <2>1, TableTyped DEF CourseTypeOK, NoFault
  <2>2. CASE tracker' = BuildTracker(source, episodes) /\ UNCHANGED accTable /\ Fault
    BY <1>1, <2>2, CourseAssumption DEF CourseTypeOK, Fault
  <2>3. CASE UNCHANGED <<tracker, accTable>> /\ Fault
    BY <2>3, CourseAssumption DEF CourseTypeOK, Fault
  <2> QED
    BY <2>1, <2>2, <2>3 DEF Decide
<1> QED
  BY <1>2, DecisionTyped, CourseAssumption DEF Decided

----------------------------------------------------------------------------
(* Types                                                                   *)

LEMMA CourseInitTyped == CourseInit => CourseTypeOK /\ Placed
<1> SUFFICES ASSUME CourseInit PROVE CourseTypeOK /\ Placed
  OBVIOUS
<1> USE CourseAssumption
<1>1. source \in [Lectures -> SourceStates] /\ 1 \in Lectures /\ 1 \in 0..NumLectures
  BY DEF CourseInit, Lectures
<1>2. episodes \in Seq([lecture : Lectures, status : EpisodeStatuses]) /\ Len(episodes) = 0
  BY DEF CourseInit
<1>3. dirs \in [Lectures -> Dirs] /\ NoManifest \in Manifests
  BY DEF CourseInit, EmptyDir, NoManifest, Dirs, Manifests, FitStatuses
<1>4. tracker \in [Lectures -> TrackerRows]
  <2>1. tracker = BuildTracker(source, episodes) /\ 0 <= MaxEpisodes /\ MaxEpisodes \in Nat
    BY DEF CourseInit
  <2> QED
    BY <1>1, <1>2, <2>1, TrackerTyped
<1>5. accTable \in [Lectures -> [status : AcceptanceStatuses, ready : BOOLEAN]]
  BY <1>3, <1>4, TableTyped DEF CourseInit
<1>6. Nothing \in Actions
  BY DEF Nothing, Actions
<1>7. finalizer \in [Finalizers -> [pc : FinalizerPlaces, lecture : 0..NumLectures,
                                   episode : 0..MaxEpisodes]]
      /\ \A f \in Finalizers : finalizer[f].pc \in {"gone", "poll"}
                               /\ (finalizer[f].pc # "gone" => finalizer[f].lecture \in Lectures)
  BY <1>1 DEF CourseInit, Gone, FinalizerPlaces
<1>8. advancer \in [Advancers -> [pc : AdvancerPlaces, action : Actions]]
      /\ \A a \in Advancers : advancer[a].pc \in {"idle", "stopped"}
  BY <1>6 DEF CourseInit, AdvancerPlaces
<1>9. finStatus \in [Lectures -> FinalizeStatuses] /\ gate \in BOOLEAN /\ auto \in {"waiting", "done"}
  BY DEF CourseInit, FinalizeStatuses
<1>10. everAccepted \subseteq Lectures /\ reviews \in 0..MaxReviews /\ faults \in 0..MaxFaults
  BY DEF CourseInit
<1>11. reviewer = [pc |-> "away", lecture |-> 0, manifest |-> NoManifest]
  BY DEF CourseInit, Away
<1>12. reviewer \in [pc : {"away", "accept", "advance", "block", "refresh"},
                    lecture : 0..NumLectures, manifest : Manifests] /\ reviewer.pc = "away"
  BY <1>3, <1>11
<1>13. Len(episodes) <= MaxEpisodes
  BY <1>2
<1> QED
  BY <1>1, <1>2, <1>3, <1>4, <1>5, <1>7, <1>8, <1>9, <1>10, <1>12, <1>13 DEF CourseTypeOK, Placed

(* The steps of the world.                                                 *)
LEMMA WorldTyped ==
    ASSUME CourseTypeOK, Placed,
           \/ \E l \in Lectures : SourceArrives(l) \/ OperatorRestarts(l)
           \/ \E i \in DOMAIN episodes : \E o \in {"completed", "failed"} : EpisodeEnds(i, o)
           \/ GateOpens
    PROVE  CourseTypeOK' /\ Placed'
<1> USE DEF fileVars, processVars, reviewVars
<1>1. ASSUME NEW l \in Lectures, SourceArrives(l) PROVE CourseTypeOK' /\ Placed'
  BY <1>1 DEF SourceArrives, CourseTypeOK, Placed, SourceStates
<1>2. ASSUME NEW l \in Lectures, OperatorRestarts(l) PROVE CourseTypeOK' /\ Placed'
  BY <1>2, NewEpisodeTyped DEF OperatorRestarts, CourseTypeOK, Placed
<1>3. ASSUME NEW i \in DOMAIN episodes, NEW o \in {"completed", "failed"}, EpisodeEnds(i, o)
      PROVE  CourseTypeOK' /\ Placed'
  <2> DEFINE Episode == [lecture : Lectures, status : EpisodeStatuses]
  <2>1. episodes \in Seq(Episode) /\ i \in 1..Len(episodes)
    BY DEF CourseTypeOK
  <2>2. [episodes[i] EXCEPT !.status = o] \in Episode
    <3>1. episodes[i] \in Episode
      BY <2>1, ElementOfSeq
    <3> QED
      BY <3>1 DEF EpisodeStatuses
  <2> HIDE DEF Episode
  <2>3. episodes' = [episodes EXCEPT ![i] = [episodes[i] EXCEPT !.status = o]]
    BY <1>3 DEF EpisodeEnds
  <2>4. episodes' \in Seq(Episode) /\ Len(episodes') = Len(episodes)
    BY <2>1, <2>2, <2>3, ExceptSeq
  <2> QED
    BY <1>3, <2>4 DEF Episode, EpisodeEnds, CourseTypeOK, Placed
<1>4. CASE GateOpens
  BY <1>4 DEF GateOpens, CourseTypeOK, Placed
<1> QED
  BY <1>1, <1>2, <1>3, <1>4

(* A finalizer's place after a step.                                       *)
LEMMA FinalizerPlaced ==
    ASSUME CourseTypeOK, NEW f \in Finalizers, NEW p \in FinalizerPlaces, NEW e \in 0..MaxEpisodes
    PROVE  /\ [finalizer EXCEPT ![f].pc = p, ![f].episode = e]
                \in [Finalizers -> [pc : FinalizerPlaces, lecture : 0..NumLectures,
                                   episode : 0..MaxEpisodes]]
           /\ [finalizer EXCEPT ![f].pc = p]
                \in [Finalizers -> [pc : FinalizerPlaces, lecture : 0..NumLectures,
                                   episode : 0..MaxEpisodes]]
           /\ [finalizer EXCEPT ![f] = Gone]
                \in [Finalizers -> [pc : FinalizerPlaces, lecture : 0..NumLectures,
                                   episode : 0..MaxEpisodes]]
<1> DEFINE Slot == [pc : FinalizerPlaces, lecture : 0..NumLectures, episode : 0..MaxEpisodes]
           moved == [finalizer[f] EXCEPT !.pc = p]
           loaded == [finalizer[f] EXCEPT !.pc = p, !.episode = e]
<1>1. finalizer \in [Finalizers -> Slot]
  BY DEF CourseTypeOK
<1>2. moved \in Slot /\ loaded \in Slot
  BY <1>1
<1>3. Gone \in Slot
  BY CourseAssumption DEF Gone, FinalizerPlaces
<1>4. /\ [finalizer EXCEPT ![f].pc = p] = [finalizer EXCEPT ![f] = moved]
      /\ [finalizer EXCEPT ![f].pc = p, ![f].episode = e] = [finalizer EXCEPT ![f] = loaded]
  BY <1>1
<1>5. ASSUME NEW new \in Slot PROVE [finalizer EXCEPT ![f] = new] \in [Finalizers -> Slot]
  BY <1>1
<1> HIDE DEF Slot, moved, loaded
<1>6. /\ [finalizer EXCEPT ![f].pc = p] \in [Finalizers -> Slot]
      /\ [finalizer EXCEPT ![f].pc = p, ![f].episode = e] \in [Finalizers -> Slot]
      /\ [finalizer EXCEPT ![f] = Gone] \in [Finalizers -> Slot]
  BY <1>2, <1>3, <1>4, <1>5
<1> QED
  BY <1>6 DEF Slot

LEMMA SpawnedTyped ==
    ASSUME CourseTypeOK, Placed, NEW l \in Lectures, Spawned(l)
    PROVE  /\ finalizer' \in [Finalizers -> [pc : FinalizerPlaces, lecture : 0..NumLectures,
                                             episode : 0..MaxEpisodes]]
           /\ \A f \in Finalizers : finalizer'[f].pc # "gone" => finalizer'[f].lecture \in Lectures
           /\ \A f \in Finalizers : finalizer'[f].pc \in {"audit", "publish"}
                                      => finalizer'[f].episode # 0
<1> DEFINE f == CHOOSE g \in Finalizers : FreeSlot(g)
           new == [pc |-> "poll", lecture |-> l, episode |-> 0]
<1>1. f \in Finalizers /\ finalizer' = [finalizer EXCEPT ![f] = new]
  BY DEF Spawned
<1>2. new \in [pc : FinalizerPlaces, lecture : 0..NumLectures, episode : 0..MaxEpisodes]
      /\ new.pc = "poll" /\ new.lecture \in Lectures
  BY CourseAssumption DEF FinalizerPlaces, Lectures
<1> HIDE DEF f, new
<1> QED
  BY <1>1, <1>2 DEF CourseTypeOK, Placed

LEMMA FinalizerTyped ==
    ASSUME CourseTypeOK, Placed, NEW f \in Finalizers,
           FinalizerStep(f) \/ WatchTimesOut(f) \/ FinalizerDies(f)
    PROVE  CourseTypeOK' /\ Placed'
<1> DEFINE l == finalizer[f].lecture
           e == finalizer[f].episode
<1> USE DEF worldVars, fileVars, reviewVars
<1>1. finalizer[f].pc # "gone" /\ l \in Lectures /\ e \in 0..MaxEpisodes
  BY DEF FinalizerStep, WatchTimesOut, FinalizerDies, Poll, Audit, Publish, CourseTypeOK, Placed
<1>2. dirs \in [Lectures -> Dirs]
  BY DEF CourseTypeOK
<1>3. CASE FinalizerStep(f) /\ Poll(f)
  <2>1. tracker' \in [Lectures -> TrackerRows] /\ faults' \in 0..MaxFaults
    BY <1>3, TrackerRefreshedTyped DEF Poll
  <2>2. /\ tracker'[l].completed \in 0..MaxEpisodes
        /\ Finalizable(tracker'[l]) => SelectedEpisode(tracker'[l]) \in 0..MaxEpisodes
                                       /\ SelectedEpisode(tracker'[l]) # 0
    BY <1>1, <2>1 DEF TrackerRows, Finalizable, SelectedEpisode
  <2>3. \/ /\ finalizer' = [finalizer EXCEPT ![f].pc = "audit",
                                            ![f].episode = SelectedEpisode(tracker'[l])]
           /\ Finalizable(tracker'[l]) /\ UNCHANGED finStatus
        \/ finalizer' = finalizer /\ finStatus' = [finStatus EXCEPT ![l] = "waiting"]
    BY <1>3 DEF Poll
  <2>4. finStatus' \in [Lectures -> FinalizeStatuses]
    BY <2>3 DEF CourseTypeOK, FinalizeStatuses
  <2> DEFINE sel == SelectedEpisode(tracker'[l])
  <2>5. /\ finalizer' \in [Finalizers -> [pc : FinalizerPlaces, lecture : 0..NumLectures,
                                         episode : 0..MaxEpisodes]]
        /\ \A g \in Finalizers : \/ finalizer'[g] = finalizer[g]
                                 \/ finalizer'[g].lecture = l /\ finalizer'[g].episode # 0
    <3>1. "audit" \in FinalizerPlaces
      BY DEF FinalizerPlaces
    <3>2. CASE finalizer' = finalizer
      BY <3>2 DEF CourseTypeOK
    <3>3. CASE /\ finalizer' = [finalizer EXCEPT ![f].pc = "audit", ![f].episode = sel]
               /\ sel \in 0..MaxEpisodes /\ sel # 0
      <4> HIDE DEF sel
      <4>1. finalizer' \in [Finalizers -> [pc : FinalizerPlaces, lecture : 0..NumLectures,
                                          episode : 0..MaxEpisodes]]
        BY <3>1, <3>3, FinalizerPlaced
      <4>2. \A g \in Finalizers : g # f => finalizer'[g] = finalizer[g]
        BY <3>3 DEF CourseTypeOK
      <4>3. finalizer'[f].lecture = l /\ finalizer'[f].episode = sel
        BY <3>3 DEF CourseTypeOK
      <4> QED
        BY <3>3, <4>1, <4>2, <4>3
    <3> QED
      BY <2>2, <2>3, <3>2, <3>3
  <2>6. /\ \A g \in Finalizers : finalizer'[g].pc # "gone" => finalizer'[g].lecture \in Lectures
        /\ \A g \in Finalizers : finalizer'[g].pc \in {"audit", "publish"}
                                   => finalizer'[g].episode # 0
    BY <1>1, <2>5 DEF Placed
  <2>7. UNCHANGED <<source, episodes, gate, dirs, accTable, advancer, auto, reviewer,
                    everAccepted, reviews>>
    BY <1>3 DEF FinalizerStep, Poll
  <2>8. finalizer' \in [Finalizers -> [pc : FinalizerPlaces, lecture : 0..NumLectures,
                                      episode : 0..MaxEpisodes]]
    BY <2>5
  <2>9. CourseTypeOK'
    BY <2>1, <2>4, <2>7, <2>8 DEF CourseTypeOK
  <2>10. Placed'
    BY <2>6, <2>7 DEF Placed
  <2> QED
    BY <2>9, <2>10
<1>4. CASE FinalizerStep(f) /\ Audit(f)
  <2>1. dirs' \in [Lectures -> Dirs] /\ faults' \in 0..MaxFaults
    <3>1. PICK asr \in {dirs[l].asr, e}, fit \in {dirs[l].asr, dirs[l].fit, e},
               v \in FitStatuses \cup {dirs[l].fitStatus} :
             dirs' = [dirs EXCEPT ![l].asr = asr, ![l].fit = fit, ![l].fitStatus = v]
      <4>1. \/ \E v \in FitStatuses :
                 dirs' = [dirs EXCEPT ![l].asr = e, ![l].fit = e, ![l].fitStatus = v]
            \/ \E v \in FitStatuses :
                 dirs' = [dirs EXCEPT ![l].asr = dirs[l].asr, ![l].fit = e, ![l].fitStatus = v]
            \/ \E v \in FitStatuses :
                 dirs' = [dirs EXCEPT ![l].asr = dirs[l].asr, ![l].fit = dirs[l].asr,
                                      ![l].fitStatus = v]
            \/ dirs' = [dirs EXCEPT ![l].asr = e, ![l].fit = dirs[l].fit,
                                    ![l].fitStatus = dirs[l].fitStatus]
            \/ dirs' = dirs
        BY <1>4 DEF Audit
      <4>2. dirs = [dirs EXCEPT ![l].asr = dirs[l].asr, ![l].fit = dirs[l].fit,
                                ![l].fitStatus = dirs[l].fitStatus]
        BY <1>2 DEF Dirs
      <4> QED
        BY <4>1, <4>2
    <3> DEFINE new == [dirs[l] EXCEPT !.asr = asr, !.fit = fit, !.fitStatus = v]
    <3>2. new \in Dirs
      BY <1>1, <1>2 DEF Dirs
    <3>3. dirs' = [dirs EXCEPT ![l] = new]
      BY <1>1, <1>2, <3>1
    <3> HIDE DEF new, l
    <3>4. dirs' \in [Lectures -> Dirs]
      BY <1>1, <1>2, <3>2, <3>3
    <3>5. faults' \in 0..MaxFaults
      BY <1>4, CourseAssumption DEF Audit, Fault, NoFault, CourseTypeOK
    <3> QED
      BY <3>4, <3>5
  <2>2. finalizer' = [finalizer EXCEPT ![f].pc = "publish"] /\ finalizer[f].pc = "audit"
    BY <1>4 DEF Audit
  <2>3. finalizer' \in [Finalizers -> [pc : FinalizerPlaces, lecture : 0..NumLectures,
                                      episode : 0..MaxEpisodes]]
    BY <1>1, <2>2, FinalizerPlaced DEF FinalizerPlaces
  <2>4. /\ \A g \in Finalizers : finalizer'[g].pc # "gone" => finalizer'[g].lecture \in Lectures
        /\ \A g \in Finalizers : finalizer'[g].pc \in {"audit", "publish"}
                                   => finalizer'[g].episode # 0
    BY <2>2 DEF Placed, CourseTypeOK
  <2> QED
    BY <1>4, <2>1, <2>3, <2>4 DEF FinalizerStep, Audit, CourseTypeOK, Placed
<1>5. CASE FinalizerStep(f) /\ Publish(f)
  <2>1. dirs' \in [Lectures -> Dirs]
    BY <1>1, <1>2, <1>5 DEF Publish, Dirs, Manifests
  <2>2. /\ tracker' \in [Lectures -> TrackerRows] /\ faults' \in 0..MaxFaults
        /\ accTable' \in [Lectures -> [status : AcceptanceStatuses, ready : BOOLEAN]]
    BY <1>5, <2>1, StatusRefreshedTyped, CourseAssumption DEF Publish, Fault, CourseTypeOK
  <2>3. finalizer' = [finalizer EXCEPT ![f] = Gone]
        /\ finStatus' = [finStatus EXCEPT ![l] = "finalized_for_human_review"]
    BY <1>5 DEF Publish
  <2>4. finStatus' \in [Lectures -> FinalizeStatuses]
    BY <2>3 DEF CourseTypeOK, FinalizeStatuses
  <2>5. finalizer' \in [Finalizers -> [pc : FinalizerPlaces, lecture : 0..NumLectures,
                                      episode : 0..MaxEpisodes]]
    BY <1>1, <2>3, FinalizerPlaced DEF FinalizerPlaces
  <2>6. /\ \A g \in Finalizers : finalizer'[g].pc # "gone" => finalizer'[g].lecture \in Lectures
        /\ \A g \in Finalizers : finalizer'[g].pc \in {"audit", "publish"}
                                   => finalizer'[g].episode # 0
    BY <2>3 DEF Placed, CourseTypeOK, Gone
  <2> QED
    BY <1>5, <2>1, <2>2, <2>4, <2>5, <2>6 DEF FinalizerStep, Publish, CourseTypeOK, Placed
<1>6. CASE WatchTimesOut(f) \/ FinalizerDies(f)
  <2>1. BuildTracker(source, episodes) \in [Lectures -> TrackerRows]
    BY TrackerTyped, CourseAssumption DEF CourseTypeOK
  <2>2. finalizer' = [finalizer EXCEPT ![f] = Gone]
    BY <1>6 DEF WatchTimesOut, FinalizerDies
  <2>3. finalizer' \in [Finalizers -> [pc : FinalizerPlaces, lecture : 0..NumLectures,
                                      episode : 0..MaxEpisodes]]
    BY <1>1, <2>2, FinalizerPlaced DEF FinalizerPlaces
  <2>4. /\ \A g \in Finalizers : finalizer'[g].pc # "gone" => finalizer'[g].lecture \in Lectures
        /\ \A g \in Finalizers : finalizer'[g].pc \in {"audit", "publish"}
                                   => finalizer'[g].episode # 0
    BY <2>2 DEF Placed, CourseTypeOK, Gone
  <2>5. faults' \in 0..MaxFaults
    BY <1>6, CourseAssumption DEF WatchTimesOut, FinalizerDies, Fault, CourseTypeOK
  <2>6. finStatus' \in [Lectures -> FinalizeStatuses] /\ tracker' \in [Lectures -> TrackerRows]
    BY <1>6, <2>1 DEF WatchTimesOut, FinalizerDies, CourseTypeOK, FinalizeStatuses
  <2> QED
    BY <1>6, <2>3, <2>4, <2>5, <2>6 DEF WatchTimesOut, FinalizerDies, CourseTypeOK, Placed
<1> QED
  BY <1>3, <1>4, <1>5, <1>6 DEF FinalizerStep

(* An advancer's place after a step: working only on a lecture.            *)
LEMMA AdvancerPlaced ==
    ASSUME CourseTypeOK, Placed, NEW a \in Advancers, NEW p \in AdvancerPlaces, NEW act \in Actions,
           p \in {"start", "spawn"} => act.lecture \in Lectures,
           advancer' = [advancer EXCEPT ![a] = [pc |-> p, action |-> act]]
    PROVE  /\ advancer' \in [Advancers -> [pc : AdvancerPlaces, action : Actions]]
           /\ \A b \in Advancers : advancer'[b].pc \in {"start", "spawn"}
                                      => advancer'[b].action.lecture \in Lectures
BY DEF CourseTypeOK, Placed

LEMMA PassEndsPlaced ==
    ASSUME CourseTypeOK, Placed, NEW a \in Advancers, PassEnds(a)
    PROVE  /\ advancer' \in [Advancers -> [pc : AdvancerPlaces, action : Actions]]
           /\ \A b \in Advancers : advancer'[b].pc \in {"start", "spawn"}
                                      => advancer'[b].action.lecture \in Lectures
           /\ advancer'[a].pc \in {"idle", "stopped"}
           /\ \A b \in Advancers \ {a} : advancer'[b] = advancer[b]
<1> DEFINE p == IF a = "watch" /\ ~WatchEnds(advancer[a].action) THEN "idle" ELSE "stopped"
<1>1. advancer' = [advancer EXCEPT ![a] = [pc |-> p, action |-> Nothing]]
  BY DEF PassEnds, Passed, CourseTypeOK
<1>2. Nothing \in Actions /\ p \in AdvancerPlaces /\ p \in {"idle", "stopped"}
  BY CourseAssumption DEF Nothing, Actions, AdvancerPlaces
<1> HIDE DEF p
<1> QED
  BY <1>1, <1>2, AdvancerPlaced DEF CourseTypeOK

LEMMA AdvancerTyped ==
    ASSUME CourseTypeOK, Placed, NEW a \in Advancers, AdvancerStep(a)
    PROVE  CourseTypeOK' /\ Placed'
<1> USE DEF reviewVars
<1>1. CASE Decide(a)
  <2> DEFINE p == CASE Decided.status = "ready_to_start" -> "start"
                    [] Decided.status = "ready_to_finalize" -> "spawn"
                    [] OTHER -> IF a = "watch" /\ ~WatchEnds(Decided) THEN "idle" ELSE "stopped"
             act == IF Decided.status \in {"ready_to_start", "ready_to_finalize"}
                    THEN Decided ELSE Nothing
  <2>1. UNCHANGED <<source, episodes, gate, dirs, finStatus, finalizer, auto, reviewer,
                    everAccepted, reviews>>
    BY <1>1 DEF AdvancerStep, Decide
  <2>2. /\ tracker' \in [Lectures -> TrackerRows] /\ faults' \in 0..MaxFaults
        /\ accTable' \in [Lectures -> [status : AcceptanceStatuses, ready : BOOLEAN]]
        /\ Decided \in Actions
        /\ Decided.status \in {"ready_to_start", "ready_to_finalize"}
             => Decided.lecture \in Lectures
    BY <1>1, <2>1, DecideTyped
  <2>3. advancer' = [advancer EXCEPT ![a] = [pc |-> p, action |-> act]]
    BY <1>1 DEF Decide, Passed
  <2>4. /\ p \in AdvancerPlaces /\ act \in Actions
        /\ p \in {"start", "spawn"} => act.lecture \in Lectures
    <3>1. Nothing \in Actions
      BY CourseAssumption DEF Nothing, Actions
    <3> QED
      BY <2>2, <3>1 DEF AdvancerPlaces
  <2> HIDE DEF p, act
  <2>5. /\ advancer' \in [Advancers -> [pc : AdvancerPlaces, action : Actions]]
        /\ \A b \in Advancers : advancer'[b].pc \in {"start", "spawn"}
                                   => advancer'[b].action.lecture \in Lectures
    BY <2>3, <2>4, AdvancerPlaced
  <2> QED
    BY <2>1, <2>2, <2>5 DEF CourseTypeOK, Placed
<1>2. CASE StartLecture(a)
  <2>1. UNCHANGED <<source, gate, dirs, finStatus, auto, reviewer, everAccepted, reviews,
                    tracker, accTable, finalizer>>
    BY <1>2 DEF AdvancerStep, StartLecture
  <2>2. advancer[a].pc = "start" /\ advancer[a].action.lecture \in Lectures
    BY <1>2 DEF StartLecture, Placed
  <2>3. /\ episodes' \in Seq([lecture : Lectures, status : EpisodeStatuses])
        /\ Len(episodes') <= MaxEpisodes
    BY <1>2, <2>2, NewEpisodeTyped DEF StartLecture, CourseTypeOK
  <2>4. faults' \in 0..MaxFaults
    BY <1>2, CourseAssumption DEF StartLecture, CourseTypeOK, Fault, NoFault
  <2>5. /\ advancer' \in [Advancers -> [pc : AdvancerPlaces, action : Actions]]
        /\ \A b \in Advancers : advancer'[b].pc \in {"start", "spawn"}
                                   => advancer'[b].action.lecture \in Lectures
    <3>1. CASE PassEnds(a)
      BY <3>1, PassEndsPlaced
    <3>2. CASE advancer' = [advancer EXCEPT ![a].pc = "spawn"]
      BY <2>2, <3>2 DEF CourseTypeOK, Placed, AdvancerPlaces
    <3> QED
      BY <1>2, <3>1, <3>2 DEF StartLecture
  <2> QED
    BY <2>1, <2>3, <2>4, <2>5 DEF CourseTypeOK, Placed
<1>3. CASE SpawnFinalizer(a)
  <2>1. UNCHANGED <<source, gate, dirs, finStatus, auto, reviewer, everAccepted, reviews,
                    episodes, tracker, accTable, faults>>
    BY <1>3 DEF AdvancerStep, SpawnFinalizer
  <2>2. Spawned(advancer[a].action.lecture) /\ advancer[a].action.lecture \in Lectures
        /\ PassEnds(a)
    BY <1>3 DEF SpawnFinalizer, Placed
  <2> QED
    BY <2>1, <2>2, SpawnedTyped, PassEndsPlaced DEF CourseTypeOK, Placed
<1> QED
  BY <1>1, <1>2, <1>3 DEF AdvancerStep

(* The auto-advance watcher and the operator.                              *)
LEMMA OperatorTyped ==
    ASSUME CourseTypeOK, Placed,
           AutoStart \/ WatchAgain \/ \E l \in Lectures : OperatorFinalizes(l)
    PROVE  CourseTypeOK' /\ Placed'
<1> USE DEF worldVars, fileVars, reviewVars
<1>1. CASE AutoStart
  <2>1. 1 \in Lectures /\ BuildTracker(source, episodes) \in [Lectures -> TrackerRows]
    <3>1. 1 \in Lectures
      BY CourseAssumption DEF Lectures
    <3> QED
      BY <3>1, TrackerTyped, CourseAssumption DEF CourseTypeOK
  <2>2. tracker' \in [Lectures -> TrackerRows] /\ faults' \in 0..MaxFaults /\ auto' \in {"waiting", "done"}
    BY <1>1, <2>1, CourseAssumption DEF AutoStart, Fault, NoFault, CourseTypeOK
  <2>3. /\ episodes' \in Seq([lecture : Lectures, status : EpisodeStatuses])
        /\ Len(episodes') <= MaxEpisodes
    BY <1>1, <2>1, NewEpisodeTyped DEF AutoStart, CourseTypeOK
  <2> QED
    BY <1>1, <2>2, <2>3 DEF AutoStart, CourseTypeOK, Placed
<1>2. CASE WatchAgain
  BY <1>2 DEF WatchAgain, CourseTypeOK, Placed, Advancers, AdvancerPlaces
<1>3. ASSUME NEW l \in Lectures, OperatorFinalizes(l) PROVE CourseTypeOK' /\ Placed'
  BY <1>3, SpawnedTyped DEF OperatorFinalizes, CourseTypeOK, Placed
<1> QED
  BY <1>1, <1>2, <1>3

(* The reviewer's tools.                                                   *)
LEMMA ReviewTyped ==
    ASSUME CourseTypeOK, Placed,
           \/ \E l \in Lectures : AcceptReads(l) \/ BlockReads(l)
           \/ AcceptWrites \/ BlockWrites \/ ReviewEnds
    PROVE  CourseTypeOK' /\ Placed'
<1> USE DEF worldVars, fileVars, reviewVars
<1> DEFINE Reviewer == [pc : {"away", "accept", "advance", "block", "refresh"},
                        lecture : 0..NumLectures, manifest : Manifests]
<1>1. /\ NoManifest \in Manifests /\ \A l \in Lectures : l \in 0..NumLectures
      /\ \A l \in Lectures : dirs[l].manifest \in Manifests
      /\ "accept" \in Advancers
  <2>1. NoManifest \in Manifests
    BY CourseAssumption DEF NoManifest, Manifests
  <2>2. \A l \in Lectures : l \in 0..NumLectures
    BY CourseAssumption DEF Lectures
  <2>3. \A l \in Lectures : dirs[l].manifest \in Manifests
    BY DEF CourseTypeOK, Dirs
  <2> QED
    BY <2>1, <2>2, <2>3 DEF Advancers
<1>2. AcceptAdvances => /\ advancer' \in [Advancers -> [pc : AdvancerPlaces, action : Actions]]
                        /\ \A b \in Advancers : advancer'[b].pc \in {"start", "spawn"}
                                                => advancer'[b].action.lecture \in Lectures
  <2> SUFFICES ASSUME AcceptAdvances PROVE /\ advancer' \in [Advancers -> [pc : AdvancerPlaces, action : Actions]]
                                            /\ \A b \in Advancers : advancer'[b].pc \in {"start", "spawn"}
                                                => advancer'[b].action.lecture \in Lectures
    OBVIOUS
  <2> DEFINE act == advancer["accept"].action
  <2>1. act \in Actions /\ "idle" \in AdvancerPlaces
    BY <1>1 DEF CourseTypeOK, AdvancerPlaces
  <2>2. advancer' = [advancer EXCEPT !["accept"] = [pc |-> "idle", action |-> act]]
    <3>1. advancer["accept"] \in [pc : AdvancerPlaces, action : Actions]
      BY <1>1 DEF CourseTypeOK
    <3>2. [advancer["accept"] EXCEPT !.pc = "idle"] = [pc |-> "idle", action |-> act]
      BY <3>1
    <3>3. advancer' = [advancer EXCEPT !["accept"] = [advancer["accept"] EXCEPT !.pc = "idle"]]
      BY DEF AcceptAdvances
    <3> QED
      BY <3>2, <3>3
  <2> HIDE DEF act
  <2> QED
    BY <1>1, <2>1, <2>2, AdvancerPlaced
<1>3. Review => reviews' \in 0..MaxReviews
  BY CourseAssumption DEF Review, CourseTypeOK
<1>4. ASSUME NEW l \in Lectures, NEW d \in Dirs
      PROVE  [dirs EXCEPT ![l] = d] \in [Lectures -> Dirs]
  BY DEF CourseTypeOK
<1>5. ASSUME NEW l \in Lectures, AcceptReads(l) PROVE CourseTypeOK' /\ Placed'
  <2>1. reviewer' \in Reviewer /\ reviewer'.lecture = l
    BY <1>1, <1>5 DEF AcceptReads
  <2>2. reviews' \in 0..MaxReviews
    BY <1>3, <1>5 DEF AcceptReads, CourseTypeOK
  <2>3. /\ advancer' \in [Advancers -> [pc : AdvancerPlaces, action : Actions]]
        /\ \A b \in Advancers : advancer'[b].pc \in {"start", "spawn"}
                                   => advancer'[b].action.lecture \in Lectures
    BY <1>2, <1>5 DEF AcceptReads, CourseTypeOK, Placed
  <2>4. UNCHANGED <<source, episodes, gate, dirs, tracker, accTable, finStatus, finalizer, auto,
                    everAccepted, faults>>
    BY <1>5 DEF AcceptReads
  <2> QED
    BY <2>1, <2>2, <2>3, <2>4 DEF CourseTypeOK, Placed
<1>6. ASSUME NEW l \in Lectures, BlockReads(l) PROVE CourseTypeOK' /\ Placed'
  <2>1. reviewer' \in Reviewer /\ reviewer'.lecture = l /\ reviews' \in 0..MaxReviews
    BY <1>1, <1>3, <1>6 DEF BlockReads
  <2> QED
    BY <1>6, <2>1 DEF BlockReads, CourseTypeOK, Placed
<1>7. CASE AcceptWrites
  <2> DEFINE l == reviewer.lecture
             m == [reviewer.manifest EXCEPT !.accepted = TRUE]
             d == [dirs[l] EXCEPT !.manifest = m]
  <2>1. l \in Lectures /\ m \in Manifests
    BY <1>7 DEF AcceptWrites, CourseTypeOK, Placed, Manifests
  <2>2. d \in Dirs
    <3>1. dirs[l] \in Dirs
      BY <2>1 DEF CourseTypeOK
    <3> HIDE DEF m, l
    <3> QED
      BY <2>1, <3>1 DEF Dirs
  <2>3. dirs' = [dirs EXCEPT ![l] = d]
    BY <1>7 DEF AcceptWrites
  <2>4. reviewer' \in Reviewer /\ reviewer'.lecture = l
    BY <1>1, <1>7, <2>1 DEF AcceptWrites
  <2>5. everAccepted' \subseteq Lectures /\ AcceptAdvances
    BY <1>7, <2>1 DEF AcceptWrites, CourseTypeOK
  <2> HIDE DEF d, m
  <2>6. dirs' \in [Lectures -> Dirs]
    BY <1>4, <2>1, <2>2, <2>3
  <2>7. UNCHANGED <<source, episodes, gate, tracker, accTable, finStatus, finalizer, auto,
                    reviews, faults>>
    BY <1>7 DEF AcceptWrites
  <2> QED
    BY <1>2, <2>1, <2>4, <2>5, <2>6, <2>7 DEF CourseTypeOK, Placed
<1>8. CASE BlockWrites
  <2> DEFINE l == reviewer.lecture
             m == [reviewer.manifest EXCEPT !.accepted = FALSE, !.blocked = TRUE]
             d == [dirs[l] EXCEPT !.manifest = m]
  <2>1. l \in Lectures /\ m \in Manifests
    BY <1>8 DEF BlockWrites, CourseTypeOK, Placed, Manifests
  <2>2. d \in Dirs
    <3>1. dirs[l] \in Dirs
      BY <2>1 DEF CourseTypeOK
    <3> HIDE DEF m, l
    <3> QED
      BY <2>1, <3>1 DEF Dirs
  <2>3. dirs' = [dirs EXCEPT ![l] = d]
    BY <1>8 DEF BlockWrites
  <2>4. reviewer' \in Reviewer /\ reviewer'.lecture = l
    BY <1>1, <1>8, <2>1 DEF BlockWrites
  <2> HIDE DEF d, m
  <2>5. dirs' \in [Lectures -> Dirs]
    BY <1>4, <2>1, <2>2, <2>3
  <2> QED
    BY <1>8, <2>1, <2>4, <2>5 DEF BlockWrites, CourseTypeOK, Placed
<1>9. CASE ReviewEnds
  <2>1. /\ tracker' \in [Lectures -> TrackerRows] /\ faults' \in 0..MaxFaults
        /\ accTable' \in [Lectures -> [status : AcceptanceStatuses, ready : BOOLEAN]]
    BY <1>9, StatusRefreshedTyped DEF ReviewEnds, CourseTypeOK
  <2>2. reviewer' \in Reviewer /\ reviewer'.pc = "away"
    BY <1>1, <1>9, CourseAssumption DEF ReviewEnds, Away
  <2> QED
    BY <1>9, <2>1, <2>2 DEF ReviewEnds, CourseTypeOK, Placed
<1> QED
  BY <1>5, <1>6, <1>7, <1>8, <1>9

LEMMA CourseTypeStep == CourseTypeOK /\ Placed /\ [CourseNext]_courseVars => CourseTypeOK' /\ Placed'
<1> SUFFICES ASSUME CourseTypeOK, Placed, [CourseNext]_courseVars PROVE CourseTypeOK' /\ Placed'
  OBVIOUS
<1>1. CASE UNCHANGED courseVars
  BY <1>1 DEF courseVars, worldVars, fileVars, processVars, CourseTypeOK, Placed
<1>2. CASE CourseNext
  BY <1>2, WorldTyped, FinalizerTyped, AdvancerTyped, OperatorTyped, ReviewTyped DEF CourseNext
<1> QED
  BY <1>1, <1>2

(* The files and processes of the course keep their shapes.                *)
THEOREM CourseTypeCorrect == CourseSpec => []CourseTypeOK
<1>1. CourseInit => CourseTypeOK /\ Placed
  BY CourseInitTyped
<1>2. (CourseTypeOK /\ Placed) /\ [CourseNext]_courseVars => (CourseTypeOK /\ Placed)'
  BY CourseTypeStep
<1> QED
  BY <1>1, <1>2, PTL DEF CourseSpec

----------------------------------------------------------------------------
(* Order                                                                   *)

\* The three ways in which a step keeps the order: it starts nothing, ...
LEMMA OrderKept ==
    ASSUME StartsInOrder, everAccepted \subseteq everAccepted',
           \A i \in DOMAIN episodes' : i \in DOMAIN episodes
                                     /\ episodes'[i].lecture = episodes[i].lecture
    PROVE  StartsInOrder'
BY DEF StartsInOrder

\* ... or it starts a lecture whose predecessors have been accepted, ...
LEMMA OrderExtended ==
    ASSUME CourseTypeOK, StartsInOrder, NEW l \in Lectures, NewEpisode(l), UNCHANGED everAccepted,
           1..(l - 1) \subseteq everAccepted
    PROVE  StartsInOrder'
<1>1. \A i \in DOMAIN episodes' : \/ i \in DOMAIN episodes /\ episodes'[i] = episodes[i]
                                 \/ episodes'[i].lecture = l
  BY NewEpisodeTyped
<1> QED
  BY <1>1 DEF StartsInOrder

\* ... or it shows as accepted what a manifest says.
LEMMA LicenceKept ==
    ASSUME Licensed, everAccepted \subseteq everAccepted',
           \A l \in Lectures : dirs'[l].manifest.accepted => dirs[l].manifest.accepted \/ l \in everAccepted',
           \/ UNCHANGED accTable
           \/ \A l \in Lectures : accTable'[l].status = "accepted" => dirs'[l].manifest.accepted,
           \A a \in Advancers : advancer'[a].pc = "start" => advancer'[a] = advancer[a]
    PROVE  Licensed'
BY DEF Licensed

LEMMA WorldInOrder ==
    ASSUME CourseTypeOK, Licensed, StartsInOrder,
           \/ \E l \in Lectures : SourceArrives(l) \/ OperatorRestarts(l)
           \/ \E i \in DOMAIN episodes : \E o \in {"completed", "failed"} : EpisodeEnds(i, o)
           \/ GateOpens
    PROVE  Licensed' /\ StartsInOrder'
<1> USE DEF fileVars, processVars, reviewVars
<1>1. ASSUME NEW l \in Lectures, OperatorRestarts(l) PROVE StartsInOrder'
  <2>1. LatestEpisode(episodes, l) \in EpisodesOf(episodes, l)
    BY <1>1, LatestIsEpisode DEF OperatorRestarts, CourseTypeOK
  <2>2. 1..(l - 1) \subseteq everAccepted
    BY <2>1 DEF EpisodesOf, StartsInOrder
  <2> QED
    BY <1>1, <2>2, OrderExtended DEF OperatorRestarts
<1>2. ASSUME NEW i \in DOMAIN episodes, NEW o \in {"completed", "failed"}, EpisodeEnds(i, o)
      PROVE  StartsInOrder'
  <2>1. episodes' = [episodes EXCEPT ![i].status = o] /\ UNCHANGED everAccepted
    BY <1>2 DEF EpisodeEnds
  <2>2. /\ DOMAIN episodes' = DOMAIN episodes
        /\ \A j \in DOMAIN episodes : episodes'[j].lecture = episodes[j].lecture
    <3>1. \A j \in DOMAIN episodes : episodes[j] \in [lecture : Lectures, status : EpisodeStatuses]
      <4>1. DOMAIN episodes = 1..Len(episodes)
        BY DEF CourseTypeOK
      <4> QED
        BY <4>1, ElementOfSeq DEF CourseTypeOK
    <3> QED
      BY <2>1, <3>1 DEF CourseTypeOK
  <2> QED
    BY <2>1, <2>2, OrderKept
<1>3. Licensed'
  BY DEF SourceArrives, OperatorRestarts, EpisodeEnds, GateOpens, Licensed
<1>4. CASE (\E l \in Lectures : SourceArrives(l)) \/ GateOpens
  BY <1>3, <1>4 DEF SourceArrives, GateOpens, StartsInOrder
<1> QED
  BY <1>1, <1>2, <1>3, <1>4

\* What a finalizer's steps do to the directory of its lecture.
LEMMA AuditWrites ==
    ASSUME CourseTypeOK, Placed, NEW f \in Finalizers, Audit(f)
    PROVE  \E d \in Dirs : /\ dirs' = [dirs EXCEPT ![finalizer[f].lecture] = d]
                          /\ d.manifest = dirs[finalizer[f].lecture].manifest
                          /\ (d.asr = 0 => dirs[finalizer[f].lecture].asr = 0)
                          /\ (d.fit = 0 => dirs[finalizer[f].lecture].fit = 0)
                          /\ d.pack = dirs[finalizer[f].lecture].pack
                          /\ d.prov = dirs[finalizer[f].lecture].prov
<1> DEFINE l == finalizer[f].lecture
           e == finalizer[f].episode
<1>1. l \in Lectures /\ e \in 0..MaxEpisodes /\ e # 0
  BY DEF Audit, CourseTypeOK, Placed
<1>2. dirs \in [Lectures -> Dirs] /\ dirs[l] \in Dirs
  BY <1>1 DEF CourseTypeOK
<1>3. \/ dirs' = dirs
      \/ \E v \in FitStatuses :
            \/ dirs' = [dirs EXCEPT ![l].asr = e, ![l].fit = e, ![l].fitStatus = v]
            \/ dirs' = [dirs EXCEPT ![l].asr = dirs[l].asr, ![l].fit = e, ![l].fitStatus = v]
            \/ /\ dirs[l].asr # 0
               /\ dirs' = [dirs EXCEPT ![l].asr = dirs[l].asr, ![l].fit = dirs[l].asr,
                                       ![l].fitStatus = v]
      \/ dirs' = [dirs EXCEPT ![l].asr = e, ![l].fit = dirs[l].fit,
                              ![l].fitStatus = dirs[l].fitStatus]
  BY DEF Audit
<1> HIDE DEF l, e
<1> DEFINE Writes(d) == /\ dirs' = [dirs EXCEPT ![l] = d]
                        /\ d.manifest = dirs[l].manifest
                        /\ (d.asr = 0 => dirs[l].asr = 0)
                        /\ (d.fit = 0 => dirs[l].fit = 0)
                        /\ d.pack = dirs[l].pack /\ d.prov = dirs[l].prov
<1>4. ASSUME dirs' = dirs PROVE \E d \in Dirs : Writes(d)
  <2>1. Writes(dirs[l])
    BY <1>1, <1>2, <1>4
  <2> QED
    BY <1>2, <2>1
<1>5. ASSUME NEW asr, NEW fit, NEW v,
             dirs' = [dirs EXCEPT ![l].asr = asr, ![l].fit = fit, ![l].fitStatus = v],
             asr \in 0..MaxEpisodes, fit \in 0..MaxEpisodes, v \in FitStatuses,
             (asr = 0 => dirs[l].asr = 0), (fit = 0 => dirs[l].fit = 0)
      PROVE  \E d \in Dirs : Writes(d)
  <2> DEFINE new == [dirs[l] EXCEPT !.asr = asr, !.fit = fit, !.fitStatus = v]
  <2>1. /\ new \in Dirs /\ new.manifest = dirs[l].manifest
        /\ new.asr = asr /\ new.fit = fit
        /\ new.pack = dirs[l].pack /\ new.prov = dirs[l].prov
    BY <1>2, <1>5 DEF Dirs
  <2>2. dirs' = [dirs EXCEPT ![l] = new]
    BY <1>1, <1>2, <1>5
  <2> HIDE DEF new
  <2>3. Writes(new)
    BY <1>5, <2>1, <2>2
  <2> QED
    BY <2>1, <2>3
<1>6. /\ dirs[l].asr \in 0..MaxEpisodes /\ dirs[l].fit \in 0..MaxEpisodes
      /\ dirs[l].fitStatus \in FitStatuses
  BY <1>2 DEF Dirs
<1> SUFFICES \E d \in Dirs : Writes(d)
  BY DEF l
<1> HIDE DEF Writes
<1>7. ASSUME NEW v \in FitStatuses,
             dirs' = [dirs EXCEPT ![l].asr = e, ![l].fit = e, ![l].fitStatus = v]
      PROVE  \E d \in Dirs : Writes(d)
  BY <1>1, <1>5, <1>7
<1>8. ASSUME NEW v \in FitStatuses,
             dirs' = [dirs EXCEPT ![l].asr = dirs[l].asr, ![l].fit = e, ![l].fitStatus = v]
      PROVE  \E d \in Dirs : Writes(d)
  BY <1>1, <1>5, <1>6, <1>8
<1>9. ASSUME NEW v \in FitStatuses, dirs[l].asr # 0,
             dirs' = [dirs EXCEPT ![l].asr = dirs[l].asr, ![l].fit = dirs[l].asr,
                                  ![l].fitStatus = v]
      PROVE  \E d \in Dirs : Writes(d)
  BY <1>5, <1>6, <1>9
<1>10. CASE dirs' = [dirs EXCEPT ![l].asr = e, ![l].fit = dirs[l].fit,
                                 ![l].fitStatus = dirs[l].fitStatus]
  BY <1>1, <1>5, <1>6, <1>10
<1> QED
  BY <1>3, <1>4, <1>7, <1>8, <1>9, <1>10

LEMMA PublishWrites ==
    ASSUME CourseTypeOK, Placed, NEW f \in Finalizers, Publish(f)
    PROVE  \E d \in Dirs : /\ dirs' = [dirs EXCEPT ![finalizer[f].lecture] = d]
                          /\ ~d.manifest.accepted
                          /\ d.asr = dirs[finalizer[f].lecture].asr
                          /\ d.fit = dirs[finalizer[f].lecture].fit
                          /\ d.pack \in {dirs[finalizer[f].lecture].pack, finalizer[f].episode}
                          /\ d.prov = finalizer[f].episode
<1> DEFINE l == finalizer[f].lecture
           e == finalizer[f].episode
           m == [episode |-> e, asr |-> dirs[l].asr # 0, pack |-> TRUE,
                 accepted |-> FALSE, blocked |-> FALSE]
           n == [m EXCEPT !.pack = dirs[l].pack # 0]
<1>1. l \in Lectures /\ e \in 0..MaxEpisodes
  BY DEF Publish, CourseTypeOK, Placed
<1>2. dirs \in [Lectures -> Dirs]
  BY DEF CourseTypeOK
<1>3. m \in Manifests /\ n \in Manifests /\ ~m.accepted /\ ~n.accepted
  BY <1>1 DEF Manifests
<1>4. \/ dirs' = [dirs EXCEPT ![l].pack = e, ![l].prov = e, ![l].manifest = m]
      \/ dirs' = [dirs EXCEPT ![l].prov = e, ![l].manifest = n]
  BY DEF Publish
<1> HIDE DEF l, e, m, n
<1> DEFINE whole == [dirs[l] EXCEPT !.pack = e, !.prov = e, !.manifest = m]
           part == [dirs[l] EXCEPT !.prov = e, !.manifest = n]
<1>5. /\ whole \in Dirs /\ part \in Dirs /\ whole.manifest = m /\ part.manifest = n
      /\ whole.asr = dirs[l].asr /\ part.asr = dirs[l].asr
      /\ whole.fit = dirs[l].fit /\ part.fit = dirs[l].fit
      /\ whole.pack = e /\ part.pack = dirs[l].pack /\ whole.prov = e /\ part.prov = e
  BY <1>1, <1>2, <1>3 DEF Dirs
<1>6. dirs' = [dirs EXCEPT ![l] = whole] \/ dirs' = [dirs EXCEPT ![l] = part]
  BY <1>1, <1>2, <1>4
<1> HIDE DEF whole, part
<1>7. \E d \in Dirs : /\ dirs' = [dirs EXCEPT ![l] = d] /\ ~d.manifest.accepted
                     /\ d.asr = dirs[l].asr /\ d.fit = dirs[l].fit
                     /\ d.pack \in {dirs[l].pack, e} /\ d.prov = e
  BY <1>3, <1>5, <1>6
<1> QED
  BY <1>7 DEF l, e

LEMMA FinalizerInOrder ==
    ASSUME CourseTypeOK, Placed, CourseTypeOK', Licensed, StartsInOrder, NEW f \in Finalizers,
           FinalizerStep(f) \/ WatchTimesOut(f) \/ FinalizerDies(f)
    PROVE  Licensed' /\ StartsInOrder'
<1> DEFINE l == finalizer[f].lecture
<1> USE DEF worldVars, fileVars, reviewVars
<1>1. UNCHANGED <<episodes, everAccepted, advancer>>
  BY DEF FinalizerStep, WatchTimesOut, FinalizerDies
<1>2. StartsInOrder'
  BY <1>1 DEF StartsInOrder
<1>3. CASE Audit(f)
  <2>1. \A k \in Lectures : dirs'[k].manifest = dirs[k].manifest
    BY <1>3, AuditWrites DEF CourseTypeOK
  <2> QED
    BY <1>1, <1>2, <1>3, <2>1, LicenceKept DEF Audit
<1>4. CASE Publish(f)
  <2>1. \A k \in Lectures : dirs'[k].manifest.accepted => dirs[k].manifest.accepted
    BY <1>4, PublishWrites DEF CourseTypeOK
  <2>2. dirs' \in [Lectures -> Dirs]
    BY DEF CourseTypeOK
  <2>3. \/ UNCHANGED accTable
        \/ \A k \in Lectures : accTable'[k].status = "accepted" => dirs'[k].manifest.accepted
    BY <1>4, <2>2, StatusRefreshedTyped DEF Publish
  <2> QED
    BY <1>1, <1>2, <2>1, <2>3, LicenceKept
<1>5. CASE Poll(f) \/ WatchTimesOut(f) \/ FinalizerDies(f)
  <2>1. UNCHANGED <<dirs, accTable>>
    BY <1>5 DEF Poll, WatchTimesOut, FinalizerDies
  <2> QED
    BY <1>1, <1>2, <2>1 DEF Licensed
<1> QED
  BY <1>2, <1>3, <1>4, <1>5 DEF FinalizerStep

LEMMA AdvancerInOrder ==
    ASSUME CourseTypeOK, Placed, Licensed, StartsInOrder, NEW a \in Advancers, AdvancerStep(a)
    PROVE  Licensed' /\ StartsInOrder'
<1> USE DEF reviewVars
<1>1. UNCHANGED <<dirs, everAccepted>>
  BY DEF AdvancerStep
<1>2. CASE Decide(a)
  <2>1. UNCHANGED episodes
    BY <1>2 DEF Decide
  <2>2. \A l \in Lectures : accTable'[l].status = "accepted" => l \in everAccepted
    BY <1>1, <1>2, DecideTyped DEF Licensed
  <2>3. /\ Decided \in Actions
        /\ Decided.status = "ready_to_start"
             => Decided.lecture \in Lectures
                /\ \A m \in 1..(Decided.lecture - 1) : accTable'[m].status = "accepted"
    BY <1>1, <1>2, DecideTyped
  <2>4. \A b \in Advancers : advancer'[b].pc = "start"
          => \/ advancer'[b] = advancer[b]
             \/ Decided.status = "ready_to_start" /\ advancer'[b].action = Decided
    BY <1>2 DEF Decide, Passed, CourseTypeOK
  <2>5. Decided.status = "ready_to_start" => 1..(Decided.lecture - 1) \subseteq everAccepted
    BY <2>2, <2>3, CourseAssumption DEF Lectures
  <2> QED
    BY <1>1, <2>1, <2>2, <2>4, <2>5 DEF Licensed, StartsInOrder
<1>3. CASE StartLecture(a)
  <2> DEFINE l == advancer[a].action.lecture
  <2>1. l \in Lectures /\ 1..(l - 1) \subseteq everAccepted
    BY <1>3 DEF StartLecture, Placed, Licensed
  <2>2. StartsInOrder'
    <3>1. CASE NewEpisode(l)
      BY <1>1, <2>1, <3>1, OrderExtended
    <3>2. CASE UNCHANGED episodes
      BY <1>1, <3>2 DEF StartsInOrder
    <3> QED
      BY <1>3, <3>1, <3>2 DEF StartLecture
  <2>3. \A b \in Advancers : advancer'[b].pc = "start" => advancer'[b] = advancer[b]
    <3>1. CASE PassEnds(a)
      BY <3>1, PassEndsPlaced
    <3>2. CASE advancer' = [advancer EXCEPT ![a].pc = "spawn"]
      BY <3>2 DEF CourseTypeOK
    <3> QED
      BY <1>3, <3>1, <3>2 DEF StartLecture
  <2> QED
    BY <1>1, <1>3, <2>2, <2>3, LicenceKept DEF StartLecture
<1>4. CASE SpawnFinalizer(a)
  <2>1. \A b \in Advancers : advancer'[b].pc = "start" => advancer'[b] = advancer[b]
    BY <1>4, PassEndsPlaced DEF SpawnFinalizer
  <2> QED
    BY <1>1, <1>4, <2>1, LicenceKept DEF SpawnFinalizer, StartsInOrder
<1> QED
  BY <1>2, <1>3, <1>4 DEF AdvancerStep

LEMMA OperatorInOrder ==
    ASSUME CourseTypeOK, Placed, Licensed, StartsInOrder,
           AutoStart \/ WatchAgain \/ \E l \in Lectures : OperatorFinalizes(l)
    PROVE  Licensed' /\ StartsInOrder'
<1> USE DEF worldVars, fileVars, reviewVars
<1>1. CASE AutoStart
  <2>1. 1 \in Lectures /\ 1..(1 - 1) \subseteq everAccepted
    BY CourseAssumption DEF Lectures
  <2>2. UNCHANGED <<dirs, accTable, advancer, everAccepted>>
    BY <1>1 DEF AutoStart
  <2>3. NewEpisode(1) \/ UNCHANGED episodes
    BY <1>1 DEF AutoStart
  <2>4. StartsInOrder'
    BY <2>1, <2>2, <2>3, OrderExtended DEF StartsInOrder
  <2> QED
    BY <2>2, <2>4 DEF Licensed
<1>2. CASE WatchAgain
  <2>1. \A b \in Advancers : advancer'[b].pc = "start" => advancer'[b] = advancer[b]
    BY <1>2 DEF WatchAgain, CourseTypeOK, Advancers
  <2> QED
    BY <1>2, <2>1, LicenceKept DEF WatchAgain, StartsInOrder
<1>3. ASSUME NEW l \in Lectures, OperatorFinalizes(l) PROVE Licensed' /\ StartsInOrder'
  BY <1>3 DEF OperatorFinalizes, Licensed, StartsInOrder
<1> QED
  BY <1>1, <1>2, <1>3

LEMMA ReviewInOrder ==
    ASSUME CourseTypeOK, Placed, CourseTypeOK', Licensed, StartsInOrder,
           \/ \E l \in Lectures : AcceptReads(l) \/ BlockReads(l)
           \/ AcceptWrites \/ BlockWrites \/ ReviewEnds
    PROVE  Licensed' /\ StartsInOrder'
<1> USE DEF worldVars, fileVars, reviewVars
<1>1. AcceptAdvances => \A b \in Advancers : advancer'[b].pc = "start" => advancer'[b] = advancer[b]
  BY DEF AcceptAdvances, CourseTypeOK, Advancers
<1>2. UNCHANGED episodes /\ everAccepted \subseteq everAccepted'
  BY DEF AcceptReads, BlockReads, AcceptWrites, BlockWrites, ReviewEnds
<1>3. StartsInOrder'
  BY <1>2 DEF StartsInOrder
<1>4. ASSUME NEW l \in Lectures, AcceptReads(l) \/ BlockReads(l) PROVE Licensed'
  BY <1>1, <1>2, <1>4, LicenceKept DEF AcceptReads, BlockReads
<1>5. CASE AcceptWrites
  <2>1. \A k \in Lectures : dirs'[k].manifest.accepted => dirs[k].manifest.accepted \/ k \in everAccepted'
    BY <1>5 DEF AcceptWrites, CourseTypeOK
  <2> QED
    BY <1>1, <1>2, <1>3, <1>5, <2>1, LicenceKept DEF AcceptWrites
<1>6. CASE BlockWrites
  <2>1. \A k \in Lectures : dirs'[k].manifest.accepted => dirs[k].manifest.accepted
    BY <1>6 DEF BlockWrites, CourseTypeOK
  <2> QED
    BY <1>2, <1>3, <1>6, <2>1, LicenceKept DEF BlockWrites
<1>7. CASE ReviewEnds
  <2>1. \/ UNCHANGED accTable
        \/ \A k \in Lectures : accTable'[k].status = "accepted" => dirs'[k].manifest.accepted
    BY <1>7, StatusRefreshedTyped DEF ReviewEnds, CourseTypeOK
  <2> QED
    BY <1>2, <1>3, <1>7, <2>1, LicenceKept DEF ReviewEnds
<1> QED
  BY <1>3, <1>4, <1>5, <1>6, <1>7

(* Whichever process starts a lecture, and however old the files it goes   *)
(* by, a reviewer has accepted every lecture before it.                    *)
THEOREM LecturesStartInOrder == CourseSpec => []StartsInOrder
<1> DEFINE Inv == CourseTypeOK /\ Placed /\ Licensed /\ StartsInOrder
<1>1. CourseInit => Inv
  <2> SUFFICES ASSUME CourseInit PROVE Inv
    OBVIOUS
  <2>1. CourseTypeOK /\ Placed
    BY CourseInitTyped
  <2>2. \A l \in Lectures : ~dirs[l].manifest.accepted
    BY DEF CourseInit, EmptyDir, NoManifest
  <2>3. accTable = AcceptanceTable(tracker, dirs)
    BY DEF CourseInit
  <2>4. \A l \in Lectures : accTable[l].status # "accepted"
    BY <2>1, <2>2, <2>3, TableTyped DEF CourseTypeOK
  <2>5. \A a \in Advancers : advancer[a].pc # "start"
    BY DEF CourseInit
  <2>6. StartsInOrder
    BY DEF CourseInit, StartsInOrder
  <2> QED
    BY <2>1, <2>2, <2>4, <2>5, <2>6 DEF Licensed
<1>2. Inv /\ [CourseNext]_courseVars => Inv'
  <2> SUFFICES ASSUME CourseTypeOK, Placed, Licensed, StartsInOrder, [CourseNext]_courseVars
               PROVE  CourseTypeOK' /\ Placed' /\ Licensed' /\ StartsInOrder'
    OBVIOUS
  <2>1. CourseTypeOK' /\ Placed'
    BY CourseTypeStep
  <2>2. CASE UNCHANGED courseVars
    BY <2>1, <2>2 DEF courseVars, worldVars, fileVars, processVars, Licensed, StartsInOrder
  <2>3. CASE CourseNext
    BY <2>1, <2>3, WorldInOrder, FinalizerInOrder, AdvancerInOrder, OperatorInOrder, ReviewInOrder
       DEF CourseNext
  <2> QED
    BY <2>1, <2>2, <2>3
<1>3. Inv => StartsInOrder
  OBVIOUS
<1> HIDE DEF Inv
<1> QED
  BY <1>1, <1>2, <1>3, PTL DEF CourseSpec

----------------------------------------------------------------------------
(* Completeness                                                            *)

\* Artifacts are replaced and never removed, so a complete copy stays complete.
LEMMA FinalizerBacks ==
    ASSUME CourseTypeOK, Placed, Backed, NEW f \in Finalizers,
           FinalizerStep(f) \/ WatchTimesOut(f) \/ FinalizerDies(f)
    PROVE  Backed'
<1> DEFINE l == finalizer[f].lecture
<1> USE DEF worldVars, fileVars, reviewVars
<1>1. UNCHANGED reviewer
  BY DEF FinalizerStep, WatchTimesOut, FinalizerDies
<1>2. ASSUME NEW d \in Dirs, dirs' = [dirs EXCEPT ![l] = d], l \in Lectures,
             \A m \in Manifests : Complete(dirs[l], m) => Complete(d, m),
             d.manifest.accepted => d.manifest = dirs[l].manifest
      PROVE  Backed'
  <2>1. /\ \A k \in Lectures : dirs'[k] = IF k = l THEN d ELSE dirs[k]
        /\ \A k \in Lectures : dirs[k].manifest \in Manifests
        /\ reviewer.manifest \in Manifests
    BY <1>2 DEF CourseTypeOK, Dirs
  <2>2. \A k \in Lectures : dirs'[k].manifest.accepted => Complete(dirs'[k], dirs'[k].manifest)
    BY <1>2, <2>1 DEF Backed
  <2>3. reviewer'.pc = "accept" => Complete(dirs'[reviewer'.lecture], reviewer'.manifest)
    BY <1>1, <1>2, <2>1 DEF Backed, Placed
  <2> QED
    BY <2>2, <2>3 DEF Backed
<1>3. CASE Audit(f)
  <2>1. l \in Lectures /\ finalizer[f].episode # 0
    BY <1>3 DEF Audit, Placed
  <2> QED
    BY <1>2, <1>3, <2>1, AuditWrites DEF Complete
<1>4. CASE Publish(f)
  <2>1. l \in Lectures /\ finalizer[f].episode # 0
    BY <1>4 DEF Publish, Placed
  <2> QED
    BY <1>2, <1>4, <2>1, PublishWrites DEF Complete
<1>5. CASE Poll(f) \/ WatchTimesOut(f) \/ FinalizerDies(f)
  <2>1. UNCHANGED dirs
    BY <1>5 DEF Poll, WatchTimesOut, FinalizerDies
  <2> QED
    BY <1>1, <2>1 DEF Backed
<1> QED
  BY <1>3, <1>4, <1>5 DEF FinalizerStep

LEMMA ReviewBacks ==
    ASSUME CourseTypeOK, Placed, Backed,
           \/ \E l \in Lectures : AcceptReads(l) \/ BlockReads(l)
           \/ AcceptWrites \/ BlockWrites \/ ReviewEnds
    PROVE  Backed'
<1> USE DEF fileVars
<1>1. ASSUME NEW l \in Lectures, AcceptReads(l) PROVE Backed'
  <2>1. UNCHANGED dirs
    BY <1>1 DEF AcceptReads
  <2>2. dirs[l] \in Dirs
    BY DEF CourseTypeOK
  <2>3. AcceptOutcome(dirs[l]) = "accepted" => Complete(dirs[l], dirs[l].manifest)
    BY <2>2, CompleteMeansNothingMissing DEF AcceptOutcome
  <2>4. reviewer'.pc = "accept"
          => reviewer'.lecture = l /\ reviewer'.manifest = dirs[l].manifest
             /\ AcceptOutcome(dirs[l]) = "accepted"
    BY <1>1 DEF AcceptReads
  <2> QED
    BY <2>1, <2>3, <2>4 DEF Backed
<1>2. ASSUME NEW l \in Lectures, BlockReads(l) PROVE Backed'
  BY <1>2 DEF BlockReads, Backed
<1>3. CASE AcceptWrites
  <2> DEFINE l == reviewer.lecture
  <2>1. l \in Lectures /\ Complete(dirs[l], reviewer.manifest)
    BY <1>3 DEF AcceptWrites, Placed, Backed
  <2>2. reviewer'.pc # "accept"
    BY <1>3 DEF AcceptWrites
  <2>3. \A k \in Lectures : k # l => dirs'[k] = dirs[k]
    BY <1>3 DEF AcceptWrites, CourseTypeOK
  <2>4. Complete(dirs'[l], dirs'[l].manifest)
    <3> DEFINE m == [reviewer.manifest EXCEPT !.accepted = TRUE]
               d == [dirs[l] EXCEPT !.manifest = m]
    <3>1. dirs'[l] = d
      BY <1>3, <2>1 DEF AcceptWrites, CourseTypeOK
    <3>2. dirs[l] \in Dirs /\ reviewer.manifest \in Manifests
      BY <2>1 DEF CourseTypeOK
    <3>3. /\ m.episode = reviewer.manifest.episode /\ m.asr = reviewer.manifest.asr
          /\ m.pack = reviewer.manifest.pack
      BY <3>2 DEF Manifests
    <3> HIDE DEF m
    <3>4. /\ d.manifest = m /\ d.asr = dirs[l].asr /\ d.fit = dirs[l].fit
          /\ d.pack = dirs[l].pack /\ d.prov = dirs[l].prov
      BY <3>2 DEF Dirs
    <3> HIDE DEF d
    <3> QED
      BY <2>1, <3>1, <3>3, <3>4 DEF Complete
  <2> QED
    BY <2>2, <2>3, <2>4 DEF Backed
<1>4. CASE BlockWrites
  <2>1. \A k \in Lectures : dirs'[k].manifest.accepted
          => dirs[k].manifest.accepted /\ dirs'[k] = dirs[k]
    BY <1>4 DEF BlockWrites, CourseTypeOK, Dirs, Manifests
  <2>2. reviewer'.pc # "accept"
    BY <1>4 DEF BlockWrites
  <2> QED
    BY <2>1, <2>2 DEF Backed
<1>5. CASE ReviewEnds
  BY <1>5 DEF ReviewEnds, Away, Backed
<1> QED
  BY <1>1, <1>2, <1>3, <1>4, <1>5

(* What counts as accepted has its artifacts, although finalizers rewrite  *)
(* the directory while the accept tool holds an older copy of the manifest.*)
THEOREM AcceptedLecturesAreComplete == CourseSpec => []AcceptedIsComplete
<1> DEFINE Inv == CourseTypeOK /\ Placed /\ Backed
<1>1. CourseInit => Inv
  <2> SUFFICES ASSUME CourseInit PROVE Inv
    OBVIOUS
  <2>1. \A l \in Lectures : ~dirs[l].manifest.accepted
    BY DEF CourseInit, EmptyDir, NoManifest
  <2>2. reviewer.pc # "accept"
    BY DEF CourseInit, Away
  <2> QED
    BY <2>1, <2>2, CourseInitTyped DEF Backed
<1>2. Inv /\ [CourseNext]_courseVars => Inv'
  <2> SUFFICES ASSUME CourseTypeOK, Placed, Backed, [CourseNext]_courseVars
               PROVE  CourseTypeOK' /\ Placed' /\ Backed'
    OBVIOUS
  <2>1. CourseTypeOK' /\ Placed'
    BY CourseTypeStep
  <2>2. CASE UNCHANGED <<dirs, reviewer>>
    BY <2>1, <2>2 DEF Backed
  <2>3. CASE UNCHANGED courseVars
    BY <2>1, <2>3 DEF courseVars, fileVars, processVars, Backed
  <2>4. CASE CourseNext
    <3>1. ASSUME NEW a \in Advancers, AdvancerStep(a) PROVE UNCHANGED <<dirs, reviewer>>
      BY <3>1 DEF AdvancerStep
    <3>2. AutoStart \/ WatchAgain \/ (\E l \in Lectures : OperatorFinalizes(l))
            => UNCHANGED <<dirs, reviewer>>
      BY DEF AutoStart, WatchAgain, OperatorFinalizes, fileVars
    <3>3. ASSUME \/ \E l \in Lectures : SourceArrives(l) \/ OperatorRestarts(l)
                 \/ \E i \in DOMAIN episodes : \E o \in {"completed", "failed"} : EpisodeEnds(i, o)
                 \/ GateOpens
          PROVE  UNCHANGED <<dirs, reviewer>>
      BY <3>3 DEF SourceArrives, OperatorRestarts, EpisodeEnds, GateOpens, fileVars, processVars
    <3>4. CASE UNCHANGED <<dirs, reviewer>>
      BY <2>1, <2>2, <3>4
    <3>5. ASSUME NEW f \in Finalizers, FinalizerStep(f) \/ WatchTimesOut(f) \/ FinalizerDies(f)
          PROVE  Backed'
      BY <3>5, FinalizerBacks
    <3>6. (\E l \in Lectures : AcceptReads(l) \/ BlockReads(l))
            \/ AcceptWrites \/ BlockWrites \/ ReviewEnds => Backed'
      BY ReviewBacks
    <3> QED
      BY <2>1, <2>4, <3>1, <3>2, <3>3, <3>4, <3>5, <3>6 DEF CourseNext
  <2> QED
    BY <2>3, <2>4
<1>3. Inv => AcceptedIsComplete
  <2> SUFFICES ASSUME CourseTypeOK, Backed, NEW l \in Lectures, dirs[l].manifest.accepted
               PROVE  AcceptMissing(dirs[l]) = {}
    BY DEF AcceptedIsComplete
  <2> QED
    BY CompleteMeansNothingMissing DEF CourseTypeOK, Backed
<1> HIDE DEF Inv
<1> QED
  BY <1>1, <1>2, <1>3, PTL DEF CourseSpec

----------------------------------------------------------------------------
(* What the reviewer is told an acceptance will start                      *)

(* The first open lecture; and the first one that is left when it is       *)
(* accepted.                                                               *)
LEMMA NextOpen ==
    ASSUME NEW open \in SUBSET Lectures, open # {},
           NEW l, l = Min(open), NEW rest, rest = open \ {l}
    PROVE  /\ l \in open
           /\ rest # {} => Min(rest) \in rest /\ Min(rest) # l
           /\ l + 1 \in open => rest # {} /\ Min(rest) = l + 1
<1>1. open \in SUBSET Nat /\ rest \in SUBSET Nat
  <2>1. \A k \in Lectures : k \in Nat
    BY DEF Lectures
  <2> QED
    BY <2>1
<1>2. l \in open /\ \A y \in open : l =< y
  BY <1>1, MinIsLeast
<1>3. ASSUME rest # {}
      PROVE  Min(rest) \in rest /\ \A y \in rest : Min(rest) =< y
  BY <1>1, <1>3, MinIsLeast
<1>4. ASSUME rest # {}
      PROVE  Min(rest) \in rest /\ Min(rest) # l
  BY <1>3, <1>4
<1>5. ASSUME l + 1 \in open
      PROVE  rest # {} /\ Min(rest) = l + 1
  <2>1. l + 1 \in rest
    BY <1>1, <1>2, <1>5
  <2>2. Min(rest) \in rest /\ Min(rest) =< l + 1
    BY <1>3, <2>1
  <2>3. Min(rest) \in Nat /\ l \in Nat /\ Min(rest) >= l /\ Min(rest) # l
    BY <1>1, <1>2, <2>2
  <2> QED
    BY <2>1, <2>2, <2>3
<1> QED
  BY <1>2, <1>4, <1>5

(* The decision in the terms of the first open lecture.                    *)
LEMMA DecisionStarts ==
    ASSUME NEW rows, NEW acc, NEW fin, NEW g, NEW open,
           open = {k \in Lectures : acc[k].status # "accepted"}, open # {},
           NEW l, l = Min(open), acc[l].status \in AcceptanceStatuses \ {"accepted"}
    PROVE  LET decision == DecideNextAction(rows, acc, fin, g)
           IN  /\ decision.lecture = l
               /\ decision.status = "ready_to_start"
                    <=> /\ ~(l = 1 /\ ~g)
                        /\ acc[l].status = "not_started" /\ SourceReady(rows[l])
               /\ decision.status = "waiting_for_human_acceptance"
                    <=> ~(l = 1 /\ ~g) /\ acc[l].status = "awaiting_human_acceptance"
               /\ decision = [status |-> decision.status, lecture |-> l]
BY DEF DecideNextAction, AcceptanceStatuses

(* Without an open lecture nothing is started.                             *)
LEMMA NothingOpen ==
    ASSUME NEW rows, NEW acc, NEW fin, NEW g,
           {k \in Lectures : acc[k].status # "accepted"} = {}
    PROVE  DecideNextAction(rows, acc, fin, g)
             = [status |-> "all_lectures_accepted", lecture |-> 0]
BY DEF DecideNextAction

(* The preview that course_advance shows the reviewer and the accept       *)
(* tool's dry run, which decides on a simulated table, say the same.       *)
LEMMA PreviewIsDecision ==
    ASSUME CourseTypeOK
    PROVE  PreviewMatchesDecision
<1> DEFINE open == {k \in Lectures : accTable[k].status # "accepted"}
           now == DecideNextAction(tracker, accTable, finStatus, gate)
           l == now.lecture
           acc == SimulateAcceptance(accTable, l)
           rest == {k \in Lectures : acc[k].status # "accepted"}
           next == DecideNextAction(tracker, acc, finStatus, gate)
           preview == AfterAcceptancePreview(tracker, accTable, l)
<1> SUFFICES ASSUME now.status = "waiting_for_human_acceptance"
             PROVE  preview = "ready_to_start_after_acceptance"
                      <=> next = [status |-> "ready_to_start", lecture |-> l + 1]
  BY DEF PreviewMatchesDecision
<1>1. \A k \in Lectures : accTable[k].status \in AcceptanceStatuses
  BY DEF CourseTypeOK
<1>2. open # {}
  BY NothingOpen
<1>3. Min(open) \in open /\ open \in SUBSET Lectures
  BY <1>2, NextOpen
<1>4. l = Min(open) /\ accTable[l].status = "awaiting_human_acceptance"
  <2> DEFINE m == Min(open)
  <2>1. accTable[m].status \in AcceptanceStatuses \ {"accepted"}
    BY <1>1, <1>3
  <2>2. open = {k \in Lectures : accTable[k].status # "accepted"} /\ open # {} /\ m = Min(open)
    BY <1>2
  <2> HIDE DEF open, m
  <2>3. /\ now.lecture = m
        /\ now.status = "waiting_for_human_acceptance"
             <=> ~(m = 1 /\ ~gate) /\ accTable[m].status = "awaiting_human_acceptance"
    BY <2>1, <2>2, DecisionStarts
  <2> QED
    BY <2>2, <2>3
<1> HIDE DEF l, now
<1>5. /\ l \in Lectures
      /\ \A k \in Lectures : acc[k].status = IF k = l THEN "accepted" ELSE accTable[k].status
  BY <1>3, <1>4 DEF SimulateAcceptance, CourseTypeOK
<1> HIDE DEF acc
<1>6. rest = open \ {l}
  BY <1>5
<1>7. /\ rest # {} => Min(rest) \in rest /\ Min(rest) # l
      /\ l + 1 \in open => rest # {} /\ Min(rest) = l + 1
  BY <1>2, <1>3, <1>4, <1>6, NextOpen
<1>8. preview = "ready_to_start_after_acceptance"
        <=> l + 1 \in Lectures /\ accTable[l + 1].status = "not_started" /\ SourceReady(tracker[l + 1])
  <2>1. l + 1 \in Lectures <=> ~(l + 1 > NumLectures)
    BY <1>5, CourseAssumption DEF Lectures
  <2> QED
    BY <2>1 DEF AfterAcceptancePreview
<1>9. CASE rest = {}
  <2>1. next = [status |-> "all_lectures_accepted", lecture |-> 0]
    BY <1>9, NothingOpen
  <2>2. l + 1 \in Lectures => accTable[l + 1].status = "accepted"
    BY <1>7, <1>9
  <2> QED
    BY <1>8, <2>1, <2>2
<1>10. CASE rest # {}
  <2> DEFINE n == Min(rest)
  <2>1. n \in Lectures /\ n # l /\ acc[n].status \in AcceptanceStatuses \ {"accepted"}
        /\ acc[n].status = accTable[n].status
    BY <1>1, <1>5, <1>7, <1>10
  <2>2. /\ next.lecture = n
        /\ next.status = "ready_to_start"
             <=> ~(n = 1 /\ ~gate) /\ acc[n].status = "not_started" /\ SourceReady(tracker[n])
        /\ next = [status |-> next.status, lecture |-> n]
    BY <1>10, <2>1, DecisionStarts
  <2>3. l + 1 # 1
    BY <1>5 DEF Lectures
  <2>4. l + 1 \in Lectures /\ accTable[l + 1].status = "not_started" => n = l + 1
    BY <1>7
  <2> HIDE DEF n, next
  <2>5. next = [status |-> "ready_to_start", lecture |-> l + 1]
          <=> next.status = "ready_to_start" /\ n = l + 1
    BY <2>2
  <2> QED
    BY <1>8, <2>1, <2>2, <2>3, <2>4, <2>5
<1> QED
  BY <1>9, <1>10

(* What the reviewer is told that the acceptance of a lecture will start   *)
(* is what course_advance decides once it is in the table, whatever state  *)
(* the processes have brought the tables to.                               *)
THEOREM PreviewIsHonoured == CourseSpec => []PreviewMatchesDecision
<1>1. CourseTypeOK => PreviewMatchesDecision
  BY PreviewIsDecision
<1> QED
  BY <1>1, CourseTypeCorrect, PTL
=============================================================================
