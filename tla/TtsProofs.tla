------------------------------- MODULE TtsProofs -------------------------------
(***************************************************************************)
(* What the parts of one synthesis promise.                                *)
(*                                                                         *)
(* TtsSharing: with one GPU permit, for every number of requests, parts    *)
(* and restarts, a voice clip is read whole and the adapter's switch is    *)
(* that of the call.  Nothing beside the permit protects either: with two  *)
(* permits both promises fail (Tts_shared.cfg), so the argument starts     *)
(* from the permit: one request at most is inside the handler.             *)
(*                                                                         *)
(* TtsBudget: the calls of an attempt speak the text, whatever the earlier *)
(* attempts measured, and their token budgets neither collapse nor overrun *)
(* the slot.                                                               *)
(*                                                                         *)
(* LoraCandidate: the candidate that ships is never clearly worse than one *)
(* that passed, and every split plan tried speaks the whole text in the    *)
(* target duration (the planner itself is treated in SplitPlanProofs).     *)
(***************************************************************************)
EXTENDS TtsSharing, TtsBudget, LoraCandidate, SplitPlanProofs, FiniteSetTheorems


(***************************************************************************)
(* Types                                                                   *)
(***************************************************************************)

(* A name for a new inode is always left: the files and the open handles   *)
(* use at most two for each request and two more.                          *)
LEMMA FreshInodeExists ==
    ASSUME SharingTypeOK
    PROVE  FreshInode \in Inodes
<1> DEFINE written == {writing[r] : r \in Requests}
           spoken  == {prompt[r] : r \in Requests}
           used    == {clip, tmp} \cup written \cup spoken
<1>1. IsFiniteSet(Requests) /\ Cardinality(Requests) \in Nat
  BY SharingAssumption, FS_CardinalityType DEF SharingAssumption
<1>2. IsFiniteSet(written) /\ Cardinality(written) <= Cardinality(Requests)
      /\ Cardinality(written) \in Nat
  <2>1. \A r \in Requests : writing[r] = [q \in Requests |-> writing[q]][r]
    OBVIOUS
  <2> DEFINE f == [q \in Requests |-> writing[q]]
  <2>2. f \in Surjection(Requests, written)
    BY DEF Surjection
  <2> HIDE DEF f
  <2>3. IsFiniteSet(written) /\ Cardinality(written) <= Cardinality(Requests)
    BY <1>1, <2>2, FS_Surjection
  <2> QED
    BY <2>3, FS_CardinalityType
<1>3. IsFiniteSet(spoken) /\ Cardinality(spoken) <= Cardinality(Requests)
      /\ Cardinality(spoken) \in Nat
  <2> DEFINE f == [q \in Requests |-> prompt[q]]
  <2>2. f \in Surjection(Requests, spoken)
    BY DEF Surjection
  <2> HIDE DEF f
  <2>3. IsFiniteSet(spoken) /\ Cardinality(spoken) <= Cardinality(Requests)
    BY <1>1, <2>2, FS_Surjection
  <2> QED
    BY <2>3, FS_CardinalityType
<1>4. IsFiniteSet({clip, tmp}) /\ Cardinality({clip, tmp}) <= 2
      /\ Cardinality({clip, tmp}) \in Nat
  <2>2. IsFiniteSet({clip}) /\ Cardinality({clip}) = 1
    BY FS_Singleton, Zenon
  <2>3. IsFiniteSet({clip} \cup {tmp})
        /\ Cardinality({clip} \cup {tmp}) <= 2
        /\ Cardinality({clip} \cup {tmp}) \in Nat
    <3>1. /\ IsFiniteSet({clip} \cup {tmp})
          /\ Cardinality({clip} \cup {tmp})
             = IF tmp \in {clip} THEN Cardinality({clip}) ELSE Cardinality({clip}) + 1
      BY <2>2, FS_AddElement, Zenon
    <3> HIDE DEF written, spoken
    <3> QED
      BY <2>2, <3>1
  <2>4. {clip} \cup {tmp} = {clip, tmp}
    OBVIOUS
  <2> QED
    BY <2>3, <2>4
<1> HIDE DEF written, spoken
<1>5. IsFiniteSet({clip, tmp} \cup written)
      /\ Cardinality({clip, tmp} \cup written) <= 2 + Cardinality(Requests)
      /\ Cardinality({clip, tmp} \cup written) \in Nat
  <2>1. IsFiniteSet({clip, tmp} \cup written)
    BY <1>2, <1>4, FS_Union
  <2>2. Cardinality({clip, tmp} \cup written)
        <= Cardinality({clip, tmp}) + Cardinality(written)
    <3>1. /\ Cardinality({clip, tmp} \cup written)
             = Cardinality({clip, tmp}) + Cardinality(written)
               - Cardinality({clip, tmp} \cap written)
      BY <1>2, <1>4, FS_Union
    <3>2. Cardinality({clip, tmp} \cap written) \in Nat
      BY <1>4, FS_Intersection, FS_CardinalityType
    <3> QED
      BY <1>2, <1>4, <3>1, <3>2
  <2>3. Cardinality({clip, tmp} \cup written) \in Nat
    BY <2>1, FS_CardinalityType
  <2> QED
    BY <1>1, <1>2, <1>4, <2>1, <2>2, <2>3
<1>6. IsFiniteSet(used) /\ Cardinality(used) <= 2 + 2 * Cardinality(Requests)
      /\ Cardinality(used) \in Nat
  <2> DEFINE rest == {clip, tmp} \cup written
  <2>0. IsFiniteSet(rest) /\ Cardinality(rest) <= 2 + Cardinality(Requests)
        /\ Cardinality(rest) \in Nat /\ used = rest \cup spoken
    BY <1>5
  <2> HIDE DEF rest, used
  <2>1. IsFiniteSet(rest \cup spoken)
    BY <1>3, <2>0, FS_Union
  <2>2. Cardinality(rest \cup spoken)
        = Cardinality(rest) + Cardinality(spoken) - Cardinality(rest \cap spoken)
    BY <1>3, <2>0, FS_Union
  <2>3. Cardinality(rest \cap spoken) \in Nat
    BY <2>0, FS_Intersection, FS_CardinalityType
  <2>4. Cardinality(rest \cup spoken) \in Nat
    BY <2>1, FS_CardinalityType
  <2>5. Cardinality(rest \cup spoken) <= 2 + 2 * Cardinality(Requests)
    BY <1>1, <1>3, <2>0, <2>2, <2>3
  <2> QED
    BY <2>0, <2>1, <2>4, <2>5
<1>7. IsFiniteSet(Inodes) /\ Cardinality(Inodes) = 2 * Cardinality(Requests) + 3
  <2>1. 2 * Cardinality(Requests) + 2 \in Nat
    BY <1>1
  <2> QED
    BY <1>1, <2>1, FS_Interval DEF Inodes
<1> HIDE DEF used
<1>8. \E i \in Inodes : i \notin used
  <2> SUFFICES ASSUME Inodes \subseteq used PROVE FALSE
    OBVIOUS
  <2>1. Cardinality(Inodes) <= Cardinality(used)
    BY <1>6, FS_Subset
  <2> QED
    BY <1>1, <1>6, <1>7, <2>1
<1> QED
  BY <1>8 DEF FreshInode, used, written, spoken

(* A request that writes writes an inode.                                  *)
OpenFiles == \A r \in Requests : where[r] = "write" => writing[r] \in Inodes

Typed == SharingTypeOK /\ OpenFiles

LEMMA TypesInit == SharingInit => Typed
<1> SUFFICES ASSUME SharingInit PROVE SharingTypeOK /\ OpenFiles
  BY DEF Typed
<1>1. 0 \in 0..MaxParts /\ 0 \in 0..MaxCrashes
  BY SharingAssumption DEF SharingAssumption
<1> QED
  BY <1>1 DEF SharingInit, SharingTypeOK, OpenFiles, Places, Modes, Inodes

LEMMA TypesStep ==
    Typed /\ [SharingNext]_sharingVars => Typed'
<1> SUFFICES ASSUME Typed, [SharingNext]_sharingVars
             PROVE  SharingTypeOK' /\ OpenFiles'
  BY DEF Typed
<1> USE DEF Typed, SharingTypeOK, OpenFiles, Places, Modes, MoveTo, clipVars,
            switchVars
<1>1. ASSUME NEW r \in Requests, Enter(r) PROVE SharingTypeOK' /\ OpenFiles'
  BY <1>1 DEF Enter, Inodes
<1>2. ASSUME NEW r \in Requests, StartCall(r) PROVE SharingTypeOK' /\ OpenFiles'
  <2>1. adapter' \in BOOLEAN
    BY <1>2 DEF StartCall
  <2>2. saved' \in [Requests -> BOOLEAN]
    BY <1>2 DEF StartCall
  <2> QED
    BY <1>2, <2>1, <2>2 DEF StartCall, Inodes
<1>3. ASSUME NEW r \in Requests, UseClip(r) PROVE SharingTypeOK' /\ OpenFiles'
  BY <1>3 DEF UseClip, Inodes
<1>4. ASSUME NEW r \in Requests, StartWriting(r) PROVE SharingTypeOK' /\ OpenFiles'
  <2> DEFINE inode == IF tmp = None THEN FreshInode ELSE tmp
  <2>1. inode \in Inodes
    BY FreshInodeExists
  <2> HIDE DEF inode
  <2>2. tmp' = inode /\ whole' = whole \ {inode}
        /\ writing' = [writing EXCEPT ![r] = inode]
    BY <1>4 DEF StartWriting, inode
  <2> QED
    BY <1>4, <2>1, <2>2 DEF StartWriting, Inodes
<1>5. ASSUME NEW r \in Requests, Publish(r) PROVE SharingTypeOK' /\ OpenFiles'
  <2>1. writing[r] \in Inodes
    BY <1>5 DEF Publish
  <2>2. whole' \subseteq Inodes
    BY <1>5, <2>1 DEF Publish
  <2> QED
    BY <1>5, <2>2 DEF Publish, Inodes
<1>6. ASSUME NEW r \in Requests, WriteFails(r) PROVE SharingTypeOK' /\ OpenFiles'
  BY <1>6 DEF WriteFails, Inodes
<1>7. ASSUME NEW r \in Requests, CallEnds(r)
      PROVE  /\ adapter' \in BOOLEAN
             /\ prompt' \in [Requests -> Inodes \cup {None}]
             /\ UNCHANGED <<saved, clip, tmp, whole, writing, crashes>>
  BY <1>7 DEF CallEnds, Inodes
<1>8. ASSUME NEW r \in Requests, NextPart(r) PROVE SharingTypeOK' /\ OpenFiles'
  <2>1. parts' \in [Requests -> 0..MaxParts]
    BY <1>8, SharingAssumption DEF NextPart, SharingAssumption
  <2> QED
    BY <1>7, <1>8, <2>1 DEF NextPart, Inodes
<1>9. ASSUME NEW r \in Requests, CandidatesFail(r) PROVE SharingTypeOK' /\ OpenFiles'
  BY <1>7, <1>9 DEF CandidatesFail, Inodes
<1>10. ASSUME NEW r \in Requests, Respond(r) PROVE SharingTypeOK' /\ OpenFiles'
  BY <1>7, <1>10 DEF Respond, Inodes
<1>11. ASSUME Crash PROVE SharingTypeOK' /\ OpenFiles'
  <2>1. 0 \in 0..MaxParts /\ crashes' \in 0..MaxCrashes
    BY <1>11, SharingAssumption DEF Crash, SharingAssumption
  <2> QED
    BY <1>11, <2>1 DEF Crash, Inodes
<1>12. CASE UNCHANGED sharingVars
  BY <1>12 DEF sharingVars, Inodes
<1> QED
  BY <1>1, <1>2, <1>3, <1>4, <1>5, <1>6, <1>8, <1>9, <1>10, <1>11, <1>12
     DEF SharingNext, SharingStep

(* The names and switches stay within their types for every number of      *)
(* permits.                                                                *)
THEOREM SharingTypeCorrect == SharingSpec => []SharingTypeOK
<1>1. Typed => SharingTypeOK
  BY DEF Typed
<1> QED
  BY <1>1, TypesInit, TypesStep, PTL DEF SharingSpec

(***************************************************************************)
(* One permit                                                              *)
(***************************************************************************)

(* GPUGuard admits one request at a time.                                  *)
Alone == \A r, q \in Holding : r = q

(* The request that writes owns the temporary file and there is no cached  *)
(* clip yet; only a call speaks with the clip, and it is the current one.  *)
OwnedFiles ==
    /\ \A r \in Requests :
          /\ writing[r] # None => where[r] = "write"
          /\ where[r] = "write" => writing[r] = tmp /\ clip = None
          /\ prompt[r] # None => where[r] = "call" /\ prompt[r] = clip
    /\ clip # None => clip \in whole

(* Inside the handler, past the start of the call.                         *)
Calling(r) == where[r] \in {"prompt", "write", "call"}

(* The switch is on for the part of the request that holds the permit and  *)
(* for nothing else, so a part always finds it off.                        *)
SwitchOfTheHolder ==
    /\ \A r \in Requests : Calling(r) => (adapter <=> mode[r] = "part")
    /\ adapter => \E r \in Requests : Calling(r) /\ mode[r] = "part"
    /\ \A r \in Requests : ~saved[r]

IInv == Typed /\ Alone /\ OwnedFiles /\ SwitchOfTheHolder

(* What the permit gives: nobody is inside when a request enters, and a    *)
(* step of a request inside the handler meets no other request there.      *)
LEMMA EntersEmpty ==
    ASSUME GpuConcurrency = 1, NEW r \in Requests, Enter(r)
    PROVE  Holding = {}
<1>1. IsFiniteSet(Holding)
  <2>1. Holding \in SUBSET Requests
    BY DEF Holding
  <2> QED
    BY <2>1, SharingAssumption, FS_Subset DEF SharingAssumption
<1>2. Cardinality(Holding) \in Nat /\ Cardinality(Holding) < 1
  BY <1>1, FS_CardinalityType DEF Enter
<1>3. Cardinality(Holding) = 0
  BY <1>2
<1> QED
  BY <1>1, <1>3, FS_EmptySet

LEMMA HoldsAlone ==
    ASSUME SharingTypeOK, Alone, NEW r \in Requests, where[r] \notin {"idle", "done"}
    PROVE  \A q \in Requests : q # r => where[q] \in {"idle", "done"}
  BY DEF Alone, Holding

LEMMA SoleInit == SharingInit => IInv
<1> SUFFICES ASSUME SharingInit PROVE Alone /\ OwnedFiles /\ SwitchOfTheHolder
  BY TypesInit DEF IInv
<1>1. Alone
  BY DEF SharingInit, Alone, Holding
<1>2. OwnedFiles
  BY DEF SharingInit, OwnedFiles
<1>3. SwitchOfTheHolder
  BY DEF SharingInit, SwitchOfTheHolder, Calling
<1> QED
  BY <1>1, <1>2, <1>3

LEMMA SoleStep ==
    ASSUME GpuConcurrency = 1, IInv, [SharingNext]_sharingVars
    PROVE  IInv'
<1>0. Typed'
  BY TypesStep DEF IInv
<1> SUFFICES (Alone /\ OwnedFiles /\ SwitchOfTheHolder)'
  BY <1>0 DEF IInv
<1> USE DEF IInv, Typed, SharingTypeOK, MoveTo, clipVars, switchVars
<1>1. ASSUME NEW r \in Requests, Enter(r)
      PROVE  (Alone /\ OwnedFiles /\ SwitchOfTheHolder)'
  <2>1. \A q \in Requests : where[q] \in {"idle", "done"}
    BY <1>1, EntersEmpty DEF Holding
  <2>2. Alone'
    BY <1>1, <2>1 DEF Enter, Alone, Holding
  <2>3. OwnedFiles'
    BY <1>1, <2>1 DEF Enter, OwnedFiles
  <2>4. ~adapter
    BY <2>1 DEF SwitchOfTheHolder, Calling
  <2>5. SwitchOfTheHolder'
    BY <1>1, <2>1, <2>4 DEF Enter, SwitchOfTheHolder, Calling
  <2> QED
    BY <2>2, <2>3, <2>5
<1>2. ASSUME NEW r \in Requests, StartCall(r)
      PROVE  (Alone /\ OwnedFiles /\ SwitchOfTheHolder)'
  <2>1. where[r] = "ready" /\ where' = [where EXCEPT ![r] = "prompt"]
    BY <1>2 DEF StartCall
  <2>2. \A q \in Requests : q # r => where[q] \in {"idle", "done"}
    BY <2>1, HoldsAlone
  <2>3. Alone'
    BY <2>1, <2>2 DEF Alone, Holding
  <2>4. OwnedFiles'
    BY <1>2, <2>1 DEF StartCall, OwnedFiles
  <2>5. ~adapter
    BY <2>1, <2>2 DEF SwitchOfTheHolder, Calling
  <2>6. mode' = mode /\ (adapter' <=> mode[r] = "part")
    BY <1>2, <2>5 DEF StartCall, Modes
  <2>7. \A q \in Requests : ~saved'[q]
    BY <1>2, <2>5 DEF StartCall, SwitchOfTheHolder
  <2>8. SwitchOfTheHolder'
    BY <2>1, <2>2, <2>6, <2>7 DEF SwitchOfTheHolder, Calling
  <2> QED
    BY <2>3, <2>4, <2>8
<1>3. ASSUME NEW r \in Requests, UseClip(r)
      PROVE  (Alone /\ OwnedFiles /\ SwitchOfTheHolder)'
  <2>1. where[r] = "prompt" /\ where' = [where EXCEPT ![r] = "call"]
    BY <1>3 DEF UseClip
  <2>2. \A q \in Requests : q # r => where[q] \in {"idle", "done"}
    BY <2>1, HoldsAlone
  <2>3. Alone'
    BY <2>1, <2>2 DEF Alone, Holding
  <2>4. OwnedFiles'
    BY <1>3, <2>1, <2>2 DEF UseClip, OwnedFiles
  <2>5. SwitchOfTheHolder'
    BY <1>3, <2>1, <2>2 DEF UseClip, SwitchOfTheHolder, Calling
  <2> QED
    BY <2>3, <2>4, <2>5
<1>4. ASSUME NEW r \in Requests, StartWriting(r)
      PROVE  (Alone /\ OwnedFiles /\ SwitchOfTheHolder)'
  <2>1. where[r] = "prompt" /\ where' = [where EXCEPT ![r] = "write"]
    BY <1>4 DEF StartWriting
  <2>2. \A q \in Requests : q # r => where[q] \in {"idle", "done"}
    BY <2>1, HoldsAlone
  <2>3. Alone'
    BY <2>1, <2>2 DEF Alone, Holding
  <2>4. OwnedFiles'
    <3>1. PICK i : tmp' = i /\ writing' = [writing EXCEPT ![r] = i]
      BY <1>4 DEF StartWriting
    <3>2. clip = None /\ clip' = None /\ prompt' = prompt
      BY <1>4 DEF StartWriting
    <3> QED
      BY <2>1, <2>2, <3>1, <3>2 DEF OwnedFiles
  <2>5. SwitchOfTheHolder'
    BY <1>4, <2>1, <2>2 DEF StartWriting, SwitchOfTheHolder, Calling
  <2> QED
    BY <2>3, <2>4, <2>5
<1>5. ASSUME NEW r \in Requests, Publish(r)
      PROVE  (Alone /\ OwnedFiles /\ SwitchOfTheHolder)'
  <2>1. where[r] = "write" /\ where' = [where EXCEPT ![r] = "call"]
    BY <1>5 DEF Publish
  <2>2. \A q \in Requests : q # r => where[q] \in {"idle", "done"}
    BY <2>1, HoldsAlone
  <2>3. Alone'
    BY <2>1, <2>2 DEF Alone, Holding
  <2>4. OwnedFiles'
    <3>1. writing[r] = tmp /\ clip = None /\ prompt[r] = None
      BY <2>1 DEF OwnedFiles
    <3>2. \A q \in Requests : q # r => writing[q] = None /\ prompt[q] = None
      BY <2>2 DEF OwnedFiles
    <3>3. \A q \in Requests : writing'[q] = None
      BY <1>5, <3>2 DEF Publish
    <3>4. CASE tmp = None
      BY <1>5, <2>1, <2>2, <3>1, <3>2, <3>3, <3>4 DEF Publish, OwnedFiles
    <3>5. CASE tmp # None
      <4>1. clip' = tmp /\ prompt' = [prompt EXCEPT ![r] = tmp] /\ tmp \in whole'
        BY <1>5, <3>1, <3>5 DEF Publish
      <4> QED
        BY <2>1, <2>2, <3>2, <3>3, <4>1 DEF OwnedFiles
    <3> QED
      BY <3>4, <3>5
  <2>5. SwitchOfTheHolder'
    BY <1>5, <2>1, <2>2 DEF Publish, SwitchOfTheHolder, Calling
  <2> QED
    BY <2>3, <2>4, <2>5
<1>6. ASSUME NEW r \in Requests, WriteFails(r)
      PROVE  (Alone /\ OwnedFiles /\ SwitchOfTheHolder)'
  <2>1. where[r] = "write" /\ where' = [where EXCEPT ![r] = "call"]
    BY <1>6 DEF WriteFails
  <2>2. \A q \in Requests : q # r => where[q] \in {"idle", "done"}
    BY <2>1, HoldsAlone
  <2>3. Alone'
    BY <2>1, <2>2 DEF Alone, Holding
  <2>4. OwnedFiles'
    BY <1>6, <2>1, <2>2 DEF WriteFails, OwnedFiles
  <2>5. SwitchOfTheHolder'
    BY <1>6, <2>1, <2>2 DEF WriteFails, SwitchOfTheHolder, Calling
  <2> QED
    BY <2>3, <2>4, <2>5
<1>7. ASSUME NEW r \in Requests, CallEnds(r), NEW place \in {"ready", "done"},
             where' = [where EXCEPT ![r] = place],
             \A q \in Requests : q # r => mode'[q] = mode[q]
      PROVE  (Alone /\ OwnedFiles /\ SwitchOfTheHolder)'
  <2>1. where[r] = "call"
    BY <1>7 DEF CallEnds
  <2>2. \A q \in Requests : q # r => where[q] \in {"idle", "done"}
    BY <2>1, HoldsAlone
  <2>3. \A q \in Requests : where'[q] \in {"idle", "done"} \/ q = r
    BY <1>7, <2>2
  <2>4. Alone'
    BY <2>3 DEF Alone, Holding
  <2>5. OwnedFiles'
    BY <1>7, <2>1, <2>2 DEF CallEnds, OwnedFiles
  <2>6. ~adapter'
    BY <1>7, <2>1 DEF CallEnds, SwitchOfTheHolder, Calling
  <2>7. SwitchOfTheHolder'
    BY <1>7, <2>2, <2>6 DEF CallEnds, SwitchOfTheHolder, Calling
  <2> QED
    BY <2>4, <2>5, <2>7
<1>8. ASSUME NEW r \in Requests, NextPart(r) \/ CandidatesFail(r) \/ Respond(r)
      PROVE  (Alone /\ OwnedFiles /\ SwitchOfTheHolder)'
  <2>1. CallEnds(r) /\ \A q \in Requests : q # r => mode'[q] = mode[q]
    BY <1>8 DEF NextPart, CandidatesFail, Respond
  <2>2. where' = [where EXCEPT ![r] = "ready"] \/ where' = [where EXCEPT ![r] = "done"]
    BY <1>8 DEF NextPart, CandidatesFail, Respond
  <2> QED
    BY <1>7, <2>1, <2>2
<1>9. ASSUME Crash PROVE (Alone /\ OwnedFiles /\ SwitchOfTheHolder)'
  BY <1>9 DEF Crash, Alone, Holding, OwnedFiles, SwitchOfTheHolder, Calling
<1>10. CASE UNCHANGED sharingVars
  BY <1>10 DEF sharingVars, Alone, Holding, OwnedFiles, SwitchOfTheHolder, Calling
<1> QED
  BY <1>1, <1>2, <1>3, <1>4, <1>5, <1>6, <1>8, <1>9, <1>10
     DEF SharingNext, SharingStep

LEMMA SoleInvariant ==
    ASSUME GpuConcurrency = 1
    PROVE  SharingSpec => []IInv
<1>1. IInv /\ [SharingNext]_sharingVars => IInv'
  BY SoleStep
<1> QED
  BY <1>1, SoleInit, PTL DEF SharingSpec

(* With one GPU permit no request is ever spoken with a cut-short clip     *)
(* (_prepare_spk_audio_prompt), whatever fails or is restarted meanwhile.  *)
THEOREM OnePermitKeepsClipsWhole ==
    ASSUME GpuConcurrency = 1
    PROVE  SharingSpec => []ClipIsWhole
<1>1. IInv => ClipIsWhole
  <2> SUFFICES ASSUME IInv PROVE ClipIsWhole
    OBVIOUS
  <2>1. ASSUME clip # None PROVE Intact(clip)
    BY <2>1 DEF IInv, OwnedFiles, Intact
  <2> QED
    BY <2>1 DEF IInv, OwnedFiles, ClipIsWhole
<1> QED
  BY <1>1, SoleInvariant, PTL

(* With one GPU permit the adapter is on exactly during the parts of       *)
(* candidates (LoraAdapterController.enabled).                             *)
THEOREM OnePermitKeepsTheBaseVoice ==
    ASSUME GpuConcurrency = 1
    PROVE  SharingSpec => []AdapterFollowsCall
<1>1. IInv => AdapterFollowsCall
  BY DEF IInv, SwitchOfTheHolder, AdapterFollowsCall, Calling, Holding
<1> QED
  BY <1>1, SoleInvariant, PTL

(***************************************************************************)
(* The token budgets: types                                                *)
(***************************************************************************)

Feedbacks == [actualMs : Int, chars : Nat]

LEMMA RequestTypes ==
  ASSUME NEW req \in SynthRequests
  PROVE  /\ req.text.pieces \in Seq(Nat) /\ req.text.dropped \in Nat /\ req.rate \in Int
         /\ req.targetMs \in Nat /\ req.allowedMs \in Nat /\ req.timingMs \in Nat
         /\ req.headroom \in Nat
         /\ req.piecewise \in Seq([limitMs : Nat, rate : Int])
         /\ req.groups \in Seq([chars : Int, targetMs : Int])
BY BudgetAssumption DEF BudgetAssumption

LEMMA SpeakableNat ==
  ASSUME NEW req \in SynthRequests
  PROVE  Speakable(req.text) \in Nat /\ TargetMs(req) \in Nat
<1>1. Total(req.text.pieces) \in Nat BY RequestTypes, TotalNat
<1> QED BY <1>1, RequestTypes DEF Speakable, TargetMs, Greatest

LEMMA DivInt ==
  ASSUME NEW n \in Int, NEW d \in Nat, d > 0
  PROVE  n \div d \in Int /\ n % d \in Int /\ (n \in Nat => n \div d \in Nat)
OBVIOUS

LEMMA RoundInt ==
  ASSUME NEW n \in Int, NEW d \in Nat, d > 0
  PROVE  RoundDiv(n, d) \in Int
BY DivInt DEF RoundDiv

LEMMA RateInt ==
  ASSUME NEW req \in SynthRequests, NEW t \in Int
  PROVE  DurationTokenRate(req, t) \in Int
<1> DEFINE table == req.piecewise
           usable == {i \in DOMAIN table : table[i].rate > 0}
           limits == {i \in usable : table[i].limitMs > 0 /\ t < table[i].limitMs}
           defaults == {i \in usable : table[i].limitMs = 0}
<1>1. /\ Len(table) \in Nat /\ DOMAIN table = 1..Len(table)
      /\ \A i \in DOMAIN table : table[i].rate \in Int
  <2> DEFINE Entries == [limitMs : Nat, rate : Int]
  <2>1. table \in Seq(Entries) BY RequestTypes
  <2>2. \A e \in Entries : e.rate \in Int OBVIOUS
  <2> HIDE DEF table, Entries
  <2>3. /\ Len(table) \in Nat /\ DOMAIN table = 1..Len(table)
        /\ \A i \in DOMAIN table : table[i] \in Entries
    BY <2>1, SeqElements
  <2> QED BY <2>2, <2>3
<1>2. ConstantRate(req.rate) \in Int BY RequestTypes DEF ConstantRate, UnitRate
<1>3. CASE limits # {}
  <2>1. limits \subseteq DOMAIN table /\ limits \subseteq Nat BY <1>1
  <2>2. \E n \in limits : \A m \in limits : n <= m
    <3> HIDE DEF limits
    <3> QED BY <1>3, <2>1, LeastNumber
  <2>3. Min(limits) \in limits
    <3> HIDE DEF limits
    <3> QED BY <2>2 DEF Min
  <2>4. table[Min(limits)].rate \in Int BY <2>1, <2>3, <1>1
  <2> QED BY <1>2, <1>3, <2>4 DEF DurationTokenRate
<1>4. CASE limits = {} /\ defaults # {}
  <2>1. defaults \subseteq 1..Len(table) BY <1>1
  <2>2. Max(defaults) \in defaults
    <3> HIDE DEF defaults, table
    <3> QED BY <1>1, <1>4, <2>1, MaxOfBounded
  <2>3. table[Max(defaults)].rate \in Int BY <2>1, <2>2, <1>1
  <2> QED BY <1>2, <1>4, <2>3 DEF DurationTokenRate
<1>5. CASE limits = {} /\ defaults = {}
  BY <1>2, <1>5 DEF DurationTokenRate
<1> QED BY <1>3, <1>4, <1>5

LEMMA DurationTokensInt ==
  ASSUME NEW req \in SynthRequests, NEW t \in Int
  PROVE  DurationTokens(req, t) \in Int
<1>1. DurationTokenRate(req, t) \in Int BY RateInt
<1>2. Greatest(50, t) * DurationTokenRate(req, t) \in Int BY <1>1 DEF Greatest
<1>3. RoundDiv(Greatest(50, t) * DurationTokenRate(req, t), 1000 * UnitRate) \in Int
  BY <1>2, RoundInt DEF UnitRate
<1> QED BY <1>3 DEF DurationTokens, Greatest

LEMMA DurationMaxNat ==
  ASSUME NEW req \in SynthRequests, NEW current \in Int, NEW target \in Int,
         NEW allowed \in Int, NEW t \in Int
  PROVE  /\ DurationMaxTokens(req, current, target, allowed, t) \in Nat
         /\ DurationMaxTokens(req, current, target, allowed, t) >= 64
         /\ DurationMaxTokens(req, current, target, allowed, t) <= 4096
<1> DEFINE rate == DurationTokenRate(req, IF t = 0 THEN allowed ELSE t)
           full == (Greatest(50, allowed) * rate) \div (1000 * UnitRate)
           extra == target + Least(128, Greatest(24, target \div 4))
<1>1. rate \in Int BY RateInt
<1>2. Greatest(50, allowed) * rate \in Int BY <1>1 DEF Greatest
<1>3. full \in Int
  <2> HIDE DEF rate
  <2> QED BY <1>2, DivInt DEF UnitRate
<1>4. extra \in Int
  <2>1. target \div 4 \in Int BY DivInt
  <2> QED BY <2>1 DEF Least, Greatest
<1> HIDE DEF rate, full, extra
<1>5. /\ Greatest(current, extra) \in Int
      /\ Greatest(target, IF full <= 0 THEN target ELSE full) \in Int
  BY <1>3, <1>4 DEF Greatest
<1>6. \A x, y \in Int : LET z == Greatest(64, Least(x, Least(y, 4096)))
                        IN  z \in Nat /\ z >= 64 /\ z <= 4096
  BY DEF Greatest, Least
<1> QED BY <1>5, <1>6 DEF DurationMaxTokens, rate, full, extra

LEMMA BudgetInts ==
  ASSUME NEW req \in SynthRequests, NEW fb \in Feedbacks
  PROVE  /\ Chars(req) \in Nat /\ Speakable(req.text) \in Nat
         /\ Observed(fb) \in Int
         /\ BlendTokensPerChar(Observed(fb)) \in Int
         /\ BlendTokensPerChar(Observed(fb)) >= PriorPerChar \div 2
         /\ TokensFromText(req, fb) \in Int
         /\ TokensFromAllowed(req) \in Nat
         /\ AllowedMs(req) \in Nat
<1>1. Speakable(req.text) \in Nat BY SpeakableNat
<1>2. Chars(req) \in Nat BY <1>1 DEF Chars, Greatest
<1>3. Observed(fb) \in Int
  <2>1. fb.actualMs \in Int /\ fb.chars \in Nat BY DEF Feedbacks
  <2>2. fb.actualMs * TokensPerSec \in Int BY <2>1 DEF TokensPerSec
  <2>3. CASE fb.actualMs > 0 /\ fb.chars > 0
    <3>1. 10 * fb.chars \in Nat /\ 10 * fb.chars > 0 BY <2>1, <2>3
    <3>2. (fb.actualMs * TokensPerSec) \div (10 * fb.chars) \in Int BY <2>2, <3>1, DivInt
    <3> QED BY <2>3, <3>2 DEF Observed
  <2>4. CASE ~(fb.actualMs > 0 /\ fb.chars > 0) BY <2>4 DEF Observed
  <2> QED BY <2>3, <2>4
<1>4. /\ BlendTokensPerChar(Observed(fb)) \in Int
      /\ BlendTokensPerChar(Observed(fb)) >= PriorPerChar \div 2
  <2> DEFINE o == Observed(fb)
  <2>1. o \in Int BY <1>3
  <2> HIDE DEF o
  <2>2. BlendTokensPerChar(o) \in Int /\ BlendTokensPerChar(o) >= PriorPerChar \div 2
    BY <2>1 DEF BlendTokensPerChar, PriorPerChar, Greatest
  <2> QED BY <2>2 DEF o
<1>5. TokensFromText(req, fb) \in Int
  <2> DEFINE b == BlendTokensPerChar(Observed(fb))
             c == Chars(req)
  <2>1. b \in Int /\ c \in Int BY <1>2, <1>4
  <2> HIDE DEF b, c
  <2>2. c * b * 105 \in Int BY <2>1
  <2>3. (c * b * 105) \div 10000 \in Int BY <2>2, DivInt
  <2> QED BY <2>3 DEF b, c, TokensFromText
<1>6. AllowedMs(req) \in Nat BY RequestTypes, SpeakableNat DEF AllowedMs
<1>7. TokensFromAllowed(req) \in Nat BY <1>6 DEF TokensFromAllowed, TokensPerSec
<1> QED BY <1>1, <1>2, <1>3, <1>4, <1>5, <1>6, <1>7

LEMMA BudgetNat ==
  ASSUME NEW req \in SynthRequests, NEW fb \in Feedbacks
  PROVE  /\ MaxMelTokens(req, fb) \in Nat
         /\ MaxMelTokens(req, fb) >= 64 /\ MaxMelTokens(req, fb) <= 4096
         /\ ~Embedding(req) /\ req.headroom = 0 =>
               MaxMelTokens(req, fb) <= Greatest(64, TokensFromAllowed(req))
<1>1. /\ TextBudget(req, fb) \in Nat
      /\ TextBudget(req, fb) >= 64 /\ TextBudget(req, fb) <= 4096
      /\ TextBudget(req, fb) <= Greatest(64, TokensFromAllowed(req))
  BY BudgetInts DEF TextBudget, Greatest, Least
<1>2. /\ ControlledBudget(req, fb) \in Nat
      /\ ControlledBudget(req, fb) >= 64 /\ ControlledBudget(req, fb) <= 4096
      /\ ~Embedding(req) => ControlledBudget(req, fb) = TextBudget(req, fb)
  <2> DEFINE d == DurationMaxTokens(req, TextBudget(req, fb), DurationTokens(req, TargetMs(req)),
                                    AllowedMs(req), TargetMs(req))
  <2>1. /\ TextBudget(req, fb) \in Int /\ AllowedMs(req) \in Int /\ TargetMs(req) \in Int
        /\ DurationTokens(req, TargetMs(req)) \in Int
    <3>1. TargetMs(req) \in Int BY SpeakableNat
    <3>2. DurationTokens(req, TargetMs(req)) \in Int BY <3>1, DurationTokensInt
    <3> QED BY <1>1, <3>1, <3>2, BudgetInts
  <2>2. d \in Nat /\ d >= 64 /\ d <= 4096 BY <2>1, DurationMaxNat
  <2>3. ControlledBudget(req, fb) = IF Embedding(req) THEN d ELSE TextBudget(req, fb)
    BY DEF ControlledBudget
  <2> HIDE DEF d
  <2> QED BY <1>1, <2>2, <2>3
<1>3. (req.timingMs * TokensPerSec) \div 1000 \in Int
  BY RequestTypes, DivInt DEF TokensPerSec
<1> DEFINE timed == IF req.timingMs > 0
                    THEN Greatest(64, Least(ControlledBudget(req, fb),
                                            (req.timingMs * TokensPerSec) \div 1000))
                    ELSE ControlledBudget(req, fb)
<1>5. timed \in Nat /\ timed >= 64 /\ timed <= ControlledBudget(req, fb)
  BY <1>2, <1>3 DEF Greatest, Least
<1>6. MaxMelTokens(req, fb)
        = IF req.headroom > 0 THEN Least(4096, timed + req.headroom) ELSE timed
  BY DEF MaxMelTokens
<1> HIDE DEF timed
<1>7. req.headroom \in Nat /\ TokensFromAllowed(req) \in Nat BY RequestTypes, BudgetInts
<1> QED BY <1>1, <1>2, <1>5, <1>6, <1>7 DEF Least, Greatest

(***************************************************************************)
(* Chunking keeps the text                                                 *)
(***************************************************************************)

(* _split_oversized_piece cuts a sentence without losing characters.       *)
LEMMA OversizedKeepsText ==
  ASSUME NEW piece \in Nat
  PROVE  OversizedParts(piece) \in Seq(Nat) /\ Total(OversizedParts(piece)) = piece
<1> DEFINE k == piece \div 72
           full == [i \in 1..k |-> 72]
           rest == piece % 72
<1>1. k \in Nat /\ rest \in Nat /\ piece = 72 * k + rest OBVIOUS
<1>2. full \in Seq(Nat) OBVIOUS
<1>3. Total(full) = 72 * k
  <2> DEFINE c == 72
  <2>1. /\ full \in Seq(Int) /\ Len(full) = k /\ c \in Int
        /\ \A i \in 1..Len(full) : full[i] = c
    BY <1>1
  <2> HIDE DEF k, full, c
  <2>2. Total(full) = c * Len(full) BY <2>1, TotalConstant
  <2> QED BY <2>1, <2>2 DEF c
<1>4. Append(full, rest) \in Seq(Nat) BY <1>1, <1>2
<1>5. Total(Append(full, rest)) = piece
  <2>1. full \in Seq(Int) /\ rest \in Int BY <1>1, <1>2
  <2> HIDE DEF full, rest, k
  <2>2. Total(Append(full, rest)) = Total(full) + rest BY <2>1, TotalAppend
  <2> QED BY <1>1, <1>3, <2>2
<1>6. <<piece>> \in Seq(Nat) /\ Total(<<piece>>) = piece BY TotalOne
<1>7. OversizedParts(piece)
        = IF piece <= 110 THEN <<piece>>
          ELSE IF rest = 0 THEN full ELSE Append(full, rest)
  BY DEF OversizedParts, MaxChars, TargetChars
<1>8. rest = 0 => Total(full) = piece
  <2> HIDE DEF full, rest, k
  <2> QED BY <1>1, <1>3
<1> HIDE DEF full, rest, k
<1> QED BY <1>2, <1>4, <1>5, <1>6, <1>7, <1>8

(* The loop of _split_long_tts_text.                                       *)
Packing == [chunks : Seq(Nat), current : Nat]

Packed(state) == Total(state.chunks) + state.current

LEMMA AddPartKeepsText ==
  ASSUME NEW state \in Packing, NEW part \in Nat
  PROVE  /\ AddPart(state, part) \in Packing
         /\ Packed(AddPart(state, part)) = Packed(state) + part
<1>1. state.chunks \in Seq(Nat) /\ state.current \in Nat /\ state.chunks \in Seq(Int)
  BY DEF Packing
<1>2. Total(state.chunks) \in Int BY <1>1, TotalType
<1>3. CASE state.current = 0
  <2>1. AddPart(state, part) = [state EXCEPT !.current = part] BY <1>3 DEF AddPart
  <2>2. /\ [state EXCEPT !.current = part] \in Packing
        /\ [state EXCEPT !.current = part].chunks = state.chunks
        /\ [state EXCEPT !.current = part].current = part
    BY DEF Packing
  <2> QED BY <1>1, <1>2, <1>3, <2>1, <2>2 DEF Packed
<1>4. CASE state.current # 0 /\ (state.current >= TargetChars \/ state.current + part > MaxChars)
  <2>1. AddPart(state, part) = [chunks |-> Append(state.chunks, state.current), current |-> part]
    BY <1>4 DEF AddPart
  <2>2. Append(state.chunks, state.current) \in Seq(Nat) BY <1>1
  <2>3. Total(Append(state.chunks, state.current)) = Total(state.chunks) + state.current
    BY <1>1, TotalAppend
  <2> QED BY <1>1, <1>2, <2>1, <2>2, <2>3 DEF Packed, Packing
<1>5. CASE state.current # 0 /\ ~(state.current >= TargetChars \/ state.current + part > MaxChars)
  <2>1. AddPart(state, part) = [state EXCEPT !.current = @ + part] BY <1>5 DEF AddPart
  <2>2. state.current + part \in Nat BY <1>1
  <2>3. /\ [state EXCEPT !.current = @ + part] \in Packing
        /\ [state EXCEPT !.current = @ + part].chunks = state.chunks
        /\ [state EXCEPT !.current = @ + part].current = state.current + part
    BY <2>2, SMTT(30) DEF Packing
  <2> QED BY <1>1, <1>2, <2>1, <2>3 DEF Packed
<1> QED BY <1>3, <1>4, <1>5

LEMMA PackingLoop ==
  ASSUME NEW s \in Seq(Nat)
  PROVE  /\ FoldLeft(AddPart, [chunks |-> <<>>, current |-> 0], s) \in Packing
         /\ Packed(FoldLeft(AddPart, [chunks |-> <<>>, current |-> 0], s)) = Total(s)
<1> DEFINE D == Nat
           X == Packing
           A == [chunks |-> <<>>, current |-> 0]
           F == [p \in X \X D |-> AddPart(p[1], p[2])]
           end == FoldLeft(AddPart, A, s)
<1>0. /\ Len(s) \in Nat /\ DOMAIN s = 1..Len(s) /\ s \in Seq(D) /\ s \in Seq(Int)
      /\ A \in X /\ Packed(A) = 0
      /\ \A n \in 1..Len(s) : n - 1 \in 0..Len(s) /\ s[n] \in D
  BY TotalEmpty DEF Packing, Packed
<1>1. F \in [X \X D -> X] /\ \A a \in X, b \in D : F[<<a, b>>] = AddPart(a, b)
  BY AddPartKeepsText
<1> HIDE DEF F, X, D
<1>2. PICK f \in [SUBSET (1..Len(s)) -> X] : FoldTable(f, s, A, F)
  <2> HIDE DEF A
  <2> QED BY <1>0, <1>1, FoldExists
<1>3. ASSUME NEW S \in SUBSET (1..Len(s)), S # {}
      PROVE  Max(S) \in 1..Len(s) /\ S \ {Max(S)} \in SUBSET (1..Len(s))
  BY <1>0, <1>3, MaxOfBounded
<1>4. f = [S \in SUBSET (1..Len(s)) |->
              IF S = {} THEN A ELSE AddPart(f[S \ {Max(S)}], s[Max(S)])]
  <2>1. ASSUME NEW S \in SUBSET (1..Len(s)), S # {}
        PROVE  F[<<f[S \ {Max(S)}], s[Max(S)]>>] = AddPart(f[S \ {Max(S)}], s[Max(S)])
    BY <1>0, <1>1, <1>3, <2>1
  <2> QED BY <1>2, <2>1 DEF FoldTable
<1>5. PICK h : /\ h = [S \in SUBSET (1..Len(s)) |->
                          IF S = {} THEN A ELSE AddPart(h[S \ {Max(S)}], s[Max(S)])]
               /\ end = h[1..Len(s)]
  BY <1>0, <1>4, Zenon DEF FoldLeft, MapThenFoldSet
<1> HIDE DEF A, end
<1>6. h[{}] = A BY <1>5
<1>7. ASSUME NEW S \in SUBSET (1..Len(s)), S # {}, h[S \ {Max(S)}] \in X
      PROVE  h[S] = F[<<h[S \ {Max(S)}], s[Max(S)]>>]
  <2>1. F[<<h[S \ {Max(S)}], s[Max(S)]>>] = AddPart(h[S \ {Max(S)}], s[Max(S)])
    BY <1>0, <1>1, <1>3, <1>7
  <2> QED BY <1>5, <1>7, <2>1
<1>8. EndsIn(h[1..Len(s)], s, A, F, X)
  <2>1. FoldsLike(h, s, A, F, X) BY <1>6, <1>7 DEF FoldsLike
  <2> QED BY <1>0, <1>1, <2>1, FoldTrajectory
<1> PICK g \in [0..Len(s) -> X] : Trajectory(g, s, A, F) /\ h[1..Len(s)] = g[Len(s)]
  BY <1>8 DEF EndsIn
<1>9. ASSUME NEW n \in 1..Len(s) PROVE g[n] = AddPart(g[n - 1], s[n])
  <2>1. g[n - 1] \in X /\ s[n] \in D BY <1>0
  <2> QED BY <1>1, <2>1 DEF Trajectory
<1>10. g[0] = A BY DEF Trajectory
<1>11. ASSUME NEW n \in 1..Len(s) PROVE Packed(g[n]) = Packed(g[n - 1]) + s[n]
  <2>1. g[n - 1] \in Packing /\ s[n] \in Nat BY <1>0 DEF X, D
  <2> QED BY <1>9, <2>1, AddPartKeepsText
<1> DEFINE q == [n \in 0..Len(s) |-> Packed(g[n])]
<1>12. q[0] = 0 /\ q[Len(s)] = Packed(g[Len(s)]) BY <1>0, <1>10
<1>13. \A n \in 1..Len(s) : q[n] = q[n - 1] + s[n]
  <2> SUFFICES ASSUME NEW n \in 1..Len(s) PROVE q[n] = q[n - 1] + s[n] OBVIOUS
  <2>1. n \in 0..Len(s) /\ n - 1 \in 0..Len(s) BY <1>0
  <2> QED BY <1>11, <2>1
<1>14. Total(s) = q[Len(s)]
  <2> HIDE DEF q
  <2> QED BY <1>0, <1>12, <1>13, TotalUnique
<1>15. end = g[Len(s)] /\ g[Len(s)] \in X BY <1>0, <1>5
<1>16. end \in X /\ Packed(end) = Total(s) BY <1>12, <1>14, <1>15
<1> QED BY <1>16 DEF end, A, X

LEMMA PackChunksKeepText ==
  ASSUME NEW text \in Seq(Nat)
  PROVE  PackChunks(text) \in Seq(Nat) /\ Total(PackChunks(text)) = Total(text)
<1>0. Len(text) \in Nat /\ DOMAIN text = 1..Len(text) /\ \A i \in DOMAIN text : text[i] \in Nat
  BY SeqElements
<1> DEFINE cut == [i \in DOMAIN text |-> OversizedParts(text[i])]
           sentences == FlattenSeq(cut)
           end    == FoldLeft(AddPart, [chunks |-> <<>>, current |-> 0], sentences)
           one    == [c \in Nat |-> c]
<1>1. cut \in Seq(Seq(Nat)) /\ \A i \in DOMAIN text : Total(cut[i]) = text[i]
  <2>1. \A i \in DOMAIN text : OversizedParts(text[i]) \in Seq(Nat) /\ Total(OversizedParts(text[i])) = text[i]
    BY <1>0, OversizedKeepsText
  <2> QED BY <1>0, <2>1
<1>2. one \in [Nat -> Int] OBVIOUS
<1>3. ASSUME NEW s \in Seq(Nat) PROVE Weigh(one, s) = Total(s)
  <2>1. [i \in DOMAIN s |-> one[s[i]]] = s OBVIOUS
  <2> QED BY <2>1 DEF Weigh
<1>4. DOMAIN cut = DOMAIN text OBVIOUS
<1> HIDE DEF cut, one
<1>5. /\ sentences \in Seq(Nat)
      /\ Weigh(one, sentences) = Total([i \in DOMAIN cut |-> Weigh(one, cut[i])])
  <2> DEFINE N == Nat
  <2>1. one \in [N -> Int] /\ cut \in Seq(Seq(N)) BY <1>1, <1>2
  <2> HIDE DEF N
  <2>2. /\ FlattenSeq(cut) \in Seq(N)
        /\ Weigh(one, FlattenSeq(cut)) = Total([i \in DOMAIN cut |-> Weigh(one, cut[i])])
    BY <2>1, FlattenWeighs
  <2> QED BY <2>2 DEF N
<1>6. [i \in DOMAIN cut |-> Weigh(one, cut[i])] = text
  <2>1. \A i \in DOMAIN text : Weigh(one, cut[i]) = text[i]
    <3> SUFFICES ASSUME NEW i \in DOMAIN text PROVE Weigh(one, cut[i]) = text[i] OBVIOUS
    <3>1. cut[i] \in Seq(Nat) BY <1>0, <1>1, <1>4
    <3> QED BY <3>1, <1>1, <1>3
  <2> QED BY <2>1, <1>4, <1>0
<1> HIDE DEF sentences
<1>7. Total(sentences) = Total(text) BY <1>3, <1>5, <1>6
<1>8. end \in Packing /\ Packed(end) = Total(text) BY <1>5, <1>7, PackingLoop
<1>9. PackChunks(text) = IF end.current = 0 THEN end.chunks ELSE Append(end.chunks, end.current)
  BY DEF PackChunks, sentences, cut
<1> HIDE DEF end
<1>10. end.chunks \in Seq(Nat) /\ end.current \in Nat /\ end.chunks \in Seq(Int) BY <1>8 DEF Packing
<1>11. Total(Append(end.chunks, end.current)) = Total(end.chunks) + end.current
  BY <1>10, TotalAppend
<1>12. Total(end.chunks) \in Int BY <1>10, TotalType
<1>13. Total(end.chunks) + end.current = Total(text) BY <1>8 DEF Packed
<1>14. Append(end.chunks, end.current) \in Seq(Nat) BY <1>10
<1> QED BY <1>9, <1>10, <1>11, <1>12, <1>13, <1>14

(* The chunker loses at most the marks its pieces leave out, and those     *)
(* only when it cuts the text.                                             *)
LEMMA SplitLongTextKeepsText ==
  ASSUME NEW req \in SynthRequests
  PROVE  /\ SplitLongText(req.text) \in Seq(Nat)
         /\ Len(SplitLongText(req.text)) \in Nat /\ Len(SplitLongText(req.text)) >= 1
         /\ \/ Total(SplitLongText(req.text)) = Speakable(req.text)
            \/ /\ Len(SplitLongText(req.text)) > 1
               /\ Total(SplitLongText(req.text)) = Total(req.text.pieces)
<1> DEFINE text == req.text
           c == PackChunks(TextPieces(text))
           n == Speakable(text)
<1>1. n \in Nat /\ text.pieces \in Seq(Nat) /\ text.dropped \in Nat
  BY RequestTypes, SpeakableNat
<1>2. SplitLongText(text) = IF n < MinChars \/ Len(c) <= 1 THEN <<n>> ELSE c
  BY DEF SplitLongText
<1>3. /\ TextPieces(text) \in Seq(Nat)
      /\ Total(TextPieces(text)) = n \/ Total(TextPieces(text)) = Total(text.pieces)
  <2>1. CASE text.pieces = <<>>
    <3>1. TextPieces(text) = <<text.dropped>> BY <2>1 DEF TextPieces
    <3>2. Total(<<text.dropped>>) = text.dropped BY <1>1, TotalOne
    <3>3. n = text.dropped BY <1>1, <2>1, TotalEmpty DEF Speakable
    <3> QED BY <1>1, <3>1, <3>2, <3>3
  <2>2. CASE text.pieces # <<>>
    <3>1. TextPieces(text) = text.pieces BY <2>2 DEF TextPieces
    <3> QED BY <1>1, <3>1
  <2> QED BY <2>1, <2>2
<1>4. c \in Seq(Nat) /\ Total(c) = Total(TextPieces(text)) BY <1>3, PackChunksKeepText
<1>5. Total(<<n>>) = n BY <1>1, TotalOne
<1> HIDE DEF c, n
<1>6. Len(c) \in Nat BY <1>4
<1>7. CASE n < MinChars \/ Len(c) <= 1
  <2>1. SplitLongText(text) = <<n>> BY <1>2, <1>7
  <2> QED BY <1>1, <1>5, <2>1 DEF n
<1>8. CASE ~(n < MinChars \/ Len(c) <= 1)
  <2>1. SplitLongText(text) = c BY <1>2, <1>8
  <2>2. Len(c) > 1 BY <1>6, <1>8
  <2> QED BY <1>3, <1>4, <1>6, <2>1, <2>2 DEF n
<1> QED BY <1>7, <1>8

(***************************************************************************)
(* What the calls are given                                                *)
(***************************************************************************)

LEMMA Distribute ==
  ASSUME NEW a \in Int, NEW b \in Int, NEW c \in Int
  PROVE  a * (b + c) = a * b + a * c
OBVIOUS

LEMMA Cancel ==
  ASSUME NEW w \in Nat, w > 0, NEW a \in Int, NEW b \in Int, w * a <= w * b
  PROVE  a <= b
OBVIOUS

LEMMA DivTimes ==
  ASSUME NEW x \in Int, NEW w \in Nat, w > 0
  PROVE  w * (x \div w) <= x
OBVIOUS

LEMMA ProductMonotone ==
  ASSUME NEW k \in Nat, NEW a \in Int, NEW b \in Int, a <= b
  PROVE  k * a <= k * b
OBVIOUS

LEMMA FlattenType ==
  ASSUME NEW D, NEW ss \in Seq(Seq(D))
  PROVE  FlattenSeq(ss) \in Seq(D)
<1> DEFINE m == [d \in D |-> 0]
<1>1. m \in [D -> Int] OBVIOUS
<1> HIDE DEF m
<1> QED BY <1>1, FlattenWeighs

Group == {g \in [chars : Int, targetMs : Int] : g.chars > 0 /\ g.targetMs > 0}

LEMMA UsableType ==
  ASSUME NEW req \in SynthRequests
  PROVE  UsableGroups(req.groups) \in Seq(Group)
<1> DEFINE G == [chars : Int, targetMs : Int]
           gs == req.groups
           ss == [i \in DOMAIN gs |->
                    IF gs[i].chars > 0 /\ gs[i].targetMs > 0 THEN <<gs[i]>> ELSE <<>>]
<1>1. gs \in Seq(G) BY RequestTypes
<1>2. /\ Len(gs) \in Nat /\ DOMAIN gs = 1..Len(gs)
      /\ \A i \in DOMAIN gs : gs[i] \in G
  <2> HIDE DEF gs, G
  <2> QED BY <1>1, SeqElements
<1>3. ASSUME NEW i \in DOMAIN gs
      PROVE  (IF gs[i].chars > 0 /\ gs[i].targetMs > 0 THEN <<gs[i]>> ELSE <<>>) \in Seq(Group)
  <2>1. CASE gs[i].chars > 0 /\ gs[i].targetMs > 0
    <3>1. gs[i] \in Group BY <1>2, <2>1 DEF Group
    <3>2. <<gs[i]>> \in Seq(Group)
      <4> HIDE DEF gs
      <4> QED BY <3>1
    <3> QED BY <2>1, <3>2
  <2>2. CASE ~(gs[i].chars > 0 /\ gs[i].targetMs > 0)
    BY <2>2
  <2> QED BY <2>1, <2>2
<1>4. ss \in Seq(Seq(Group))
  <2> HIDE DEF gs
  <2> QED BY <1>2, <1>3
<1>5. FlattenSeq(ss) \in Seq(Group)
  <2> HIDE DEF ss
  <2> QED BY <1>4, FlattenType
<1> QED BY <1>5 DEF UsableGroups

LEMMA CallCharsType ==
  ASSUME NEW req \in SynthRequests
  PROVE  /\ CallChars(req) \in Seq(Nat)
         /\ Len(CallChars(req)) \in Nat
         /\ \/ Total(CallChars(req)) = Speakable(req.text)
            \/ /\ Len(CallChars(req)) > 1 /\ TimingGroups(req) = <<>> /\ ~req.noChunking
               /\ Total(CallChars(req)) = Total(req.text.pieces)
         /\ TimingGroups(req) # <<>> =>
               /\ TimingGroups(req) \in Seq(Group)
               /\ DOMAIN CallChars(req) = DOMAIN TimingGroups(req)
<1>1. CASE TimingGroups(req) # <<>>
  <2> DEFINE us == UsableGroups(req.groups)
  <2>1. us \in Seq(Group) BY UsableType
  <2>2. TimingGroups(req) = us /\ Total(GroupChars(us)) = Speakable(req.text)
    BY <1>1, Zenon DEF TimingGroups
  <2>3. CallChars(req) = GroupChars(us) BY <1>1, <2>2 DEF CallChars
  <2> HIDE DEF us
  <2>4. /\ Len(us) \in Nat /\ DOMAIN us = 1..Len(us) /\ \A i \in DOMAIN us : us[i] \in Group
    BY <2>1, SeqElements
  <2>5. \A i \in DOMAIN us : us[i].chars \in Nat BY <2>4 DEF Group
  <2>6. GroupChars(us) \in Seq(Nat) /\ DOMAIN GroupChars(us) = DOMAIN us
    BY <2>4, <2>5 DEF GroupChars
  <2> QED BY <2>1, <2>2, <2>3, <2>6
<1>2. CASE TimingGroups(req) = <<>> /\ req.noChunking
  <2>1. Speakable(req.text) \in Nat BY SpeakableNat
  <2>2. CallChars(req) = <<Speakable(req.text)>> BY <1>2 DEF CallChars
  <2>3. Total(<<Speakable(req.text)>>) = Speakable(req.text) BY <2>1, TotalOne
  <2> QED BY <1>2, <2>1, <2>2, <2>3
<1>3. CASE TimingGroups(req) = <<>> /\ ~req.noChunking
  <2>1. CallChars(req) = SplitLongText(req.text) BY <1>3 DEF CallChars
  <2> QED BY <1>3, <2>1, SplitLongTextKeepsText
<1> QED BY <1>1, <1>2, <1>3

LEMMA CharShareNat ==
  ASSUME NEW req \in SynthRequests, NEW sum \in Nat, NEW i \in DOMAIN CallChars(req)
  PROVE  /\ CharShare(req, sum, i) \in Nat
         /\ Greatest(1, Total(CallChars(req))) * CharShare(req, sum, i) <= sum * CallChars(req)[i]
         /\ CharShare(req, sum, i) <= sum
<1> DEFINE c == CallChars(req)
           w == Greatest(1, Total(c))
<1>1. c \in Seq(Nat) BY CallCharsType
<1>2. Total(c) \in Nat BY <1>1, TotalNat
<1>3. w \in Nat /\ w > 0 /\ Total(c) <= w BY <1>2 DEF Greatest
<1>4. CharShare(req, sum, i) = (sum * c[i]) \div w BY <1>1 DEF CharShare
<1> HIDE DEF c, w
<1>5. c[i] \in Nat /\ c[i] <= Total(c)
  <2>1. DOMAIN c = 1..Len(c) /\ \A k \in DOMAIN c : c[k] \in Nat BY <1>1, SeqElements
  <2>2. i \in DOMAIN c BY DEF c
  <2> QED BY <1>1, <2>1, <2>2, TotalNat
<1>6. sum * c[i] \in Nat BY <1>5
<1>7. (sum * c[i]) \div w \in Nat /\ w * ((sum * c[i]) \div w) <= sum * c[i]
  BY <1>3, <1>6, DivInt, DivTimes
<1>8. (sum * c[i]) \div w <= sum
  <2>1. c[i] <= w BY <1>1, <1>2, <1>3, <1>5
  <2>2. sum * c[i] <= sum * w BY <2>1, <1>3, <1>5, ProductMonotone
  <2>3. w * ((sum * c[i]) \div w) <= w * sum
    <3> DEFINE x == sum * c[i]
               y == w * (x \div w)
    <3>1. sum * w = w * sum BY <1>3
    <3>2. x \in Int /\ y \in Int /\ sum * w \in Int BY <1>3, <1>6, <1>7
    <3>3. y <= x /\ x <= sum * w BY <1>7, <2>2
    <3> HIDE DEF x, y
    <3>4. y <= w * sum BY <3>1, <3>2, <3>3
    <3> QED BY <3>4 DEF x, y
  <2> DEFINE z == (sum * c[i]) \div w
  <2>4. z \in Int BY <1>7
  <2> HIDE DEF z
  <2>5. w * z <= w * sum BY <2>3 DEF z
  <2>6. z <= sum BY <1>3, <2>4, <2>5, Cancel
  <2> QED BY <2>6 DEF z
<1> QED BY <1>4, <1>7, <1>8 DEF c, w

LEMMA ChunkInts ==
  ASSUME NEW req \in SynthRequests, NEW budget \in Nat, NEW i \in DOMAIN CallChars(req)
  PROVE  /\ CallMs(req, i) \in Int
         /\ (IF TimingGroups(req) # <<>>
             THEN (TimingGroups(req)[i].targetMs * TokensPerSec) \div 1000
             ELSE CharShare(req, budget, i)) \in Int
<1>1. CASE TimingGroups(req) # <<>>
  <2>1. TimingGroups(req)[i] \in Group
    <3>1. TimingGroups(req) \in Seq(Group) /\ i \in DOMAIN TimingGroups(req)
      BY <1>1, CallCharsType
    <3> QED BY <3>1, SeqElements
  <2>2. TimingGroups(req)[i].targetMs \in Int BY <2>1 DEF Group
  <2>3. (TimingGroups(req)[i].targetMs * TokensPerSec) \div 1000 \in Int
    BY <2>2, DivInt DEF TokensPerSec
  <2> QED BY <1>1, <2>2, <2>3 DEF CallMs
<1>2. CASE TimingGroups(req) = <<>>
  <2>1. TargetMs(req) \in Nat BY SpeakableNat
  <2> QED BY <1>2, <2>1, CharShareNat DEF CallMs
<1> QED BY <1>1, <1>2

LEMMA ChunkTokensNat ==
  ASSUME NEW req \in SynthRequests, NEW budget \in Nat, NEW i \in DOMAIN CallChars(req)
  PROVE  /\ ChunkTokens(req, budget, i) \in Nat
         /\ ChunkTokens(req, budget, i) >= 64 /\ ChunkTokens(req, budget, i) <= 2048
         /\ ~Embedding(req) /\ TimingGroups(req) = <<>> =>
               ChunkTokens(req, budget, i) = Greatest(64, Least(CharShare(req, budget, i), 2048))
<1> DEFINE share == IF TimingGroups(req) # <<>>
                    THEN (TimingGroups(req)[i].targetMs * TokensPerSec) \div 1000
                    ELSE CharShare(req, budget, i)
           text  == Greatest(64, Least(share, 2048))
           ms    == CallMs(req, i)
           d     == DurationMaxTokens(req, text, DurationTokens(req, ms), ms + 500, ms)
<1>1. ms \in Int /\ share \in Int BY ChunkInts
<1>2. ChunkTokens(req, budget, i) = IF Embedding(req) THEN Least(2048, d) ELSE text
  BY DEF ChunkTokens
<1>3. TimingGroups(req) = <<>> => share = CharShare(req, budget, i) OBVIOUS
<1> HIDE DEF share, ms
<1>4. text \in Nat /\ text >= 64 /\ text <= 2048 BY <1>1 DEF Greatest, Least
<1>5. d \in Nat /\ d >= 64
  <2>1. DurationTokens(req, ms) \in Int /\ ms + 500 \in Int /\ text \in Int
    BY <1>1, <1>4, DurationTokensInt
  <2> HIDE DEF text
  <2> QED BY <1>1, <2>1, DurationMaxNat
<1> HIDE DEF d
<1> QED BY <1>2, <1>3, <1>4, <1>5 DEF Least

(***************************************************************************)
(* The calls of an attempt                                                 *)
(***************************************************************************)

TokensOf(cs) == [i \in DOMAIN cs |-> cs[i].tokens]

LEMMA CallsShape ==
  ASSUME NEW req \in SynthRequests, NEW fb \in Feedbacks
  PROVE  /\ DOMAIN InferCalls(req, fb) = DOMAIN CallChars(req)
         /\ [i \in DOMAIN InferCalls(req, fb) |-> InferCalls(req, fb)[i].chars] = CallChars(req)
         /\ \A i \in DOMAIN CallChars(req) :
               TokensOf(InferCalls(req, fb))[i]
                 = IF Len(CallChars(req)) = 1 THEN MaxMelTokens(req, fb)
                   ELSE ChunkTokens(req, MaxMelTokens(req, fb), i)
         /\ TokensOf(InferCalls(req, fb)) \in Seq(Nat)
         /\ Len(TokensOf(InferCalls(req, fb))) = Len(CallChars(req))
         /\ Len(InferCalls(req, fb)) = Len(CallChars(req))
<1> DEFINE c == CallChars(req)
           b == MaxMelTokens(req, fb)
           calls0 == InferCalls(req, fb)
           tok(i) == IF Len(c) = 1 THEN b ELSE ChunkTokens(req, b, i)
<1>1. c \in Seq(Nat) /\ b \in Nat BY CallCharsType, BudgetNat
<1>2. Len(c) \in Nat /\ DOMAIN c = 1..Len(c) BY <1>1, SeqElements
<1>3. \A i \in DOMAIN c : tok(i) \in Nat BY <1>1, ChunkTokensNat
<1>4. calls0 = [i \in DOMAIN c |-> [chars |-> c[i], tokens |-> tok(i)]] BY DEF InferCalls
<1>5. c = [i \in DOMAIN c |-> c[i]]
  <2> HIDE DEF c
  <2> QED BY <1>1
<1> HIDE DEF c, b, calls0, tok
<1>6. /\ DOMAIN calls0 = DOMAIN c
      /\ [i \in DOMAIN calls0 |-> calls0[i].chars] = c
      /\ TokensOf(calls0) = [i \in DOMAIN c |-> tok(i)]
  BY <1>4, <1>5 DEF TokensOf
<1>7. TokensOf(calls0) \in Seq(Nat) /\ Len(TokensOf(calls0)) = Len(c)
  BY <1>2, <1>3, <1>6
<1>8. Len(calls0) = Len(c) BY <1>2, <1>4
<1>9. \A i \in DOMAIN c : TokensOf(calls0)[i] = tok(i) BY <1>6
<1> QED BY <1>6, <1>7, <1>8, <1>9 DEF c, b, calls0, tok

LEMMA AddShares ==
  ASSUME NEW w \in Int, NEW b \in Int, NEW n \in Int,
         NEW u \in Int, NEW v \in Int, NEW x \in Int, NEW y \in Int,
         w * u <= b * v + (64 * w) * (n - 1), w * x <= b * y + 64 * w
  PROVE  w * (u + x) <= b * (v + y) + (64 * w) * n
<1>1. w * (u + x) = w * u + w * x BY Distribute
<1>2. b * (v + y) = b * v + b * y BY Distribute
<1>3. (64 * w) * n = (64 * w) * (n - 1) + 64 * w
  <2> DEFINE m == 64 * w
  <2>1. m \in Int OBVIOUS
  <2> HIDE DEF m
  <2>2. m * n = m * (n - 1) + m BY <2>1
  <2> QED BY <2>2 DEF m
<1> DEFINE p0 == w * u  p == w * x  q0 == b * v  q == b * y
           r1 == (64 * w) * n  r0 == (64 * w) * (n - 1)  r == 64 * w
<1>4. /\ p0 \in Int /\ p \in Int /\ q0 \in Int /\ q \in Int /\ r0 \in Int /\ r \in Int
      /\ r1 = r0 + r /\ p <= q + r /\ p0 <= q0 + r0
  BY <1>3
<1> HIDE DEF p0, p, q0, q, r1, r0, r
<1>5. p0 + p <= (q0 + q) + r1 BY <1>4
<1> QED BY <1>1, <1>2, <1>5 DEF p0, p, q0, q, r1

(* A chunk never gets more than its share and the minimum.                 *)
LEMMA SlotShares ==
  ASSUME NEW s \in Seq(Nat), NEW t \in Seq(Nat), NEW w \in Nat, NEW b \in Nat,
         w > 0, Total(s) <= w, Len(t) = Len(s),
         \A i \in 1..Len(s) : w * t[i] <= b * s[i] + 64 * w
  PROVE  Total(t) <= b + 64 * Len(s)
<1>0. /\ Len(s) \in Nat /\ s \in Seq(Int) /\ t \in Seq(Int)
      /\ \A i \in 1..Len(s) : s[i] \in Nat /\ t[i] \in Nat
  <2>1. s \in Seq(Int) /\ t \in Seq(Int) OBVIOUS
  <2>2. Len(s) \in Nat /\ DOMAIN s = 1..Len(s) /\ \A i \in DOMAIN s : s[i] \in Nat
    BY SeqElements, Zenon
  <2>3. DOMAIN t = 1..Len(t) /\ \A i \in DOMAIN t : t[i] \in Nat
    BY SeqElements, Zenon
  <2>4. \A i \in 1..Len(s) : s[i] \in Nat
    BY <2>2, Zenon
  <2>5. \A i \in 1..Len(s) : t[i] \in Nat
    BY <2>3, Zenon
  <2> QED BY <2>1, <2>2, <2>4, <2>5, Zenon
<1>1. /\ UpTo(s, 0) = 0 /\ UpTo(s, Len(s)) = Total(s)
      /\ \A n \in 0..Len(s) : UpTo(s, n) \in Int
      /\ \A n \in 1..Len(s) : UpTo(s, n) = UpTo(s, n - 1) + s[n]
  BY <1>0, UpToSteps
<1>2. /\ UpTo(t, 0) = 0 /\ UpTo(t, Len(s)) = Total(t)
      /\ \A n \in 0..Len(s) : UpTo(t, n) \in Int
      /\ \A n \in 1..Len(s) : UpTo(t, n) = UpTo(t, n - 1) + t[n]
  BY <1>0, UpToSteps
<1> DEFINE T == {n \in 0..Len(s) : w * UpTo(t, n) <= b * UpTo(s, n) + (64 * w) * n}
<1>3. 0 \in T
  <2>1. w * 0 = 0 /\ b * 0 = 0 /\ (64 * w) * 0 = 0 /\ 0 \in 0..Len(s) BY <1>0
  <2> QED BY <2>1, <1>1, <1>2
<1>4. ASSUME NEW n \in 1..Len(s), n - 1 \in T PROVE n \in T
  <2>1. n \in 0..Len(s) /\ n - 1 \in 0..Len(s) BY <1>0
  <2>2. s[n] \in Int /\ t[n] \in Int BY <1>0
  <2>3. UpTo(s, n - 1) \in Int /\ UpTo(t, n - 1) \in Int BY <2>1, <1>1, <1>2
  <2>4. UpTo(s, n) = UpTo(s, n - 1) + s[n] BY <1>1
  <2>5. UpTo(t, n) = UpTo(t, n - 1) + t[n] BY <1>2
  <2>6. w * t[n] <= b * s[n] + 64 * w OBVIOUS
  <2>7. w * UpTo(t, n - 1) <= b * UpTo(s, n - 1) + (64 * w) * (n - 1) BY <1>4
  <2>8. n \in Int BY <1>0
  <2>9. w * (UpTo(t, n - 1) + t[n]) <= b * (UpTo(s, n - 1) + s[n]) + (64 * w) * n
    <3> DEFINE u == UpTo(t, n - 1)  v == UpTo(s, n - 1)  x == t[n]  y == s[n]
    <3>1. /\ u \in Int /\ v \in Int /\ x \in Int /\ y \in Int /\ w \in Int /\ b \in Int
          /\ w * u <= b * v + (64 * w) * (n - 1)
          /\ w * x <= b * y + 64 * w
      BY <2>2, <2>3, <2>6, <2>7
    <3> HIDE DEF u, v, x, y
    <3>2. w * (u + x) <= b * (v + y) + (64 * w) * n BY <2>8, <3>1, AddShares
    <3> QED BY <3>2 DEF u, v, x, y
  <2>10. w * UpTo(t, n) <= b * UpTo(s, n) + (64 * w) * n BY <2>4, <2>5, <2>9
  <2> QED BY <2>1, <2>10
<1>5. 0..Len(s) \subseteq T
  <2> HIDE DEF T
  <2> QED BY <1>0, <1>3, <1>4, InductionUpTo, Zenon
<1>6. w * Total(t) <= b * Total(s) + (64 * w) * Len(s)
  <2>1. Len(s) \in T
    <3> HIDE DEF T
    <3> QED BY <1>0, <1>5
  <2>2. w * UpTo(t, Len(s)) <= b * UpTo(s, Len(s)) + (64 * w) * Len(s) BY <2>1
  <2> QED BY <1>1, <1>2, <2>2
<1>7. Total(s) \in Nat /\ Total(t) \in Nat BY TotalNat
<1>8. b * Total(s) <= b * w BY <1>7, ProductMonotone
<1>9. w * (b + 64 * Len(s)) = b * w + (64 * w) * Len(s)
  <2> DEFINE k == Len(s)
  <2>1. k \in Nat BY <1>0
  <2> HIDE DEF k
  <2>2. w * (b + 64 * k) = w * b + w * (64 * k) BY <2>1, Distribute
  <2>3. w * (64 * k) = (64 * w) * k /\ w * b = b * w BY <2>1
  <2>4. w * (b + 64 * k) = b * w + (64 * w) * k BY <2>2, <2>3
  <2> QED BY <2>4 DEF k
<1>10. w * Total(t) <= w * (b + 64 * Len(s))
  <2> DEFINE p == w * Total(t)  q == b * Total(s)  r == (64 * w) * Len(s)  v == b * w
             z == w * (b + 64 * Len(s))
  <2>1. /\ p \in Int /\ q \in Int /\ r \in Int /\ v \in Int
        /\ p <= q + r /\ q <= v /\ z = v + r
    BY <1>0, <1>6, <1>7, <1>8, <1>9
  <2> HIDE DEF p, q, r, v, z
  <2>2. p <= z BY <2>1
  <2> QED BY <2>2 DEF p, z
<1>11. b + 64 * Len(s) \in Int BY <1>0
<1> QED BY <1>7, <1>10, <1>11, Cancel

LEMMA CallsFitSlot ==
  ASSUME NEW req \in SynthRequests, NEW fb \in Feedbacks,
         ~Embedding(req), req.headroom = 0, TimingGroups(req) = <<>>
  PROVE  CallTokens(InferCalls(req, fb))
           <= TokensFromAllowed(req) + 64 * Len(InferCalls(req, fb))
<1> DEFINE c == CallChars(req)
           b == MaxMelTokens(req, fb)
           t == TokensOf(InferCalls(req, fb))
           w == Greatest(1, Total(c))
           a == TokensFromAllowed(req)
<1>1. c \in Seq(Nat) /\ Total(c) \in Nat BY CallCharsType, TotalNat
<1>2. /\ b \in Nat /\ b >= 64 /\ b <= Greatest(64, a) /\ a \in Nat
  BY BudgetNat, BudgetInts
<1>3. w \in Nat /\ w > 0 /\ Total(c) <= w BY <1>1, BudgetInts DEF Greatest
<1>4. /\ t \in Seq(Nat) /\ Len(t) = Len(c) /\ Len(InferCalls(req, fb)) = Len(c)
      /\ \A i \in DOMAIN c : t[i] = IF Len(c) = 1 THEN b ELSE ChunkTokens(req, b, i)
  BY CallsShape
<1>5. Len(c) \in Nat /\ DOMAIN c = 1..Len(c) /\ DOMAIN t = 1..Len(c)
      /\ \A i \in DOMAIN c : c[i] \in Nat
  BY <1>1, <1>4, SeqElements
<1>6. CallTokens(InferCalls(req, fb)) = Total(t) BY DEF CallTokens, TokensOf
<1>7. ASSUME NEW i \in DOMAIN c, Len(c) # 1
      PROVE  /\ t[i] = Greatest(64, Least(CharShare(req, b, i), 2048))
             /\ CharShare(req, b, i) \in Nat /\ CharShare(req, b, i) <= b
             /\ w * CharShare(req, b, i) <= b * c[i]
  BY <1>2, <1>4, <1>7, CharShareNat, ChunkTokensNat
<1> HIDE DEF c, b, t, w, a
<1>8. CASE Len(c) = 1
  <2>1. t \in Seq(Int) /\ \A i \in 1..Len(t) : t[i] = b BY <1>4, <1>5, <1>8
  <2>2. Total(t) = b * Len(t) BY <1>2, <2>1, TotalConstant
  <2>3. Total(t) = b
    <3>1. Len(t) = 1 /\ b * 1 = b BY <1>2, <1>4, <1>8
    <3> QED BY <3>1, <2>2
  <2> QED BY <1>2, <1>4, <1>6, <1>8, <2>3 DEF Greatest, a
<1>9. CASE Len(c) # 1 /\ a < 64
  <2>1. b = 64 BY <1>2, <1>9 DEF Greatest
  <2>2. ASSUME NEW i \in 1..Len(t) PROVE t[i] = b
    <3> DEFINE x == CharShare(req, b, i)
    <3>1. i \in DOMAIN c /\ Len(c) # 1 BY <1>4, <1>5, <1>9
    <3>2. t[i] = Greatest(64, Least(x, 2048)) /\ x \in Nat /\ x <= b BY <3>1, <1>7
    <3> HIDE DEF x
    <3> QED BY <3>2, <2>1 DEF Greatest, Least
  <2>3. t \in Seq(Int) BY <1>4
  <2>4. Total(t) = b * Len(t) BY <1>2, <2>2, <2>3, TotalConstant
  <2> QED BY <1>2, <1>4, <1>5, <1>6, <2>1, <2>4 DEF a
<1>10. CASE Len(c) # 1 /\ a >= 64
  <2>1. ASSUME NEW i \in 1..Len(c) PROVE w * t[i] <= b * c[i] + 64 * w
    <3> DEFINE x == CharShare(req, b, i)
    <3>1. /\ t[i] = Greatest(64, Least(x, 2048)) /\ x \in Nat /\ w * x <= b * c[i]
          /\ c[i] \in Nat
      BY <1>5, <1>7, <1>10
    <3> HIDE DEF x
    <3>2. t[i] \in Nat /\ t[i] <= x + 64 BY <3>1 DEF Greatest, Least
    <3>3. w * t[i] <= w * (x + 64) BY <1>3, <3>1, <3>2, ProductMonotone
    <3>4. w * (x + 64) = w * x + 64 * w BY <1>3, <3>1
    <3>5. w * t[i] \in Int /\ w * x \in Int /\ b * c[i] \in Int /\ 64 * w \in Int
      BY <1>2, <1>3, <3>1, <3>2, SMTT(30)
    <3> DEFINE p == w * t[i]  q == w * x  r == b * c[i]  v == 64 * w  z == w * (x + 64)
    <3>6. /\ p \in Int /\ q \in Int /\ r \in Int /\ v \in Int
          /\ p <= z /\ z = q + v /\ q <= r
      BY <3>1, <3>3, <3>4, <3>5
    <3> HIDE DEF p, q, r, v, z
    <3>7. p <= r + v BY <3>6
    <3> QED BY <3>7 DEF p, r, v
  <2>2. Total(t) <= b + 64 * Len(c) BY <1>1, <1>2, <1>3, <1>4, <2>1, SlotShares
  <2>3. b <= a BY <1>2, <1>10 DEF Greatest
  <2>4. Total(t) \in Nat BY <1>4, TotalNat
  <2> QED BY <1>2, <1>4, <1>5, <1>6, <2>2, <2>3, <2>4 DEF a
<1> QED BY <1>2, <1>8, <1>9, <1>10


(* What is known between attempts.                                         *)
BudgetInv ==
    /\ request \in SynthRequests
    /\ feedback \in Feedbacks
    /\ \/ calls = <<>>
       \/ \E fb \in Feedbacks : calls = InferCalls(request, fb)

LEMMA BudgetStart == BudgetInit => BudgetInv
BY DEF BudgetInit, BudgetInv, NoFeedback, Feedbacks

LEMMA BudgetStep == BudgetInv /\ [Attempt]_budgetVars => BudgetInv'
<1> SUFFICES ASSUME BudgetInv, [Attempt]_budgetVars PROVE BudgetInv'
  OBVIOUS
<1>1. CASE Attempt
  <2>1. request' = request /\ calls' = InferCalls(request, feedback)
    BY <1>1 DEF Attempt
  <2>2. request \in SynthRequests /\ feedback \in Feedbacks BY DEF BudgetInv
  <2> DEFINE t == TokensOf(calls')
  <2>3. t \in Seq(Nat) /\ CallTokens(calls') = Total(t)
    BY <2>1, <2>2, CallsShape DEF CallTokens, TokensOf
  <2>4. CallTokens(calls') \in Nat
    <3> HIDE DEF t
    <3> QED BY <2>3, TotalNat
  <2>5. Len(calls') \in Nat
    <3>1. CallChars(request) \in Seq(Nat) BY <2>2, CallCharsType
    <3>2. Len(CallChars(request)) \in Nat BY <3>1, SeqElements
    <3> QED BY <2>1, <2>2, <3>2, CallsShape
  <2>6. ASSUME NEW used \in {Len(calls'), CallTokens(calls') \div 2, CallTokens(calls')}
        PROVE  ActualMs(used) \in Int
    <3>1. used \in Nat BY <2>4, <2>5, DivInt
    <3>2. (1000 * used) \div TokensPerSec \in Nat BY <3>1, DivInt DEF TokensPerSec
    <3> QED BY <2>5, <3>2 DEF ActualMs, GapMs
  <2>7. NoFeedback \in Feedbacks BY DEF NoFeedback, Feedbacks
  <2>8. \A used \in {Len(calls'), CallTokens(calls') \div 2, CallTokens(calls')} :
           [actualMs |-> ActualMs(used), chars |-> Chars(request)] \in Feedbacks
    <3>1. Chars(request) \in Nat BY <2>2, BudgetInts
    <3> QED BY <2>6, <3>1 DEF Feedbacks
  <2>9. feedback' \in Feedbacks BY <1>1, <2>7, <2>8 DEF Attempt
  <2> QED BY <2>1, <2>2, <2>9 DEF BudgetInv
<1>2. CASE UNCHANGED budgetVars
  BY <1>2 DEF BudgetInv, budgetVars
<1> QED BY <1>1, <1>2

LEMMA BudgetInvIsSane == BudgetInv => BudgetIsSane
<1> SUFFICES ASSUME BudgetInv PROVE BudgetIsSane OBVIOUS
<1>1. request \in SynthRequests /\ feedback \in Feedbacks BY DEF BudgetInv
<1>2. BudgetNeverCollapses
  <2> DEFINE c == Chars(request)
             r == BlendTokensPerChar(Observed(feedback))
             p == PriorPerChar \div 2
  <2>1. c \in Nat /\ r \in Int /\ p \in Int /\ p <= r
    BY <1>1, BudgetInts DEF PriorPerChar
  <2> HIDE DEF c, r, p
  <2>2. c * p <= c * r BY <2>1, ProductMonotone
  <2>3. (c * p * 105) \div 10000 <= (c * r * 105) \div 10000
    <3> DEFINE x == c * p * 105  y == c * r * 105
    <3>1. x \in Int /\ y \in Int /\ x <= y BY <2>1, <2>2
    <3> HIDE DEF x, y
    <3>2. x \div 10000 <= y \div 10000 BY <3>1
    <3> QED BY <3>2 DEF x, y
  <2>4. (c * p * 105) \div 10000 \in Int /\ (c * r * 105) \div 10000 \in Int
    <3>1. c * p * 105 \in Int /\ c * r * 105 \in Int BY <2>1
    <3> QED BY <3>1, DivInt
  <2>5. (c * r * 105) \div 10000 >= (c * p * 105) \div 10000 BY <2>3, <2>4
  <2> QED BY <2>5 DEF BudgetNeverCollapses, TokensFromText, c, r, p
<1>3. CallsStayInSlot
  <2> SUFFICES ASSUME ~Embedding(request), request.headroom = 0, TimingGroups(request) = <<>>
               PROVE  CallTokens(calls) <= TokensFromAllowed(request) + 64 * Len(calls)
    BY DEF CallsStayInSlot
  <2>1. CASE calls = <<>>
    <3>1. CallTokens(calls) = 0
      <4>1. [i \in DOMAIN calls |-> calls[i].tokens] = <<>> BY <2>1
      <4> QED BY <4>1, TotalEmpty DEF CallTokens
    <3>2. TokensFromAllowed(request) \in Nat BY <1>1, BudgetInts
    <3>3. Len(calls) = 0 BY <2>1
    <3> QED BY <3>1, <3>2, <3>3
  <2>2. CASE \E fb \in Feedbacks : calls = InferCalls(request, fb)
    BY <1>1, <2>2, CallsFitSlot
  <2> QED BY <2>1, <2>2 DEF BudgetInv
<1>4. CallsSpeakTheText
  <2> SUFFICES ASSUME calls # <<>>
               PROVE  \/ SpokenChars = Speakable(request.text)
                      \/ /\ Len(calls) > 1 /\ TimingGroups(request) = <<>>
                         /\ ~request.noChunking
                         /\ SpokenChars = Total(request.text.pieces)
    BY DEF CallsSpeakTheText
  <2>1. PICK fb \in Feedbacks : calls = InferCalls(request, fb) BY DEF BudgetInv
  <2>2. SpokenChars = Total(CallChars(request)) /\ Len(calls) = Len(CallChars(request))
    BY <1>1, <2>1, CallsShape, ZenonT(40) DEF SpokenChars
  <2> QED BY <1>1, <2>2, CallCharsType
<1> QED BY <1>2, <1>3, <1>4 DEF BudgetIsSane

(* Whatever lengths earlier attempts report and whatever text a request    *)
(* carries, the feedback never drives the token rate below half the prior  *)
(* (_blend_tokens_per_char), the infer calls of an attempt together speak  *)
(* the whole text, whether cut by timing groups or by                      *)
(* _split_long_tts_text, which loses no more than the marks that follow    *)
(* another mark, and without headroom and duration control their budgets   *)
(* stay in the allowed duration, up to the 64 tokens every call is given.  *)
THEOREM BudgetsAreSane == BudgetSpec => []BudgetIsSane
BY BudgetStart, BudgetStep, BudgetInvIsSane, PTL DEF BudgetSpec

(***************************************************************************)
(* What an attempt asks of the model: one call at least, and of every call *)
(* between the minimum and the largest number of tokens.                   *)
(***************************************************************************)

LEMMA SomethingIsSpoken ==
  ASSUME NEW req \in SynthRequests
  PROVE  Len(CallChars(req)) \in Nat /\ Len(CallChars(req)) >= 1
<1> DEFINE c == CallChars(req)
<1>1. c \in Seq(Nat) BY CallCharsType
<1>2. c # <<>>
  <2>1. CASE TimingGroups(req) # <<>>
    <3> DEFINE gs == TimingGroups(req)
    <3>1. gs \in Seq(Group) /\ gs # <<>> /\ DOMAIN c = DOMAIN gs BY <2>1, CallCharsType
    <3> HIDE DEF gs, c
    <3>2. Len(gs) \in Nat /\ Len(gs) # 0 /\ DOMAIN gs = 1..Len(gs) BY <3>1
    <3>3. 1 \in DOMAIN c BY <3>1, <3>2
    <3> QED BY <3>3
  <2>2. CASE TimingGroups(req) = <<>> /\ req.noChunking
    BY <2>2 DEF CallChars
  <2>3. CASE TimingGroups(req) = <<>> /\ ~req.noChunking
    <3>1. c = SplitLongText(req.text) BY <2>3 DEF CallChars
    <3>2. Len(c) \in Nat /\ Len(c) >= 1 BY <3>1, SplitLongTextKeepsText
    <3> HIDE DEF c
    <3> QED BY <3>2
  <2> QED BY <2>1, <2>2, <2>3
<1> HIDE DEF c
<1>3. Len(c) \in Nat /\ Len(c) # 0 BY <1>1, <1>2
<1> QED BY <1>3 DEF c

TokensBounded(cs) == \A i \in DOMAIN cs : cs[i].tokens \in TokenRange

LEMMA CallsBounded ==
  ASSUME NEW req \in SynthRequests, NEW fb \in Feedbacks
  PROVE  /\ Len(InferCalls(req, fb)) \in Nat /\ Len(InferCalls(req, fb)) >= 1
         /\ TokensBounded(InferCalls(req, fb))
<1>1. Len(InferCalls(req, fb)) \in Nat /\ Len(InferCalls(req, fb)) >= 1
  BY CallsShape, SomethingIsSpoken
<1>2. ASSUME NEW i \in DOMAIN InferCalls(req, fb), NEW t, t = InferCalls(req, fb)[i].tokens
      PROVE  t \in TokenRange
  <2> DEFINE b == MaxMelTokens(req, fb)
             k == ChunkTokens(req, b, i)
  <2>1. i \in DOMAIN CallChars(req) BY <1>2, CallsShape
  <2>2. t = IF Len(CallChars(req)) = 1 THEN b ELSE k
    <3>1. TokensOf(InferCalls(req, fb))[i] = t BY <1>2 DEF TokensOf
    <3> QED BY <2>1, <3>1, CallsShape
  <2>3. b \in Nat /\ b >= 64 /\ b <= 4096 BY BudgetNat
  <2>4. k \in Nat /\ k >= 64 /\ k <= 2048 BY <2>1, <2>3, ChunkTokensNat
  <2> HIDE DEF b, k
  <2> QED BY <2>2, <2>3, <2>4 DEF TokenRange
<1>3. TokensBounded(InferCalls(req, fb)) BY <1>2, Zenon DEF TokensBounded
<1> QED BY <1>1, <1>3

LEMMA BudgetTypesStep == BudgetInv /\ BudgetTypeOK /\ [Attempt]_budgetVars => BudgetTypeOK'
<1> SUFFICES ASSUME BudgetInv, BudgetTypeOK, [Attempt]_budgetVars PROVE BudgetTypeOK'
  OBVIOUS
<1>1. CASE Attempt
  <2>1. /\ request' = request /\ calls' = InferCalls(request, feedback)
        /\ attempts < MaxAttempts /\ attempts' = attempts + 1
    BY <1>1 DEF Attempt
  <2>2. request \in SynthRequests /\ feedback \in Feedbacks BY DEF BudgetInv
  <2>3. /\ Len(calls') \in Nat /\ Len(calls') >= 1
        /\ TokensBounded(calls')
    BY <2>1, <2>2, CallsBounded
  <2>4. CallTokens(calls') \in Nat
    <3> DEFINE t == TokensOf(calls')
    <3>1. t \in Seq(Nat) /\ CallTokens(calls') = Total(t)
      BY <2>1, <2>2, CallsShape DEF CallTokens, TokensOf
    <3> HIDE DEF t
    <3> QED BY <3>1, TotalNat
  <2>5. ASSUME NEW used \in {Len(calls'), CallTokens(calls') \div 2, CallTokens(calls')}
        PROVE  ActualMs(used) >= 0
    <3>1. used \in Nat BY <2>3, <2>4, DivInt
    <3>2. (1000 * used) \div TokensPerSec \in Nat BY <3>1, DivInt DEF TokensPerSec
    <3> QED BY <2>3, <3>2, SMTT(30) DEF ActualMs, GapMs
  <2>6. Chars(request) \in Nat BY <2>2, BudgetInts
  <2>7. feedback'.actualMs >= 0 /\ feedback'.chars >= 0
    <3>1. PICK used \in {Len(calls'), CallTokens(calls') \div 2, CallTokens(calls')},
               reported \in BOOLEAN :
            feedback' = IF reported
                        THEN [actualMs |-> ActualMs(used), chars |-> Chars(request)]
                        ELSE NoFeedback
      BY <1>1, Zenon DEF Attempt
    <3>2. CASE feedback' = [actualMs |-> ActualMs(used), chars |-> Chars(request)]
      BY <2>5, <2>6, <3>2
    <3>3. CASE feedback' = NoFeedback
      BY <3>3 DEF NoFeedback
    <3> QED BY <3>1, <3>2, <3>3
  <2>8. attempts' \in 0..MaxAttempts
    BY <2>1, BudgetAssumption DEF BudgetTypeOK, BudgetAssumption
  <2>9. \A i \in DOMAIN calls' : calls'[i].tokens \in TokenRange
    BY <2>3, Zenon DEF TokensBounded
  <2>10. request' \in SynthRequests BY <2>1, <2>2
  <2> QED BY <2>7, <2>8, <2>9, <2>10, Zenon DEF BudgetTypeOK
<1>2. CASE UNCHANGED budgetVars
  <2>1. request' = request /\ attempts' = attempts /\ feedback' = feedback /\ calls' = calls
    BY <1>2 DEF budgetVars
  <2>2. request' \in SynthRequests /\ attempts' \in 0..MaxAttempts
    BY <2>1 DEF BudgetTypeOK
  <2>3. feedback'.actualMs >= 0 /\ feedback'.chars >= 0
    BY <2>1 DEF BudgetTypeOK
  <2>4. TokensBounded(calls)
    BY Zenon DEF BudgetTypeOK, TokensBounded
  <2>5. TokensBounded(calls')
    BY <2>1, <2>4
  <2>6. \A i \in DOMAIN calls' : calls'[i].tokens \in TokenRange
    BY <2>5, Zenon DEF TokensBounded
  <2> QED BY <2>2, <2>3, <2>6, Zenon DEF BudgetTypeOK
<1> QED BY <1>1, <1>2

(* Whatever text, groups, rates and headroom a request carries, every      *)
(* infer call of every attempt is given at least one token and no more     *)
(* than the 4096 the model can produce, and the length reported of an      *)
(* attempt is never negative (_compute_max_mel_tokens and its callers).    *)
THEOREM BudgetTypeCorrect == BudgetSpec => []BudgetTypeOK
<1>1. BudgetInit => BudgetTypeOK
  BY BudgetAssumption DEF BudgetInit, BudgetTypeOK, NoFeedback, BudgetAssumption
<1> QED BY <1>1, BudgetStart, BudgetStep, BudgetTypesStep, PTL DEF BudgetSpec

(***************************************************************************)
(* The choice of a candidate                                               *)
(***************************************************************************)

Judged ==
    [family : {"default", "split_light_vector", "split_mix"}, strategy : Nat,
     sim : Int, drift : Int, fit : Int, term : Int \cup {Nil}, latin : BOOLEAN,
     f0 : Int \cup {Nil}, join : {"none", "pass", "edge", "bad"}]

LEMMA ScoreInt ==
  ASSUME NEW c \in Judged
  PROVE  CandidateScore(c) \in Int /\ AbsDrift(c) \in Int
<1>1. c.sim \in Int /\ c.drift \in Int /\ c.fit \in Int /\ c.term \in Int \cup {Nil}
      /\ c.f0 \in Int \cup {Nil}
  BY DEF Judged
<1>2. AbsDrift(c) \in Int BY <1>1 DEF AbsDrift
<1>3. /\ \A n, m \in Int : LargerOf(n, m) \in Int /\ SmallerOf(n, m) \in Int
      /\ \A n \in Int : n \div 985 \in Int /\ n \div 54 \in Int /\ n \div 950 \in Int
  BY DEF LargerOf, SmallerOf
<1> DEFINE a == LargerOf(0, 1000 - 2 * AbsDrift(c))
           b == SmallerOf(1050, (1000 * c.sim) \div 985)
           d == IF c.f0 = Nil \/ c.f0 = 0 THEN 600 ELSE SmallerOf(1150, (1000 * c.f0) \div 54)
           e == IF c.term = Nil THEN 1000 ELSE SmallerOf(1050, (1000 * c.term) \div 950)
           f == SmallerOf(400, 3 * c.fit)
<1>4. a \in Int
  <2>1. 1000 - 2 * AbsDrift(c) \in Int BY <1>2
  <2> QED BY <2>1, <1>3
<1>5. b \in Int
  <2>1. (1000 * c.sim) \div 985 \in Int BY <1>1
  <2> QED BY <2>1, <1>3
<1>6. d \in Int
  <2>1. CASE c.f0 = Nil BY <2>1
  <2>2. CASE c.f0 \in Int
    <3>1. (1000 * c.f0) \div 54 \in Int BY <2>2
    <3> QED BY <3>1, <1>3
  <2> QED BY <2>1, <2>2, <1>1
<1>7. e \in Int
  <2>1. CASE c.term = Nil BY <2>1
  <2>2. CASE c.term \in Int
    <3>1. (1000 * c.term) \div 950 \in Int BY <2>2
    <3> QED BY <3>1, <1>3
  <2> QED BY <2>1, <2>2, <1>1
<1>8. f \in Int
  <2>1. 3 * c.fit \in Int BY <1>1
  <2> QED BY <2>1 DEF SmallerOf
<1>9. CandidateScore(c) = 28 * a + 42 * b + 15 * d + 12 * e - 3 * f BY DEF CandidateScore
<1> HIDE DEF a, b, d, e, f
<1> QED BY <1>2, <1>4, <1>5, <1>6, <1>7, <1>8, <1>9

LEMMA BestScore ==
  ASSUME NEW all \in Seq(Judged), NEW among, among \subseteq DOMAIN all, among # {}
  PROVE  \E i \in among : /\ FirstBest(all, among, Scores) = all[i]
                          /\ \A j \in among : CandidateScore(all[j]) <= CandidateScore(all[i])
<1>0. /\ Len(all) \in Nat /\ DOMAIN all = 1..Len(all) /\ \A i \in DOMAIN all : all[i] \in Judged
  BY SeqElements
<1> DEFINE R == {p \in among \X among : CandidateScore(all[p[1]]) > CandidateScore(all[p[2]])}
           P(i) == \A j \in among : IF j < i THEN Scores(all[i], all[j])
                                    ELSE ~Scores(all[j], all[i])
<1>1. \A i \in among : CandidateScore(all[i]) \in Int BY <1>0, ScoreInt
<1>2. \A i, j \in among : <<i, j>> \in R <=> CandidateScore(all[i]) > CandidateScore(all[j])
  OBVIOUS
<1>3. Orders(R, among)
  <2> HIDE DEF R
  <2> QED BY <1>1, <1>2 DEF Orders
<1>4. among \subseteq 0..Len(all) BY <1>0
<1>5. \E i \in among : P(i)
  <2> HIDE DEF R
  <2>1. PICK i \in among : Leads(i, among, R)
    BY <1>0, <1>3, <1>4, FirstOfBest
  <2> QED BY <1>2, <2>1 DEF Scores, Leads
<1> DEFINE b == CHOOSE i \in among : P(i)
<1>6. b \in among /\ P(b)
  <2> HIDE DEF P
  <2> QED BY <1>5
<1>7. FirstBest(all, among, Scores) = all[b] BY DEF FirstBest
<1>8. ASSUME NEW j \in among PROVE CandidateScore(all[j]) <= CandidateScore(all[b])
  <2> HIDE DEF b
  <2>1. CandidateScore(all[j]) \in Int /\ CandidateScore(all[b]) \in Int BY <1>1, <1>6
  <2> QED BY <1>6, <2>1 DEF Scores
<1> QED BY <1>6, <1>7, <1>8

(* The lexicographic order of five numbers.                                *)
Above(p, q) ==
    \/ p[1] > q[1]
    \/ p[1] = q[1] /\ p[2] > q[2]
    \/ p[1] = q[1] /\ p[2] = q[2] /\ p[3] > q[3]
    \/ p[1] = q[1] /\ p[2] = q[2] /\ p[3] = q[3] /\ p[4] > q[4]
    \/ p[1] = q[1] /\ p[2] = q[2] /\ p[3] = q[3] /\ p[4] = q[4] /\ p[5] > q[5]

Five(p) == p[1] \in Int /\ p[2] \in Int /\ p[3] \in Int /\ p[4] \in Int /\ p[5] \in Int

LEMMA QualityIsAbove ==
  ASSUME NEW c \in Judged, NEW d \in Judged
  PROVE  /\ Five(QualityKey(c))
         /\ BetterQuality(c, d) <=> Above(QualityKey(c), QualityKey(d))
<1> DEFINE p == QualityKey(c)  q == QualityKey(d)
<1>1. Five(p)
  <2>1. c.sim \in Int /\ c.term \in Int \cup {Nil} /\ AbsDrift(c) \in Int /\ CandidateScore(c) \in Int
    BY ScoreInt DEF Judged
  <2> QED BY <2>1 DEF QualityKey, Five
<1>2. DOMAIN p = 1..5 BY DEF QualityKey
<1>3. BetterQuality(c, d) <=>
        \E i \in 1..5 : p[i] > q[i] /\ \A j \in 1..(i - 1) : p[j] = q[j]
  BY <1>2 DEF BetterQuality
<1> HIDE DEF p, q
<1>4. \A i \in 1..5 : i = 1 \/ i = 2 \/ i = 3 \/ i = 4 \/ i = 5 OBVIOUS
<1>5. (\E i \in 1..5 : p[i] > q[i] /\ \A j \in 1..(i - 1) : p[j] = q[j]) => Above(p, q)
  <2> SUFFICES ASSUME NEW i \in 1..5, p[i] > q[i], \A j \in 1..(i - 1) : p[j] = q[j]
               PROVE  Above(p, q)
    OBVIOUS
  <2> QED BY <1>4 DEF Above
<1>6. Above(p, q) => \E i \in 1..5 : p[i] > q[i] /\ \A j \in 1..(i - 1) : p[j] = q[j]
  <2>1. CASE p[1] > q[1] BY <2>1
  <2>2. CASE p[1] = q[1] /\ p[2] > q[2]
    <3>1. \A j \in 1..(2 - 1) : j = 1 OBVIOUS
    <3> QED BY <2>2, <3>1
  <2>3. CASE p[1] = q[1] /\ p[2] = q[2] /\ p[3] > q[3]
    <3>1. \A j \in 1..(3 - 1) : j = 1 \/ j = 2 OBVIOUS
    <3> QED BY <2>3, <3>1
  <2>4. CASE p[1] = q[1] /\ p[2] = q[2] /\ p[3] = q[3] /\ p[4] > q[4]
    <3>1. \A j \in 1..(4 - 1) : j = 1 \/ j = 2 \/ j = 3 OBVIOUS
    <3> QED BY <2>4, <3>1
  <2>5. CASE p[1] = q[1] /\ p[2] = q[2] /\ p[3] = q[3] /\ p[4] = q[4] /\ p[5] > q[5]
    <3>1. \A j \in 1..(5 - 1) : j = 1 \/ j = 2 \/ j = 3 \/ j = 4 OBVIOUS
    <3> QED BY <2>5, <3>1
  <2> QED BY <2>1, <2>2, <2>3, <2>4, <2>5 DEF Above
<1> QED BY <1>1, <1>3, <1>5, <1>6 DEF p, q

LEMMA AboveOrders ==
  ASSUME NEW p, NEW q, NEW r, Five(p), Five(q), Five(r)
  PROVE  /\ Above(p, q) => ~Above(q, p)
         /\ Above(p, r) => Above(p, q) \/ Above(q, r)
BY DEF Five, Above

LEMMA BestQuality ==
  ASSUME NEW all \in Seq(Judged), all # <<>>
  PROVE  \E i \in DOMAIN all : FirstBest(all, DOMAIN all, BetterQuality) = all[i]
<1>0. /\ Len(all) \in Nat /\ DOMAIN all = 1..Len(all) /\ \A i \in DOMAIN all : all[i] \in Judged
  BY SeqElements
<1> DEFINE A == DOMAIN all
           R == {p \in A \X A : BetterQuality(all[p[1]], all[p[2]])}
           P(i) == \A j \in A : IF j < i THEN BetterQuality(all[i], all[j])
                                ELSE ~BetterQuality(all[j], all[i])
<1>1. \A i, j \in A : <<i, j>> \in R <=> BetterQuality(all[i], all[j]) OBVIOUS
<1>2. \A i, j \in A : /\ Five(QualityKey(all[i]))
                      /\ <<i, j>> \in R <=> Above(QualityKey(all[i]), QualityKey(all[j]))
  <2> HIDE DEF R
  <2> QED BY <1>0, <1>1, QualityIsAbove
<1>3. Orders(R, A)
  <2> HIDE DEF R
  <2> QED BY <1>2, AboveOrders DEF Orders
<1>4. A \subseteq 0..Len(all) /\ A # {}
  <2>1. Len(all) # 0 OBVIOUS
  <2>2. A = 1..Len(all) /\ Len(all) \in Nat BY <1>0
  <2> HIDE DEF A
  <2>3. 1 \in A BY <2>1, <2>2
  <2>4. \A i \in A : i \in 0..Len(all) BY <2>2
  <2> QED BY <2>3, <2>4
<1>5. \E i \in A : P(i)
  <2> HIDE DEF R, A
  <2>1. PICK i \in A : Leads(i, A, R)
    BY <1>0, <1>3, <1>4, FirstOfBest
  <2> QED BY <1>1, <2>1 DEF Leads
<1> DEFINE b == CHOOSE i \in A : P(i)
<1>6. b \in A
  <2> HIDE DEF P
  <2> QED BY <1>5
<1>7. FirstBest(all, A, BetterQuality) = all[b] BY DEF FirstBest
<1> QED BY <1>6, <1>7

(* _select_candidate.                                                      *)
LEMMA SelectionIsBest ==
  ASSUME NEW all \in Seq(Judged), all # <<>>
  PROVE  \E i \in DOMAIN all :
            /\ SelectCandidate(all) = all[i]
            /\ \A j \in DOMAIN all : GatePass(all[j]) =>
                  /\ GatePass(all[i])
                  /\ CandidateScore(all[j]) <= CandidateScore(all[i]) + 5000
<1> DEFINE best == FirstBest(all, Passed(all), Scores)
           mix  == FirstBest(all, PreferredMixes(all), Scores)
<1>0. /\ Len(all) \in Nat /\ DOMAIN all = 1..Len(all) /\ \A i \in DOMAIN all : all[i] \in Judged
  BY SeqElements
<1>1. \A i \in DOMAIN all : CandidateScore(all[i]) \in Int BY <1>0, ScoreInt
<1>2. CASE Passed(all) = {}
  <2>1. PICK i \in DOMAIN all : FirstBest(all, DOMAIN all, BetterQuality) = all[i]
    BY BestQuality
  <2>2. SelectCandidate(all) = all[i] BY <1>2, <2>1 DEF SelectCandidate
  <2>3. \A j \in DOMAIN all : ~GatePass(all[j]) BY <1>2 DEF Passed
  <2> QED BY <2>1, <2>2, <2>3
<1>3. CASE Passed(all) # {}
  <2>0. /\ Passed(all) \subseteq DOMAIN all /\ PreferredMixes(all) \subseteq Passed(all)
        /\ \A j \in DOMAIN all : GatePass(all[j]) <=> j \in Passed(all)
    BY DEF Passed, PreferredMixes
  <2>1. PICK i \in Passed(all) :
           best = all[i] /\ \A j \in Passed(all) : CandidateScore(all[j]) <= CandidateScore(all[i])
    BY <1>3, <2>0, BestScore
  <2>2. SelectCandidate(all)
          = IF PreferredMixes(all) # {} /\ CandidateScore(best) - CandidateScore(mix) <= 5000
            THEN mix ELSE best
    BY <1>3 DEF SelectCandidate
  <2>3. CASE PreferredMixes(all) # {} /\ CandidateScore(best) - CandidateScore(mix) <= 5000
    <3>1. PICK k \in PreferredMixes(all) : mix = all[k]
      <4>1. PreferredMixes(all) \subseteq DOMAIN all BY <2>0
      <4> QED BY <2>3, <4>1, BestScore
    <3> HIDE DEF best, mix
    <3>2. k \in DOMAIN all /\ k \in Passed(all) /\ SelectCandidate(all) = all[k]
      BY <2>0, <2>2, <2>3, <3>1
    <3>3. CandidateScore(all[i]) - CandidateScore(all[k]) <= 5000 BY <2>1, <2>3, <3>1
    <3>4. ASSUME NEW j \in Passed(all)
          PROVE  CandidateScore(all[j]) <= CandidateScore(all[k]) + 5000
      <4>1. /\ CandidateScore(all[i]) \in Int /\ CandidateScore(all[j]) \in Int
            /\ CandidateScore(all[k]) \in Int
        BY <1>1, <2>0, <2>1, <3>2
      <4>2. CandidateScore(all[j]) <= CandidateScore(all[i]) BY <2>1
      <4> QED BY <3>3, <4>1, <4>2
    <3> QED BY <2>0, <3>2, <3>4
  <2>4. CASE ~(PreferredMixes(all) # {} /\ CandidateScore(best) - CandidateScore(mix) <= 5000)
    <3> HIDE DEF best, mix
    <3>1. SelectCandidate(all) = all[i] BY <2>1, <2>2, <2>4
    <3>2. ASSUME NEW j \in Passed(all)
          PROVE  CandidateScore(all[j]) <= CandidateScore(all[i]) + 5000
      <4>1. CandidateScore(all[i]) \in Int /\ CandidateScore(all[j]) \in Int
        BY <1>1, <2>0, <2>1
      <4> QED BY <2>1, <4>1
    <3> QED BY <2>0, <2>1, <3>1, <3>2
  <2> QED BY <2>3, <2>4
<1> QED BY <1>2, <1>3

LEMMA GatesHold ==
  ASSUME NEW c \in Judged, GatePass(c)
  PROVE  /\ c.sim >= 970 /\ AbsDrift(c) <= 500 /\ c.fit <= 50
         /\ TermAtLeast(c, 800) /\ c.join # "bad"
<1>1. c.sim \in Int /\ AbsDrift(c) \in Int /\ c.fit \in Int BY ScoreInt DEF Judged
<1>2. "low_asr" \notin RejectReasons(c) /\ "high_drift" \notin RejectReasons(c)
      /\ "high_fit_delta" \notin RejectReasons(c) /\ "low_term_recall" \notin RejectReasons(c)
      /\ "bad_join_quality" \notin RejectReasons(c)
  BY DEF GatePass
<1>3. ~(c.sim < 970) BY <1>2 DEF RejectReasons
<1>4. ~(AbsDrift(c) > 500) BY <1>2 DEF RejectReasons
<1>5. ~(c.fit > 50) BY <1>2 DEF RejectReasons
<1>6. TermAtLeast(c, 800) BY <1>2 DEF RejectReasons
<1>7. c.join # "bad" BY <1>2 DEF RejectReasons, JoinRescued
<1> QED BY <1>1, <1>3, <1>4, <1>5, <1>6, <1>7


(* Nothing ships before the end; the default comes first.                  *)
CandidatesInv ==
    /\ strategy \in Nat
    /\ candidates \in Seq(Judged)
    /\ candidates # <<>> => candidates[1].family = "default"
    /\ step \in {"plan", "light", "mix", "rescue", "select"} => candidates # <<>>
    /\ step \in {"start", "default"} => candidates = <<>>
    /\ step # "done" => output = Nil
    /\ ShipsTheBest

LEMMA MeasuredJudged ==
  ASSUME strategy \in Nat, NEW m \in Measurements,
         NEW family \in {"default", "split_light_vector", "split_mix"}
  PROVE  Measured(family, m) \in Judged
<1>1. m \in [sim : Int, drift : Int, fit : Int, term : Int \cup {Nil}, latin : BOOLEAN,
             f0 : Int \cup {Nil}, join : {"none", "pass", "edge", "bad"}]
  BY MeasurementAssumption DEF MeasurementAssumption
<1>2. /\ m.sim \in Int /\ m.drift \in Int /\ m.fit \in Int /\ m.term \in Int \cup {Nil}
      /\ m.latin \in BOOLEAN /\ m.f0 \in Int \cup {Nil} /\ m.join \in {"none", "pass", "edge", "bad"}
  BY <1>1
<1>3. (IF family = "default" THEN "none" ELSE m.join) \in {"none", "pass", "edge", "bad"}
  BY <1>2
<1> QED BY <1>2, <1>3, Zenon DEF Measured, Judged

LEMMA CandidatesStart == CandidateInit => CandidatesInv
<1>1. <<>> \in Seq(Judged) OBVIOUS
<1> QED BY <1>1 DEF CandidateInit, CandidatesInv, ShipsTheBest, ShipsGatedAudio

(* A measured candidate is appended; nothing ships yet.                    *)
LEMMA AddKeepsInv ==
  ASSUME CandidatesInv, NEW family \in {"default", "split_light_vector", "split_mix"},
         NEW reason, AddCandidate(family, reason),
         family = "default" \/ candidates # <<>>,
         step # "done", step' \in {"plan", "mix", "rescue"},
         UNCHANGED <<strategy, output>>
  PROVE  CandidatesInv'
<1>1. PICK m \in Measurements : candidates' = Append(candidates, Measured(family, m))
  BY DEF AddCandidate
<1> DEFINE c == Measured(family, m)
<1>2. c \in Judged /\ c.family = family
  <2>1. strategy \in Nat BY DEF CandidatesInv
  <2>2. c \in Judged BY <2>1, MeasuredJudged
  <2> QED BY <2>2 DEF Measured
<1> HIDE DEF c
<1>3. candidates' = Append(candidates, c) BY <1>1 DEF c
<1>4. candidates \in Seq(Judged) /\ (candidates # <<>> => candidates[1].family = "default")
  BY DEF CandidatesInv
<1>5. candidates' \in Seq(Judged) /\ candidates' # <<>> BY <1>2, <1>3, <1>4
<1>6. candidates'[1].family = "default"
  <2>1. CASE candidates = <<>>
    <3>1. candidates'[1] = c BY <1>3, <2>1
    <3> QED BY <1>2, <2>1, <3>1
  <2>2. CASE candidates # <<>>
    <3>1. Len(candidates) \in Nat /\ Len(candidates) > 0 BY <1>4, <2>2
    <3>2. candidates'[1] = candidates[1] BY <1>3, <1>4, <3>1
    <3> QED BY <1>4, <2>2, <3>2
  <2> QED BY <2>1, <2>2
<1>7. output' = Nil /\ strategy' \in Nat BY DEF CandidatesInv
<1>8. step' # "done" /\ step' \notin {"start", "default"} OBVIOUS
<1>9. ShipsTheBest' BY <1>7, <1>8 DEF ShipsTheBest, ShipsGatedAudio
<1> QED BY <1>5, <1>6, <1>7, <1>8, <1>9 DEF CandidatesInv

LEMMA QuietKeepsInv ==
  ASSUME CandidatesInv, UNCHANGED <<candidates, output>>, strategy' \in Nat,
         step # "done", step' # "done",
         step' \in {"plan", "light", "mix", "rescue", "select"} => candidates # <<>>,
         step' \in {"start", "default"} => candidates = <<>>
  PROVE  CandidatesInv'
BY DEF CandidatesInv, ShipsTheBest, ShipsGatedAudio

LEMMA FallBackKeepsInv ==
  ASSUME CandidatesInv, FallBack
  PROVE  CandidatesInv'
<1>1. /\ output' = PlainAudio /\ result'.status = "skipped" /\ step' = "done"
      /\ candidates' = candidates /\ strategy' = strategy
  BY DEF FallBack
<1>2. ShipsTheBest' BY <1>1 DEF ShipsTheBest, ShipsGatedAudio
<1> QED BY <1>1, <1>2 DEF CandidatesInv

LEMMA SelectKeepsInv ==
  ASSUME CandidatesInv, Select
  PROVE  CandidatesInv'
<1> DEFINE best == SelectCandidate(candidates)
<1>1. candidates \in Seq(Judged) /\ candidates # <<>> /\ candidates[1].family = "default"
  BY DEF CandidatesInv, Select
<1>2. PICK i \in DOMAIN candidates :
         /\ best = candidates[i]
         /\ \A j \in DOMAIN candidates : GatePass(candidates[j]) =>
               /\ GatePass(candidates[i])
               /\ CandidateScore(candidates[j]) <= CandidateScore(candidates[i]) + 5000
  BY <1>1, SelectionIsBest
<1>3. best \in Judged BY <1>1, <1>2, SeqElements
<1>4. /\ output' = IF GatePass(best) THEN best ELSE candidates[1]
      /\ result'.status = IF GatePass(best) THEN "selected" ELSE "fallback"
      /\ step' = "done" /\ candidates' = candidates /\ strategy' = strategy
  BY DEF Select
<1> HIDE DEF best
<1>5. ShipsGatedAudio'
  <2>1. CASE GatePass(best)
    <3>1. output' = best BY <1>4, <2>1
    <3>2. /\ output'.sim >= 970 /\ AbsDrift(output') <= 500 /\ output'.fit <= 50
          /\ TermAtLeast(output', 800) /\ output'.join # "bad"
      BY <1>3, <2>1, <3>1, GatesHold
    <3>3. AbsDrift(output') = AbsDrift(output)' /\ TermAtLeast(output', 800) = TermAtLeast(output, 800)'
      BY DEF AbsDrift, TermAtLeast
    <3> QED BY <3>2 DEF ShipsGatedAudio, AbsDrift, TermAtLeast
  <2>2. CASE ~GatePass(best)
    <3>1. output'.family = "default" BY <1>1, <1>4, <2>2
    <3> QED BY <3>1 DEF ShipsGatedAudio
  <2> QED BY <2>1, <2>2
<1>6. ASSUME NEW j \in DOMAIN candidates', GatePass(candidates'[j])
      PROVE  /\ result'.status = "selected"
             /\ CandidateScore(candidates'[j]) <= CandidateScore(output') + 5000
  <2>1. j \in DOMAIN candidates /\ GatePass(candidates[j]) BY <1>4, <1>6
  <2>2. GatePass(best) BY <1>2, <2>1
  <2>3. output' = candidates[i] BY <1>2, <1>4, <2>2
  <2> QED BY <1>2, <1>4, <2>1, <2>2, <2>3
<1>7. ShipsTheBest'
  <2>1. (\A k \in DOMAIN candidates : GatePass(candidates[k]) =>
            /\ result.status = "selected"
            /\ CandidateScore(candidates[k]) <= CandidateScore(output) + 5000)'
    BY <1>6 DEF GatePass, RejectReasons, CandidateScore, AbsDrift, TermAtLeast, JoinRescued
  <2> QED BY <1>5, <2>1 DEF ShipsTheBest
<1> QED BY <1>1, <1>4, <1>7 DEF CandidatesInv

LEMMA CandidatesStep == CandidatesInv /\ [CandidateNext]_candidateVars => CandidatesInv'
<1> SUFFICES ASSUME CandidatesInv, [CandidateNext]_candidateVars PROVE CandidatesInv'
  OBVIOUS
<1>0. strategy \in Nat BY DEF CandidatesInv
<1>1. CASE Refuse \/ Fail
  BY <1>1, FallBackKeepsInv DEF Refuse, Fail
<1>2. CASE Begin
  <2>1. step' = "default" /\ UNCHANGED <<candidates, output, strategy>> /\ step = "start"
    BY <1>2 DEF Begin
  <2>2. candidates = <<>> BY <2>1 DEF CandidatesInv
  <2> QED BY <1>0, <2>1, <2>2, QuietKeepsInv
<1>3. CASE DefaultCandidate
  BY <1>3, AddKeepsInv DEF DefaultCandidate
<1>4. CASE PlanSplit
  <2>1. step = "plan" /\ step' \in {"light", "select"} /\ UNCHANGED <<candidates, output, strategy>>
    BY <1>4 DEF PlanSplit
  <2>2. candidates # <<>> BY <2>1 DEF CandidatesInv
  <2> QED BY <1>0, <2>1, <2>2, QuietKeepsInv
<1>5. CASE SplitLightVector
  <2>1. candidates # <<>> BY <1>5 DEF SplitLightVector, CandidatesInv
  <2> QED BY <1>5, <2>1, AddKeepsInv DEF SplitLightVector
<1>6. CASE SplitMix
  <2>1. candidates # <<>> BY <1>6 DEF SplitMix, CandidatesInv
  <2> QED BY <1>6, <2>1, AddKeepsInv DEF SplitMix
<1>7. CASE SkipFamily
  <2>1. step \in {"light", "mix"} /\ step' \in {"mix", "rescue"}
        /\ UNCHANGED <<candidates, output, strategy>>
    BY <1>7 DEF SkipFamily
  <2>2. candidates # <<>> BY <2>1 DEF CandidatesInv
  <2> QED BY <1>0, <2>1, <2>2, QuietKeepsInv
<1>8. CASE Rescue
  <2>1. step = "rescue" /\ step' \in {"select", "light"} /\ UNCHANGED <<candidates, output>>
    BY <1>8 DEF Rescue
  <2>2. candidates # <<>> BY <2>1 DEF CandidatesInv
  <2>3. strategy' \in Nat
    <3>1. strategy' = strategy \/ \E t \in FreshPlans : strategy' = t.strategy
      BY <1>8 DEF Rescue
    <3>2. \A t \in FreshPlans : t.strategy \in (strategy + 1)..Len(RescueSpecs)
      BY DEF FreshPlans
    <3>3. \A k \in (strategy + 1)..Len(RescueSpecs) : k \in Nat BY <1>0
    <3> QED BY <1>0, <3>1, <3>2, <3>3
  <2> QED BY <2>1, <2>2, <2>3, QuietKeepsInv
<1>9. CASE Select
  BY <1>9, SelectKeepsInv
<1>10. CASE UNCHANGED candidateVars
  <2>1. UNCHANGED <<strategy, candidates, step, output, result>> BY <1>10 DEF candidateVars
  <2> QED BY <2>1 DEF CandidatesInv, ShipsTheBest, ShipsGatedAudio, GatePass, RejectReasons,
                      CandidateScore, AbsDrift, TermAtLeast, JoinRescued
<1> QED BY <1>1, <1>2, <1>3, <1>4, <1>5, <1>6, <1>7, <1>8, <1>9, <1>10 DEF CandidateNext

(* Whatever is measured of the candidates, what is written to the output   *)
(* file passed the gates or is the audio without the adapter; nothing that *)
(* passed is discarded for a fallback, and no candidate that passed scores *)
(* more than 0.05 above what ships (_select_candidate and the copy in      *)
(* _run_candidates).                                                       *)
THEOREM TheBestCandidateShips == CandidateSpec => []ShipsTheBest
<1>1. CandidatesInv => ShipsTheBest BY DEF CandidatesInv
<1> QED BY <1>1, CandidatesStart, CandidatesStep, PTL DEF CandidateSpec

(***************************************************************************)
(* The plans of a request                                                  *)
(***************************************************************************)

(* The plans a request can try.                                            *)
PlansOf(r) ==
    {[strategy |-> k, plan |-> PlanTable[r][k]] : k \in 0..Len(RescueSpecs)}

LEMMA StrategyOptions ==
  /\ Len(RescueSpecs) = 7
  /\ AutomaticOptions \in OptionSets
  /\ \A k \in 1..7 : RescueSpecs[k].opts \in OptionSets
<1>1. ASSUME NEW m \in Nat, NEW ms \in Nat, NEW pause \in Nat
      PROVE  Options(m, ms, pause) \in OptionSets
  <2>1. DefaultOptions \in OptionSets BY DEF DefaultOptions, OptionSets
  <2> DEFINE d1 == [DefaultOptions EXCEPT !.maxParts = m]
             d2 == [d1 EXCEPT !.maxPartMs = ms]
             d3 == [d2 EXCEPT !.pauseMs = pause]
  <2>2. d1 \in OptionSets BY <2>1 DEF OptionSets
  <2>3. d2 \in OptionSets
    <3> HIDE DEF d1
    <3> QED BY <2>2 DEF OptionSets
  <2>4. d3 \in OptionSets
    <3> HIDE DEF d2
    <3> QED BY <2>3 DEF OptionSets
  <2>5. Options(m, ms, pause) = d3 BY DEF Options
  <2> QED BY <2>4, <2>5
<1>2. AutomaticOptions \in OptionSets BY <1>1 DEF AutomaticOptions
<1>3. Len(RescueSpecs) = 7 BY DEF RescueSpecs
<1>4. /\ RescueSpecs[1].opts = Options(4, 10500, 180)
      /\ RescueSpecs[2].opts = Options(6, 8500, 180)
      /\ RescueSpecs[3].opts = Options(6, 8500, 180)
      /\ RescueSpecs[4].opts = Options(6, 8500, 40)
      /\ RescueSpecs[5].opts = Options(6, 8500, 180)
      /\ RescueSpecs[6].opts = Options(6, 8500, 0)
      /\ RescueSpecs[7].opts = Options(2, 999000, 180)
  BY DEF RescueSpecs
<1>5. ASSUME NEW k \in 1..7 PROVE RescueSpecs[k].opts \in OptionSets
  <2>1. k = 1 \/ k = 2 \/ k = 3 \/ k = 4 \/ k = 5 \/ k = 6 \/ k = 7 OBVIOUS
  <2> QED BY <1>1, <1>4, <2>1
<1> QED BY <1>2, <1>3, <1>5

LEMMA TablePlansFill ==
  ASSUME NEW r \in LoraRequests, NEW k \in 0..Len(RescueSpecs)
  PROVE  PlanFills(PlanTable[r][k], r.text, r.targetMs)
<1> DEFINE opts   == IF k = 0 THEN AutomaticOptions ELSE RescueSpecs[k].opts
           concat == IF k = 0 THEN Nil ELSE RescueSpecs[k].concat
           plan   == BuildSplitPlan(r.text, r.targetMs, opts)
           joined == [plan EXCEPT !.pauseMs = concat]
<1>1. opts \in OptionSets
  <2>1. k = 0 \/ k \in 1..7 BY StrategyOptions
  <2> QED BY <2>1, StrategyOptions
<1>2. r.text \in Texts /\ r.text # <<>> /\ r.targetMs \in Nat
  BY RequestAssumption
<1>3. PlanTable[r][k] = IF concat = Nil THEN plan ELSE joined
  <2>1. PlanTable[r][k] = PlanUnder(r, k) BY PlanTableAssumption DEF SplitPlans
  <2> QED BY <2>1 DEF PlanUnder, JoinedWith
<1> HIDE DEF opts, concat
<1>4. PlanFills(plan, r.text, r.targetMs) BY <1>1, <1>2, SplitPlansFill
<1>5. joined.parts = plan.parts /\ joined.planningPauseMs = plan.planningPauseMs
  <2> DEFINE pieces == SplitParts(r.text, r.targetMs, opts)
             ms == PartMs(pieces, SpeechMs(pieces, r.targetMs, opts))
             list == [i \in DOMAIN pieces |-> [text |-> pieces[i], ms |-> ms[i]]]
             compress == \E i \in DOMAIN pieces : 1000000 * CountChars(pieces[i]) > opts.maxRate * ms[i]
  <2>1. plan = [parts |-> list, pauseMs |-> opts.pauseMs, planningPauseMs |-> opts.pauseMs,
                needsTextCompression |-> compress]
    BY DEF BuildSplitPlan, PlanOfParts
  <2> HIDE DEF plan, list, compress
  <2>2. plan = [parts |-> list, pauseMs |-> opts.pauseMs, planningPauseMs |-> opts.pauseMs,
                needsTextCompression |-> compress]
          => joined.parts = list /\ joined.planningPauseMs = opts.pauseMs
             /\ plan.parts = list /\ plan.planningPauseMs = opts.pauseMs
    OBVIOUS
  <2> QED BY <2>1, <2>2
<1> HIDE DEF plan, joined
<1>6. PlanTable[r][k].parts = plan.parts /\ PlanTable[r][k].planningPauseMs = plan.planningPauseMs
  <2>1. PlanTable[r][k] = plan \/ PlanTable[r][k] = joined BY <1>3
  <2> QED BY <1>5, <2>1
<1> QED BY <1>4, <1>6 DEF PlanFills

(* Only plans of the request's table are tried.                            *)
PlansInv ==
    /\ lora \in LoraRequests
    /\ strategy \in Nat
    /\ plans \in Seq(PlansOf(lora))

LEMMA PlansStart == CandidateInit => PlansInv
BY DEF CandidateInit, PlansInv

LEMMA PlansStep == PlansInv /\ [CandidateNext]_candidateVars => PlansInv'
<1> SUFFICES ASSUME PlansInv, [CandidateNext]_candidateVars PROVE PlansInv'
  OBVIOUS
<1> DEFINE Mine == PlansOf(lora)
<1>0. lora \in LoraRequests /\ strategy \in Nat /\ plans \in Seq(Mine) BY DEF PlansInv
<1>1. lora' = lora
  BY DEF CandidateNext, Refuse, Begin, Fail, FallBack, DefaultCandidate, PlanSplit,
         SplitLightVector, SplitMix, SkipFamily, Rescue, Select, candidateVars
<1>2. PlansOf(lora)' = Mine BY <1>1 DEF PlansOf, RescueSpecs
<1>3. ASSUME NEW k \in 0..Len(RescueSpecs)
      PROVE  [strategy |-> k, plan |-> StrategyPlan(k)] \in Mine
  BY DEF PlansOf, StrategyPlan
<1>4. CASE UNCHANGED <<strategy, plans>>
  BY <1>0, <1>1, <1>2, <1>4 DEF PlansInv
<1>5. CASE PlanSplit /\ ~(UNCHANGED <<strategy, plans>>)
  <2>1. plans' = <<[strategy |-> 0, plan |-> StrategyPlan(0)]>> /\ strategy' = strategy
    BY <1>5 DEF PlanSplit
  <2>2. 0 \in 0..Len(RescueSpecs) BY StrategyOptions
  <2>3. [strategy |-> 0, plan |-> StrategyPlan(0)] \in Mine BY <1>3, <2>2
  <2> HIDE DEF Mine
  <2>4. plans' \in Seq(Mine) BY <2>1, <2>3
  <2> QED BY <1>0, <1>1, <1>2, <2>1, <2>4 DEF PlansInv
<1>6. CASE Rescue /\ ~(UNCHANGED <<strategy, plans>>)
  <2>1. PICK next \in FreshPlans : strategy' = next.strategy /\ plans' = Append(plans, next)
    BY <1>6 DEF Rescue
  <2>2. PICK k \in (strategy + 1)..Len(RescueSpecs) :
            next = [strategy |-> k, plan |-> StrategyPlan(k)]
    BY <2>1 DEF FreshPlans
  <2>3. k \in 0..Len(RescueSpecs) /\ k \in Nat BY <1>0, StrategyOptions
  <2>4. next \in Mine /\ strategy' \in Nat BY <1>3, <2>1, <2>2, <2>3
  <2> HIDE DEF Mine
  <2>5. plans' \in Seq(Mine) BY <1>0, <2>1, <2>4
  <2> QED BY <1>0, <1>1, <1>2, <2>4, <2>5 DEF PlansInv
<1>7. \/ UNCHANGED <<strategy, plans>>
      \/ PlanSplit
      \/ Rescue
  BY DEF CandidateNext, Refuse, Begin, Fail, FallBack, DefaultCandidate,
         SplitLightVector, SplitMix, SkipFamily, Select, candidateVars
<1> QED BY <1>4, <1>5, <1>6, <1>7

LEMMA PlansInvFills == PlansInv => PlansFillTheSlot
<1> SUFFICES ASSUME PlansInv, NEW i \in DOMAIN plans
             PROVE  PlanFills(plans[i].plan, lora.text, lora.targetMs)
  BY DEF PlansFillTheSlot, PlanFills
<1> DEFINE Mine == PlansOf(lora)
<1>1. lora \in LoraRequests /\ plans \in Seq(Mine) BY DEF PlansInv
<1>2. plans[i] \in Mine
  <2> HIDE DEF Mine
  <2> QED BY <1>1, SeqElements
<1>3. PICK k \in 0..Len(RescueSpecs) : plans[i].plan = PlanTable[lora][k]
  BY <1>2 DEF PlansOf
<1> QED BY <1>1, <1>3, TablePlansFill

(* Every plan a request tries, the automatic one and the rescue ones,      *)
(* speaks all characters of its text, and the durations of the parts with  *)
(* the pauses between them add up to the target duration, but for parts at *)
(* the 50 ms minimum (build_split_plan).                                   *)
THEOREM PlansAlwaysFillTheSlot == CandidateSpec => []PlansFillTheSlot
BY PlansStart, PlansStep, PlansInvFills, PTL DEF CandidateSpec

LEMMA CandidateTypesStep ==
  CandidatesInv /\ CandidateTypeOK /\ [CandidateNext]_candidateVars => CandidateTypeOK'
<1> SUFFICES ASSUME CandidatesInv, CandidateTypeOK, [CandidateNext]_candidateVars
             PROVE  CandidateTypeOK'
  OBVIOUS
<1> DEFINE lastSpec == Len(RescueSpecs)
<1>1. /\ lora' = lora /\ machine' = machine
      /\ lora \in LoraRequests /\ machine \in Hosts
  BY DEF CandidateNext, Refuse, Begin, Fail, FallBack, DefaultCandidate, PlanSplit,
         SplitLightVector, SplitMix, SkipFamily, Rescue, Select, candidateVars,
         CandidateTypeOK
<1>2. step' \in Steps
  BY DEF CandidateNext, Refuse, Begin, Fail, FallBack, DefaultCandidate, PlanSplit,
         SplitLightVector, SplitMix, SkipFamily, Rescue, Select, candidateVars,
         CandidateTypeOK, Steps
<1>3. /\ strategy \in 0..lastSpec /\ strategy \in Nat /\ candidates \in Seq(Judged)
      /\ \A i \in DOMAIN candidates : candidates[i].strategy \in 0..strategy
  BY DEF CandidatesInv, CandidateTypeOK
<1>4. lastSpec \in Nat BY StrategyOptions
<1>5. ASSUME strategy' = strategy, NEW family, NEW reason, AddCandidate(family, reason)
      PROVE  CandidateTypeOK'
  <2>1. PICK m \in Measurements : candidates' = Append(candidates, Measured(family, m))
    BY <1>5 DEF AddCandidate
  <2> DEFINE c == Measured(family, m)
  <2>2. c.strategy = strategy BY DEF Measured
  <2> HIDE DEF c
  <2>3. candidates' = Append(candidates, c) BY <2>1 DEF c
  <2>4. ASSUME NEW i \in DOMAIN candidates' PROVE candidates'[i].strategy \in 0..strategy
    <3>1. /\ Len(candidates) \in Nat /\ DOMAIN candidates = 1..Len(candidates)
          /\ DOMAIN candidates' = 1..(Len(candidates) + 1)
          /\ candidates'[Len(candidates) + 1] = c
          /\ \A j \in 1..Len(candidates) : candidates'[j] = candidates[j]
      BY <1>3, <2>3
    <3> QED BY <1>3, <2>2, <3>1
  <2> HIDE DEF lastSpec
  <2> QED BY <1>1, <1>2, <1>3, <1>5, <2>4 DEF CandidateTypeOK, lastSpec, RescueSpecs
<1>6. CASE UNCHANGED <<strategy, candidates>>
  BY <1>1, <1>2, <1>3, <1>6 DEF CandidateTypeOK, RescueSpecs
<1>7. CASE Rescue
  <2>1. \/ strategy' = strategy
        \/ \E k \in (strategy + 1)..lastSpec : strategy' = k
    BY <1>7 DEF Rescue, FreshPlans
  <2>2. strategy' \in 0..lastSpec /\ strategy' >= strategy BY <1>3, <1>4, <2>1
  <2>3. candidates' = candidates BY <1>7 DEF Rescue
  <2>4. \A i \in DOMAIN candidates' : candidates'[i].strategy \in 0..strategy'
    BY <1>3, <2>2, <2>3
  <2> QED BY <1>1, <1>2, <2>2, <2>4 DEF CandidateTypeOK, RescueSpecs
<1>8. CASE DefaultCandidate \/ SplitLightVector \/ SplitMix
  BY <1>5, <1>8 DEF DefaultCandidate, SplitLightVector, SplitMix
<1>9. \/ UNCHANGED <<strategy, candidates>> \/ Rescue
      \/ DefaultCandidate \/ SplitLightVector \/ SplitMix
  BY DEF CandidateNext, Refuse, Begin, Fail, FallBack, PlanSplit, SkipFamily, Select,
         candidateVars
<1> QED BY <1>6, <1>7, <1>8, <1>9

(* A request goes through its steps in order of the strategies: the plans  *)
(* tried never run past the rescue table, and no candidate is labelled     *)
(* with a strategy that was not reached yet.                               *)
THEOREM CandidateTypeCorrect == CandidateSpec => []CandidateTypeOK
<1>1. CandidateInit => CandidateTypeOK
  BY StrategyOptions DEF CandidateInit, CandidateTypeOK, Steps
<1> QED BY <1>1, CandidatesStart, CandidatesStep, CandidateTypesStep, PTL DEF CandidateSpec
================================================================================
