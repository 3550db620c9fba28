----------------------------- MODULE TtsSharing ------------------------------
(***************************************************************************)
(* What concurrent synthesis requests share beside the model               *)
(* (ml_service/app/adapters/tts.py and indextts2_lora.py): the cached clip *)
(* of a long voice reference, which the first request that needs it cuts   *)
(* with ffmpeg and renames into place, and the LoRA adapter's switch,      *)
(* which candidate requests turn on around a call.                         *)
(*                                                                         *)
(* A file name refers to an inode; an inode is whole when a writer has     *)
(* finished and none that reopened it is still writing.                    *)
(***************************************************************************)
EXTENDS Naturals, FiniteSets

CONSTANTS
    Requests,   \* the requests in flight, one executor thread each
    Candidates, \* those of them that run LoRA candidates
    GpuConcurrency,    \* GPU_CONCURRENCY
    MaxParts,   \* bound on the parts a candidate request synthesises
    MaxCrashes, \* bound on the restarts of the service
    None

ASSUME SharingAssumption ==
    /\ IsFiniteSet(Requests) /\ Candidates \subseteq Requests
    /\ GpuConcurrency \in Nat \ {0} /\ MaxParts \in Nat /\ MaxCrashes \in Nat

VARIABLES
    where,    \* where each request is
    mode,     \* the call it is making: "plain", "default" or "part"
    parts,    \* the parts a candidate request has synthesised
    saved,    \* the switch as controller.enabled() found it
    adapter,  \* lora_enabled of the wrapped modules
    clip,     \* inode of the cached clip, or None
    tmp,      \* inode of its .tmp.wav, or None
    whole,    \* the inodes some writer has completed
    writing,  \* the inode each request's ffmpeg writes, or None
    prompt,   \* the cached clip a call speaks with; None: the original
    crashes

clipVars    == <<clip, tmp, whole, writing, prompt>>
switchVars  == <<mode, parts, saved, adapter>>
sharingVars == <<where, clipVars, switchVars, crashes>>

Places == {"idle", "ready", "prompt", "write", "call", "done"}
Modes  == {"plain", "default", "part"}

(* More names for inodes than files and open handles.                      *)
Inodes == 0..(2 * Cardinality(Requests) + 2)

FreshInode ==
    CHOOSE i \in Inodes : i \notin {clip, tmp} \cup {writing[r] : r \in Requests}
                                          \cup {prompt[r] : r \in Requests}

SharingInit ==
    /\ where = [r \in Requests |-> "idle"]
    /\ mode = [r \in Requests |-> "plain"]
    /\ parts = [r \in Requests |-> 0]
    /\ saved = [r \in Requests |-> FALSE]
    /\ adapter = FALSE
    /\ clip = None /\ tmp = None /\ whole = {}
    /\ writing = [r \in Requests |-> None]
    /\ prompt = [r \in Requests |-> None]
    /\ crashes = 0

MoveTo(r, place) == where' = [where EXCEPT ![r] = place]

(* GPUGuard.acquire around the whole handler.                              *)
Holding == {r \in Requests : where[r] \notin {"idle", "done"}}

(* A candidate request first runs ensure_lora_adapter, which switches the  *)
(* adapter off, whether it wraps the model or finds it wrapped.            *)
Enter(r) ==
    /\ where[r] = "idle" /\ Cardinality(Holding) < GpuConcurrency
    /\ MoveTo(r, "ready")
    /\ mode' = [mode EXCEPT ![r] = IF r \in Candidates THEN "default" ELSE "plain"]
    /\ adapter' = IF r \in Candidates THEN FALSE ELSE adapter
    /\ UNCHANGED <<parts, saved, clipVars, crashes>>

(* _synthesize_single_candidate: the default candidate switches the        *)
(* adapter off, a part runs inside controller.enabled(); a plain request   *)
(* and the fallback leave the switch as it is.                             *)
StartCall(r) ==
    /\ where[r] = "ready"
    /\ MoveTo(r, "prompt")
    /\ adapter' = CASE mode[r] = "default" -> FALSE
                    [] mode[r] = "part"    -> TRUE
                    [] mode[r] = "plain"   -> adapter
    /\ saved' = IF mode[r] = "part" THEN [saved EXCEPT ![r] = adapter] ELSE saved
    /\ UNCHANGED <<mode, parts, clipVars, crashes>>

(* _prepare_spk_audio_prompt: the cached clip, or ffmpeg into .tmp.wav.    *)
UseClip(r) ==
    /\ where[r] = "prompt" /\ clip # None
    /\ prompt' = [prompt EXCEPT ![r] = clip]
    /\ MoveTo(r, "call")
    /\ UNCHANGED <<clip, tmp, whole, writing, switchVars, crashes>>

\* Mutant: ffmpeg writes under the final name.
StartWriting_InPlace(r) ==
    /\ where[r] = "prompt" /\ clip = None
    /\ clip' = FreshInode /\ tmp' = FreshInode
    /\ whole' = whole \ {FreshInode}
    /\ writing' = [writing EXCEPT ![r] = FreshInode]
    /\ MoveTo(r, "write")
    /\ UNCHANGED <<prompt, switchVars, crashes>>

StartWriting(r) ==
    /\ where[r] = "prompt" /\ clip = None
    /\ LET inode == IF tmp = None THEN FreshInode ELSE tmp IN
       /\ tmp' = inode
       /\ whole' = whole \ {inode}
       /\ writing' = [writing EXCEPT ![r] = inode]
    /\ MoveTo(r, "write")
    /\ UNCHANGED <<clip, prompt, switchVars, crashes>>

(* ffmpeg succeeds and the file is renamed into place; when another        *)
(* request has renamed it already, the original source is used.            *)
Publish(r) ==
    /\ where[r] = "write"
    /\ whole' = whole \cup {writing[r]}
    /\ IF tmp = None
       THEN UNCHANGED <<clip, tmp, prompt>>
       ELSE clip' = tmp /\ tmp' = None /\ prompt' = [prompt EXCEPT ![r] = tmp]
    /\ writing' = [writing EXCEPT ![r] = None]
    /\ MoveTo(r, "call")
    /\ UNCHANGED <<switchVars, crashes>>

(* ffmpeg fails: the temporary file is removed, the source is used.        *)
WriteFails(r) ==
    /\ where[r] = "write"
    /\ tmp' = None
    /\ writing' = [writing EXCEPT ![r] = None]
    /\ MoveTo(r, "call")
    /\ UNCHANGED <<clip, whole, prompt, switchVars, crashes>>

\* Mutant: the switch stays on after a part.
CallEnds_NoRestore(r) ==
    /\ where[r] = "call"
    /\ prompt' = [prompt EXCEPT ![r] = None]
    /\ UNCHANGED <<saved, adapter, clip, tmp, whole, writing, crashes>>

(* The call returns or raises; the switch is put back as it was found.     *)
CallEnds(r) ==
    /\ where[r] = "call"
    /\ adapter' = IF mode[r] = "part" THEN saved[r] ELSE adapter
    /\ prompt' = [prompt EXCEPT ![r] = None]
    /\ UNCHANGED <<saved, clip, tmp, whole, writing, crashes>>

(* The next part; the plain fallback after an exception; or the response.  *)
NextPart(r) ==
    /\ CallEnds(r)
    /\ mode[r] # "plain" /\ parts[r] < MaxParts
    /\ mode' = [mode EXCEPT ![r] = "part"]
    /\ parts' = [parts EXCEPT ![r] = @ + 1]
    /\ MoveTo(r, "ready")

CandidatesFail(r) ==
    /\ CallEnds(r)
    /\ mode[r] # "plain"
    /\ mode' = [mode EXCEPT ![r] = "plain"]
    /\ MoveTo(r, "ready")
    /\ UNCHANGED parts

Respond(r) ==
    /\ CallEnds(r)
    /\ MoveTo(r, "done")
    /\ UNCHANGED <<mode, parts>>

(* A restart loses the threads and the model, the files stay.              *)
Crash ==
    /\ crashes < MaxCrashes
    /\ crashes' = crashes + 1
    /\ where' = [r \in Requests |-> "idle"]
    /\ mode' = [r \in Requests |-> "plain"]
    /\ parts' = [r \in Requests |-> 0]
    /\ saved' = [r \in Requests |-> FALSE]
    /\ adapter' = FALSE
    /\ writing' = [r \in Requests |-> None]
    /\ prompt' = [r \in Requests |-> None]
    /\ UNCHANGED <<clip, tmp, whole>>

SharingStep(r) ==
    \/ Enter(r) \/ StartCall(r)
    \/ UseClip(r) \/ StartWriting(r) \/ Publish(r) \/ WriteFails(r)
    \/ NextPart(r) \/ CandidatesFail(r) \/ Respond(r)

SharingNext == (\E r \in Requests : SharingStep(r)) \/ Crash

SharingSpec == SharingInit /\ [][SharingNext]_sharingVars

(***************************************************************************)
(* Properties                                                              *)
(***************************************************************************)

SharingTypeOK ==
    /\ where \in [Requests -> Places]
    /\ mode \in [Requests -> Modes]
    /\ parts \in [Requests -> 0..MaxParts]
    /\ saved \in [Requests -> BOOLEAN] /\ adapter \in BOOLEAN
    /\ clip \in Inodes \cup {None} /\ tmp \in Inodes \cup {None}
    /\ whole \subseteq Inodes
    /\ writing \in [Requests -> Inodes \cup {None}]
    /\ prompt \in [Requests -> Inodes \cup {None}]
    /\ crashes \in 0..MaxCrashes

Intact(inode) == inode \in whole /\ \A r \in Requests : writing[r] # inode

(* A cached reference clip is complete: whatever failed or crashed, no     *)
(* request is spoken with a clip that was cut short.  It needs a single    *)
(* permit: with two, two requests write one .tmp.wav, and the first to     *)
(* finish renames it under the other's ffmpeg.                             *)
ClipIsWhole ==
    /\ clip # None => Intact(clip)
    /\ \A r \in Requests : prompt[r] # None => Intact(prompt[r])

(* The adapter is loaded once and stays off but for the parts of           *)
(* candidates, so default and plain calls are spoken by the base model,    *)
(* and every part by the adapted one.                                      *)
AdapterFollowsCall ==
    /\ \A r \in Requests : where[r] = "call" => (adapter <=> mode[r] = "part")
    /\ Holding = {} => ~adapter
==============================================================================
