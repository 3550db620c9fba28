----------------------------- MODULE HoloTypes -----------------------------
(***************************************************************************)
(* The value domains shared by the HoloDub control-plane models: the stage *)
(* order of a chapter job and the statuses of a job row                    *)
(* (internal/models/models.go).                                            *)
(***************************************************************************)
EXTENDS Naturals, Sequences

StageOrder == << "media", "separate", "asr_smart", "segment_review",
                 "translate", "tts_duration", "merge" >>

JobStage == {"media", "separate", "asr_smart", "segment_review",
             "translate", "tts_duration", "merge"}

\* JobStage.Next: the successor of a stage as a set, empty for the last stage.
NextOf(s) == {StageOrder[i + 1] : i \in {k \in 1..6 : StageOrder[k] = s}}

JobStatus == {"pending", "queued", "running", "awaiting_review",
              "awaiting_chapterize", "failed", "completed", "timed_out",
              "cancel_requested", "cancelled"}

\* JobStatus.IsTerminal.
TerminalStatus == {"completed", "failed", "timed_out", "cancelled"}

\* The two statuses in which HandleTask leaves the job to another agent.
ParkedStatus == {"awaiting_review", "awaiting_chapterize"}

\* Statuses of a job that somebody is expected to be working on.
BusyStatus == {"queued", "running"}
=============================================================================
