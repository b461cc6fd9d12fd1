------------------------------ MODULE RoundFiles ------------------------------
(***************************************************************************)
(* What becomes of one round's files: the tasks that the match workflow    *)
(* runs for the round's main source after its gate has reported, and the   *)
(* artifact-cleaner.  Argo starts a task when all tasks it depends on have *)
(* settled.  Four jobs rewrite shared files and may be started again in    *)
(* the middle, so they are modelled step by step: record-trim-job,         *)
(* stt-job, lark-record-job and transcode-job; the others only settle.     *)
(* The tasks of the other roles run like those of the main one.            *)
(***************************************************************************)
EXTENDS Naturals, FiniteSets

CONSTANTS
  Retries,   \* times Argo starts a job again (limit of the retryStrategy)
  Mishaps    \* bound: jobs that fail and pods that are lost

ASSUME FilesAssumption == Retries \in Nat /\ Mishaps \in Nat

Stepwise == {"trim", "stt", "lark", "transcode"}
Settling == {"record", "danmu", "analyze", "publish", "highlight", "artifact",
             "finalize", "ready", "manifestReady"}
Tasks    == Stepwise \cup Settling
Texts    == {"raw", "srt", "stt"}       \* stt.raw.jsonl, the subtitle, stt.jsonl

VARIABLES
  on,           \* what the gate reports as enabled
  status,       \* state of each task
  at, tries,    \* next step of the stepwise jobs, and how often they were restarted
  mp4, av1,     \* the main role's archive and the transcoder's temporary file
  xml, rawXml,  \* the danmu of the main role and its copy before trimming
  staged, text, \* the attempt that wrote each text: next to, and under, its name
  made,         \* texts the current attempt of stt-job has to publish
  upload,       \* the lark_bitable_records row: what was uploaded, deletion mark
  opened,       \* what the lark-record-job has opened
  cleaner,      \* the artifact-cleaner
  mishaps

jobs  == <<status, at, tries>>
danmu == <<xml, rawXml>>
texts == <<staged, text, made>>
lark  == <<upload, opened>>
vars  == <<on, jobs, mp4, av1, danmu, texts, lark, cleaner, mishaps>>

Settled(t) == status[t] \in {"Succeeded", "Failed", "Skipped", "Omitted"}
Off(t)     == status[t] \in {"Skipped", "Omitted"}
AllSettled == \A t \in Tasks : Settled(t)

Options ==
  {o \in [main : BOOLEAN, danmu : BOOLEAN, analyze : BOOLEAN, stt : BOOLEAN,
          lark : BOOLEAN, highlight : BOOLEAN] :
     ~o.main => ~o.analyze /\ ~o.stt /\ ~o.highlight}

FirstStep == [trim |-> "remux", stt |-> "clean", lark |-> "open", transcode |-> "stale"]

Init ==
  /\ on \in Options
  /\ status = [t \in Tasks |-> "waiting"]
  /\ at = FirstStep
  /\ tries = [t \in Stepwise |-> 0]
  /\ mp4 = "none" /\ av1 = "none"
  /\ xml = "none" /\ rawXml = "none"
  /\ staged = [f \in Texts |-> 0] /\ text = [f \in Texts |-> 0] /\ made = {}
  /\ upload = [file |-> "none", deleted |-> FALSE]
  /\ opened = "none"
  /\ cleaner = "young"
  /\ mishaps = 0

Mishap == mishaps < Mishaps /\ mishaps' = mishaps + 1

-----------------------------------------------------------------------------
(* The DAG of the round.                                                   *)

\* Faulty variant: the transcoder does not wait for the upload.
EnablersWithoutUpload(t) ==
  CASE t = "trim"  -> {"danmu"}
    [] t = "ready" -> {"record", "publish", "stt", "trim", "lark", "transcode", "finalize"}
    [] t = "manifestReady" -> {"record", "danmu", "analyze", "stt", "trim"}
    [] OTHER -> {}

\* Tasks that must have succeeded, if they ran at all.
Enablers(t) ==
  CASE t = "trim"      -> {"danmu"}
    [] t = "transcode" -> {"lark"}
    [] t = "ready"     -> {"record", "publish", "stt", "trim", "lark", "transcode", "finalize"}
    [] t = "manifestReady" -> {"record", "danmu", "analyze", "stt", "trim"}
    [] OTHER -> {}

\* Tasks that must have succeeded.
Needs(t) ==
  CASE t = "analyze"   -> {"record"}
    [] t = "publish"   -> {"analyze"}
    [] t = "trim"      -> {"record", "publish"}
    [] t \in {"stt", "lark", "transcode"} -> {"trim"}
    [] t = "highlight" -> {"analyze", "stt", "danmu"}
    [] t = "artifact"  -> {"highlight"}
    [] t = "finalize"  -> {"artifact"}
    [] OTHER -> {}

\* Faulty variant: a task that was left out blocks what comes after it.
DependsOnSkipped(t) ==
  /\ \A d \in Needs(t) : status[d] = "Succeeded"
  /\ \A d \in Enablers(t) : status[d] \in {"Succeeded", "Skipped"}

Depends(t) ==
  /\ \A d \in Needs(t) : status[d] = "Succeeded"
  /\ \A d \in Enablers(t) : status[d] = "Succeeded" \/ Off(d)

When(t) ==
  CASE t = "record"  -> on.main
    [] t = "danmu"   -> on.danmu
    [] t \in {"analyze", "publish", "transcode"} -> on.analyze
    [] t = "stt"     -> on.stt
    [] t = "trim"    -> on.main /\ on.analyze
    [] t = "lark"    -> on.lark /\ on.main
    [] t \in {"highlight", "artifact", "finalize"} ->
         on.highlight /\ on.danmu /\ on.analyze /\ on.stt
    [] OTHER -> TRUE

Start(t) ==
  /\ status[t] = "waiting"
  /\ \A d \in Needs(t) \cup Enablers(t) : Settled(d)
  /\ \E s \in {"running", "Skipped", "Omitted"} :
       /\ s = "Omitted" <=> ~Depends(t)
       /\ Depends(t) /\ ~When(t) => s = "Skipped"
       /\ s = "Skipped" => ~When(t) \/ t = "artifact"   \* a highlight-job without clips
       /\ status' = [status EXCEPT ![t] = s]
  /\ UNCHANGED <<on, at, tries, mp4, av1, danmu, texts, lark, cleaner, mishaps>>

\* The danmu-job waits for the metadata of a main recording.
Finish(t) ==
  /\ t \in Settling /\ status[t] = "running"
  /\ t = "danmu" => on.main
  /\ status' = [status EXCEPT ![t] = "Succeeded"]
  /\ xml' = IF t = "danmu" THEN "raw" ELSE xml
  /\ UNCHANGED <<on, at, tries, mp4, av1, rawXml, texts, lark, cleaner, mishaps>>

Fail(t) ==
  /\ status[t] = "running" /\ Mishap
  /\ status' = [status EXCEPT ![t] = "Failed"]
  /\ staged' = IF t = "stt" THEN [f \in Texts |-> 0] ELSE staged   \* cleanupStagingInfo
  /\ UNCHANGED <<on, at, tries, mp4, av1, danmu, text, made, lark, cleaner>>

\* The pod is lost, or the job exits with 75: Argo starts it from the beginning.
LosePod(t) ==
  /\ t \in Stepwise /\ status[t] = "running" /\ Mishap
  /\ IF tries[t] < Retries
     THEN /\ at' = [at EXCEPT ![t] = FirstStep[t]]
          /\ tries' = [tries EXCEPT ![t] = @ + 1]
          /\ UNCHANGED status
     ELSE /\ status' = [status EXCEPT ![t] = "Failed"]
          /\ UNCHANGED <<at, tries>>
  /\ UNCHANGED <<on, mp4, av1, danmu, texts, lark, cleaner>>

At(t, step)   == status[t] = "running" /\ at[t] = step
Goto(t, step) == at' = [at EXCEPT ![t] = step] /\ UNCHANGED <<status, tries>>
GiveUp(t)     == status' = [status EXCEPT ![t] = "Failed"] /\ UNCHANGED <<at, tries>>

Exit(t) ==
  /\ At(t, "exit")
  /\ status' = [status EXCEPT ![t] = "Succeeded"]
  /\ UNCHANGED <<on, at, tries, mp4, av1, danmu, texts, lark, cleaner, mishaps>>

-----------------------------------------------------------------------------
(* record-trim-job.                                                        *)

Remux ==
  /\ At("trim", "remux") /\ Goto("trim", "validate")
  /\ mp4' = "partial"
  /\ UNCHANGED <<on, av1, danmu, texts, lark, cleaner, mishaps>>

ValidateOutput ==
  /\ At("trim", "validate") /\ Goto("trim", "rawSource")
  /\ mp4' = "trimmed"
  /\ UNCHANGED <<on, av1, danmu, texts, lark, cleaner, mishaps>>

\* Faulty variant: what is there now is taken for the raw danmu.
EnsureNewRawSource ==
  /\ At("trim", "rawSource") /\ Goto("trim", "cut")
  /\ IF xml # "none" THEN rawXml' = xml /\ xml' = "none" ELSE UNCHANGED danmu
  /\ UNCHANGED <<on, mp4, av1, texts, lark, cleaner, mishaps>>

EnsureRawSource ==
  /\ At("trim", "rawSource") /\ Goto("trim", "cut")
  /\ IF rawXml = "none" /\ xml # "none"
     THEN rawXml' = xml /\ xml' = "none"
     ELSE UNCHANGED danmu
  /\ UNCHANGED <<on, mp4, av1, texts, lark, cleaner, mishaps>>

TrimDanmu ==
  /\ At("trim", "cut") /\ Goto("trim", "exit")
  /\ xml' = CASE rawXml = "raw" -> "cut" [] rawXml = "none" -> xml [] OTHER -> "cutAgain"
  /\ UNCHANGED <<on, mp4, av1, rawXml, texts, lark, cleaner, mishaps>>

TrimStep == Remux \/ ValidateOutput \/ EnsureRawSource \/ TrimDanmu \/ Exit("trim")

-----------------------------------------------------------------------------
(* stt-job.                                                                *)

CleanStaged ==
  /\ At("stt", "clean") /\ Goto("stt", "extract")
  /\ staged' = [f \in Texts |-> 0]
  /\ UNCHANGED <<on, mp4, av1, danmu, text, made, lark, cleaner, mishaps>>

ExtractAudio ==
  /\ At("stt", "extract")
  /\ IF mp4 = "none" THEN GiveUp("stt") ELSE Goto("stt", "recognize")
  /\ UNCHANGED <<on, mp4, av1, danmu, texts, lark, cleaner, mishaps>>

\* The raw text is kept only by the quality cleaning; no cues, no subtitle.
Recognize ==
  /\ At("stt", "recognize") /\ Goto("stt", "raw")
  /\ \E fs \in SUBSET Texts :
       /\ "stt" \in fs
       /\ made' = fs
       /\ staged' = [f \in Texts |-> IF f \in fs THEN tries["stt"] + 1 ELSE 0]
  /\ UNCHANGED <<on, mp4, av1, danmu, text, lark, cleaner, mishaps>>

\* Faulty variant: what this attempt did not write is left as it is.
CommitSTTKeep(f) ==
  /\ At("stt", f)
  /\ Goto("stt", CASE f = "raw" -> "srt" [] f = "srt" -> "stt" [] f = "stt" -> "exit")
  /\ text' = [text EXCEPT ![f] = IF staged[f] = 0 THEN @ ELSE staged[f]]
  /\ staged' = [staged EXCEPT ![f] = 0]
  /\ UNCHANGED <<on, mp4, av1, danmu, made, lark, cleaner, mishaps>>

CommitSTT(f) ==
  /\ At("stt", f)
  /\ Goto("stt", CASE f = "raw" -> "srt" [] f = "srt" -> "stt" [] f = "stt" -> "exit")
  /\ text' = [text EXCEPT ![f] = staged[f]]
  /\ staged' = [staged EXCEPT ![f] = 0]
  /\ UNCHANGED <<on, mp4, av1, danmu, made, lark, cleaner, mishaps>>

STTStep ==
  \/ CleanStaged \/ ExtractAudio \/ Recognize \/ Exit("stt")
  \/ \E f \in Texts : CommitSTT(f)

-----------------------------------------------------------------------------
(* lark-record-job.                                                        *)

\* The source stays open; the row is created or keeps the token it has.
OpenSource ==
  /\ At("lark", "open")
  /\ IF mp4 = "none"
     THEN GiveUp("lark") /\ UNCHANGED opened
     ELSE Goto("lark", "save") /\ opened' = mp4
  /\ UNCHANGED <<on, mp4, av1, danmu, texts, upload, cleaner, mishaps>>

\* The upload is finished, attached to the record and entered in the row.
SaveUpload ==
  /\ At("lark", "save") /\ Goto("lark", "exit")
  /\ upload' = [upload EXCEPT !.file = opened]
  /\ UNCHANGED <<on, mp4, av1, danmu, texts, opened, cleaner, mishaps>>

LarkStep == OpenSource \/ SaveUpload \/ Exit("lark")

-----------------------------------------------------------------------------
(* transcode-job.                                                          *)

\* What an earlier attempt left is removed, even if it is the only copy.
RemoveStale ==
  /\ At("transcode", "stale") /\ Goto("transcode", "encode")
  /\ av1' = "none"
  /\ UNCHANGED <<on, mp4, danmu, texts, lark, cleaner, mishaps>>

\* Faulty variant: an archive that is gone is taken for one that was published.
EncodeIfThere ==
  /\ At("transcode", "encode")
  /\ IF mp4 = "none"
     THEN Goto("transcode", "exit") /\ av1' = av1
     ELSE /\ Goto("transcode", "remove")
          /\ av1' = IF mp4 = "trimmed" THEN "av1" ELSE "av1Again"
  /\ UNCHANGED <<on, mp4, danmu, texts, lark, cleaner, mishaps>>

Encode ==
  /\ At("transcode", "encode")
  /\ IF mp4 = "none"
     THEN GiveUp("transcode") /\ av1' = av1
     ELSE /\ Goto("transcode", "remove")
          /\ av1' = IF mp4 = "trimmed" THEN "av1" ELSE "av1Again"
  /\ UNCHANGED <<on, mp4, danmu, texts, lark, cleaner, mishaps>>

RemoveArchive ==
  /\ At("transcode", "remove") /\ Goto("transcode", "publish")
  /\ mp4' = "none"
  /\ UNCHANGED <<on, av1, danmu, texts, lark, cleaner, mishaps>>

PublishArchive ==
  /\ At("transcode", "publish") /\ Goto("transcode", "exit")
  /\ mp4' = av1 /\ av1' = "none"
  /\ UNCHANGED <<on, danmu, texts, lark, cleaner, mishaps>>

TranscodeStep ==
  RemoveStale \/ Encode \/ RemoveArchive \/ PublishArchive \/ Exit("transcode")

-----------------------------------------------------------------------------
(* artifact-cleaner.  The retention of seven days outlasts the workflow.   *)

Age ==
  /\ cleaner = "young" /\ AllSettled /\ upload.file # "none"
  /\ cleaner' = "query"
  /\ UNCHANGED <<on, jobs, mp4, av1, danmu, texts, lark, mishaps>>

\* The archive belonging to the row's source path is the source itself.
RemoveSource ==
  /\ cleaner = "query" /\ ~upload.deleted /\ mp4 # "none"
  /\ mp4' = "none"
  /\ cleaner' = "mark"
  /\ UNCHANGED <<on, jobs, av1, danmu, texts, lark, mishaps>>

MarkDeleted ==
  /\ cleaner = "mark"
  /\ upload' = [upload EXCEPT !.deleted = TRUE]
  /\ cleaner' = "query"
  /\ UNCHANGED <<on, jobs, mp4, av1, danmu, texts, opened, mishaps>>

FailMark ==
  /\ cleaner = "mark" /\ Mishap
  /\ cleaner' = "query"
  /\ UNCHANGED <<on, jobs, mp4, av1, danmu, texts, lark>>

Cleaner == RemoveSource \/ MarkDeleted

-----------------------------------------------------------------------------
Progress ==
  \/ \E t \in Tasks : Start(t) \/ Finish(t)
  \/ TrimStep \/ STTStep \/ LarkStep \/ TranscodeStep

Next ==
  \/ Progress \/ Age \/ Cleaner \/ FailMark
  \/ \E t \in Tasks : Fail(t) \/ LosePod(t)

\* The workflow controller and the jobs keep running.
FilesSpec == Init /\ [][Next]_vars /\ WF_vars(Progress)

-----------------------------------------------------------------------------
Archives == {"none", "partial", "trimmed", "av1", "av1Again"}
Danmu    == {"none", "raw", "cut", "cutAgain"}

(* Every variable keeps to its type; a job is started again no more often  *)
(* than its retryStrategy allows.                                          *)
TypeOK ==
  /\ on \in Options
  /\ status \in [Tasks -> {"waiting", "running", "Succeeded", "Failed",
                           "Skipped", "Omitted"}]
  /\ tries \in [Stepwise -> 0..Retries]
  /\ mp4 \in Archives /\ av1 \in Archives /\ opened \in Archives
  /\ xml \in Danmu /\ rawXml \in Danmu
  /\ staged \in [Texts -> 0..(Retries + 1)] /\ text \in [Texts -> 0..(Retries + 1)]
  /\ made \subseteq Texts
  /\ upload \in [file : Archives, deleted : BOOLEAN]
  /\ cleaner \in {"young", "query", "mark"}

(* What is attached in Lark is the round cut to its bounds and in full     *)
(* quality: the upload never meets the transcoder, nor a file still being  *)
(* written, over all retries.                                              *)
UploadedIsTrimmed == upload.file \in {"none", "trimmed"}

(* A trimmed round's danmu has been moved to the clock of the trimmed      *)
(* video exactly once, however often the job was started again in between  *)
(* (ensure_raw_source, atomic_write).                                      *)
DanmuCutOnce ==
  status["trim"] = "Succeeded" /\ status["danmu"] = "Succeeded" =>
    xml = "cut" /\ rawXml = "raw"

(* The texts of a finished stt-job come from one attempt: nothing of an    *)
(* earlier attempt that was cut off while it committed is left (commitSTT).*)
TextsOfOneAttempt ==
  status["stt"] = "Succeeded" =>
    text = [f \in Texts |-> IF f \in made THEN tries["stt"] + 1 ELSE 0]

(* Until the cleaner comes, a trimmed round without its archive has the    *)
(* successor that is about to take its place, unless a transcoder was      *)
(* started again in between, which removes that too (run,                  *)
(* replace_archive_with_av1).  Then that transcoder does not succeed, and  *)
(* no round is reported ready without its archive.                         *)
ArchiveLossIsSeen ==
  status["trim"] = "Succeeded" /\ cleaner = "young" /\ mp4 = "none" =>
    /\ status["ready"] # "Succeeded"
    /\ av1 # "none" \/ (tries["transcode"] > 0 /\ status["transcode"] # "Succeeded")

(* Whatever is switched off, the round's ready tasks run when nothing goes *)
(* wrong: no combination of skipped and omitted tasks blocks the manifest. *)
(* stt-job must not meet the archive while it is replaced, and a danmu-job *)
(* needs a main recording.                                                 *)
RoundBecomesReady ==
  [](mishaps = 0 /\ status["stt"] # "Failed" /\ (on.danmu => on.main)) =>
    <>(status["ready"] = "Succeeded" /\ status["manifestReady"] = "Succeeded")

(* The archive that the transcoder published stays: the cleaner removes    *)
(* sources (archivePathForSource).                                         *)
ArchiveKept == status["transcode"] = "Succeeded" => mp4 \in {"av1", "av1Again"}
=============================================================================
