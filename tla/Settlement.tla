----------------------------- MODULE Settlement -----------------------------
(***************************************************************************)
(* The settlement panel of one round.  analyze-job looks for it in the     *)
(* recording and leaves settlement.jpg and round.json, analyze-publish     *)
(* writes the verdict into the round's row, and lark-notifier shows the    *)
(* picture that the row points at.  A backfill job, which every install    *)
(* and upgrade of the chart runs, completes rows from what it finds in the *)
(* directories, also beside a workflow that is still at work.  A pod that  *)
(* is started again may come to another verdict and picks another frame.   *)
(***************************************************************************)
EXTENDS Naturals

CONSTANTS
  Retries,       \* limit of processingRetryStrategy
  MaxBackfills,  \* bound on runs of the backfill job
  MaxFaults      \* bound on lost pods and failed calls

ASSUME SettlementAssumption == {Retries, MaxBackfills, MaxFaults} \subseteq Nat

Attempts == 1..(Retries + 1)
Verdicts == {"CONFIRMED", "INVALID"}

\* A picture is named after the attempt that wrote it; torn while it is written.
NoImage == [of |-> 0, whole |-> FALSE]
Images  == [of : 0..(Retries + 1), whole : BOOLEAN]

VARIABLES
  analyze,    \* the task as Argo has it, with its output settlement_status
  pods,       \* the pods of analyze: next step, verdict
  json,       \* round.json: the attempt that wrote it, its verdict
  jpg,        \* settlement.jpg
  publish,    \* the task as Argo has it
  publishers, \* the pods of analyze-publish: next step, the picture read
  row,        \* settlement_status, and the picture if settlement_ready_at is set
  backfill,   \* the backfill job: next step, the row as listed and whether the workflow
              \* was at work on the round then, the picture read
  backfills,  \* runs of it begun
  touched,    \* the row has been written since the notifier read it
  render,     \* the notifier: next step, the row it read
  card,       \* the picture on the card
  faults,
  excuses     \* what the properties make exceptions for

vars == <<analyze, pods, json, jpg, publish, publishers, row, backfill, backfills,
          touched, render, card, faults, excuses>>
files      == <<json, jpg>>
tasks      == <<analyze, pods, publish, publishers>>
backfilled == <<backfill, backfills>>
notifier   == <<render, card>>

Rows == [status : {"none"} \cup Verdicts, image : Images]

TypeOK ==
  /\ analyze \in [state : {"running", "succeeded", "failed"}, attempt : Attempts,
                  verdict : {"none"} \cup Verdicts]
  /\ pods \in [Attempts -> [at : {"scan", "open", "write", "json", "done", "gone"},
                            verdict : {"none"} \cup Verdicts]]
  /\ json \in [of : 0..(Retries + 1), verdict : {"none"} \cup Verdicts]
  /\ jpg \in Images
  /\ publish \in [state : {"absent", "waiting", "running", "succeeded", "failed"},
                  attempt : Attempts]
  /\ publishers \in [Attempts -> [at : {"start", "image", "save", "done", "failed", "gone"},
                                  image : Images]]
  /\ row \in Rows
  /\ backfill \in [at : {"idle", "json", "image", "save"}, listed : Rows, early : BOOLEAN,
                   image : Images]
  /\ backfills \in 0..MaxBackfills
  /\ touched \in BOOLEAN
  /\ render \in [at : {"idle", "file"}, wanted : Rows]
  /\ card \in Images
  /\ faults \in 0..MaxFaults
  /\ excuses \subseteq {"abandoned", "early", "overtaken", "upload"}

Unpublished == [status |-> "none", image |-> NoImage]
NoBackfill  == [at |-> "idle", listed |-> Unpublished, early |-> FALSE, image |-> NoImage]

\* A round whose workflow is at work.
Running ==
  /\ analyze = [state |-> "running", attempt |-> 1, verdict |-> "none"]
  /\ json = [of |-> 0, verdict |-> "none"]
  /\ jpg = NoImage
  /\ publish = [state |-> "waiting", attempt |-> 1]

\* A round of before the columns existed, whose workflow had no analyze-publish.
\* Where no panel was found, the picture of an earlier attempt may have been left.
Legacy ==
  /\ \E verdict \in Verdicts :
       /\ analyze = [state |-> "succeeded", attempt |-> 1, verdict |-> verdict]
       /\ json = [of |-> 1, verdict |-> verdict]
       /\ \/ jpg = [of |-> 1, whole |-> TRUE]
          \/ jpg = NoImage /\ verdict = "INVALID"
  /\ publish = [state |-> "absent", attempt |-> 1]

Init ==
  /\ Running \/ Legacy
  /\ pods = [a \in Attempts |->
               [at |-> IF a = 1 /\ analyze.state = "running" THEN "scan" ELSE "gone",
                verdict |-> "none"]]
  /\ publishers = [a \in Attempts |-> [at |-> "gone", image |-> NoImage]]
  /\ row = Unpublished
  /\ backfill = NoBackfill /\ backfills = 0
  /\ touched = FALSE
  /\ render = [at |-> "idle", wanted |-> Unpublished]
  /\ card = NoImage
  /\ faults = 0 /\ excuses = {}

Fault == faults < MaxFaults /\ faults' = faults + 1

Excuse(when, what) == excuses' = excuses \cup (IF when THEN {what} ELSE {})

TriesLeft(task) == task.attempt <= Retries

\* retryStrategy: another pod, or the task has failed.
Again(task) ==
  IF TriesLeft(task) THEN [task EXCEPT !.attempt = @ + 1] ELSE [task EXCEPT !.state = "failed"]

-----------------------------------------------------------------------------
(* analyze-job                                                             *)

\* The detectors' verdict.  Nothing is written to the round's directory before it.
Detect(a) ==
  /\ pods[a].at = "scan"
  /\ \E verdict \in Verdicts :
       pods' = [pods EXCEPT ![a] = [at |-> IF verdict = "CONFIRMED" THEN "open" ELSE "json",
                                    verdict |-> verdict]]
  /\ UNCHANGED <<analyze, files, publish, publishers, row, backfilled, touched, notifier,
                 faults, excuses>>

\* cv2.imwrite writes over the file that is there.
OpenImage(a) ==
  /\ pods[a].at = "open"
  /\ jpg' = [of |-> a, whole |-> FALSE]
  /\ pods' = [pods EXCEPT ![a].at = "write"]
  /\ UNCHANGED <<analyze, json, publish, publishers, row, backfilled, touched, notifier,
                 faults, excuses>>

\* Two pods that write together leave a mixture.
WriteImage(a) ==
  /\ pods[a].at = "write"
  /\ jpg' = [jpg EXCEPT !.whole = jpg.of = a]
  /\ pods' = [pods EXCEPT ![a].at = "json"]
  /\ UNCHANGED <<analyze, json, publish, publishers, row, backfilled, touched, notifier,
                 faults, excuses>>

\* atomic_write_json, after the OCR.
WriteJson(a) ==
  /\ pods[a].at = "json"
  /\ json' = [of |-> a, verdict |-> pods[a].verdict]
  /\ pods' = [pods EXCEPT ![a].at = "done"]
  /\ UNCHANGED <<analyze, jpg, publish, publishers, row, backfilled, touched, notifier,
                 faults, excuses>>

\* Argo collects the outputs.
FinishAnalyze ==
  /\ analyze.state = "running" /\ pods[analyze.attempt].at = "done"
  /\ analyze' = [analyze EXCEPT !.state = "succeeded", !.verdict = pods[analyze.attempt].verdict]
  /\ UNCHANGED <<pods, files, publish, publishers, row, backfilled, touched, notifier,
                 faults, excuses>>

\* ffmpeg, the writing of a file or the OCR fails: exit code 1 is not tried again.
FailAnalyze ==
  /\ analyze.state = "running" /\ pods[analyze.attempt].at # "done"
  /\ Fault
  /\ analyze' = [analyze EXCEPT !.state = "failed"]
  /\ pods' = [pods EXCEPT ![analyze.attempt].at = "gone"]
  /\ UNCHANGED <<files, publish, publishers, row, backfilled, touched, notifier, excuses>>

\* Argo gives up the pod, which is gone or goes on where its node cannot be reached.
LoseAnalyze(goesOn) ==
  /\ analyze.state = "running"
  /\ Fault
  /\ analyze' = Again(analyze)
  /\ pods' = [a \in Attempts |->
                IF a = analyze.attempt + 1 THEN [at |-> "scan", verdict |-> "none"]
                ELSE IF a = analyze.attempt /\ ~goesOn THEN [pods[a] EXCEPT !.at = "gone"]
                ELSE pods[a]]
  /\ Excuse(goesOn, "abandoned")
  /\ UNCHANGED <<files, publish, publishers, row, backfilled, touched, notifier>>

-----------------------------------------------------------------------------
(* analyze-publish                                                         *)

NewPublisher == [at |-> "start", image |-> NoImage]

StartPublish ==
  /\ publish.state = "waiting" /\ analyze.state = "succeeded"
  /\ publish' = [publish EXCEPT !.state = "running"]
  /\ publishers' = [publishers EXCEPT ![1] = NewPublisher]
  /\ UNCHANGED <<analyze, pods, files, row, backfilled, touched, notifier, faults, excuses>>

ToStep(p, step) == publishers' = [publishers EXCEPT ![p].at = step]

\* A verdict other than CONFIRMED needs no files; otherwise round.json must agree.
ReadJson(p) ==
  /\ publishers[p].at = "start"
  /\ ToStep(p, CASE analyze.verdict # "CONFIRMED" -> "save"
                 [] json.verdict = "CONFIRMED" -> "image"
                 [] OTHER -> "failed")
  /\ UNCHANGED <<analyze, pods, files, publish, row, backfilled, touched, notifier,
                 faults, excuses>>

\* DecodeConfig looks at the header, so a torn picture may pass.
ReadImage(p) ==
  /\ publishers[p].at = "image"
  /\ \/ jpg # NoImage /\ publishers' = [publishers EXCEPT ![p] = [at |-> "save", image |-> jpg]]
     \/ ~jpg.whole /\ ToStep(p, "failed")
  /\ UNCHANGED <<analyze, pods, files, publish, row, backfilled, touched, notifier,
                 faults, excuses>>

\* Faulty variant: a rejected panel only changes the status.
PublishedStatusOnly(image) ==
  [row EXCEPT !.status = analyze.verdict, !.image = IF image = NoImage THEN @ ELSE image]

\* Path, checksum and settlement_ready_at are set or cleared together.
Published(image) == [status |-> analyze.verdict, image |-> image]

SaveRow(p) ==
  /\ publishers[p].at = "save"
  /\ row' = Published(publishers[p].image)
  /\ touched' = TRUE
  /\ ToStep(p, "done")
  /\ UNCHANGED <<analyze, pods, files, publish, backfilled, notifier, faults, excuses>>

\* PostgreSQL or the volume fails.
FailPublisher(p) ==
  /\ publishers[p].at \in {"start", "image", "save"}
  /\ Fault
  /\ ToStep(p, "failed")
  /\ UNCHANGED <<analyze, pods, files, publish, row, backfilled, touched, notifier, excuses>>

FinishPublish ==
  /\ publish.state = "running" /\ publishers[publish.attempt].at = "done"
  /\ publish' = [publish EXCEPT !.state = "succeeded"]
  /\ UNCHANGED <<analyze, pods, publishers, files, row, backfilled, touched, notifier,
                 faults, excuses>>

NextPublisher(goesOn) ==
  /\ publish' = Again(publish)
  /\ publishers' = [p \in Attempts |->
                      IF p = publish.attempt + 1 THEN NewPublisher
                      ELSE IF p = publish.attempt /\ ~goesOn
                        THEN [publishers[p] EXCEPT !.at = "gone"]
                      ELSE publishers[p]]
  /\ UNCHANGED <<analyze, pods, files, row, backfilled, touched, notifier, excuses>>

\* Every error is exit code 75.
RetryPublish ==
  /\ publish.state = "running" /\ publishers[publish.attempt].at = "failed"
  /\ NextPublisher(FALSE)
  /\ UNCHANGED faults

LosePublish(goesOn) ==
  /\ publish.state = "running"
  /\ Fault
  /\ NextPublisher(goesOn)

-----------------------------------------------------------------------------
(* BackfillArtifactReadiness                                               *)

\* All rounds are listed first; this one comes up some time later.
ListRounds ==
  /\ backfill.at = "idle" /\ backfills < MaxBackfills
  /\ backfills' = backfills + 1
  /\ backfill' = [NoBackfill EXCEPT !.at = IF row.image = NoImage THEN "json" ELSE "idle",
                                    !.listed = row,
                                    !.early = publish.state \in {"waiting", "running"}]
  /\ UNCHANGED <<tasks, files, row, touched, notifier, faults, excuses>>

\* Faulty variant: a picture in the directory is enough.
ConfirmedByImage == jpg # NoImage

Confirmed == json.verdict = "CONFIRMED"

BackfillJson ==
  /\ backfill.at = "json"
  /\ backfill' = [backfill EXCEPT !.at = IF Confirmed THEN "image" ELSE "idle"]
  /\ UNCHANGED <<tasks, files, row, backfills, touched, notifier, faults, excuses>>

\* An empty file is left alone, a torn one is not noticed.
BackfillImage ==
  /\ backfill.at = "image"
  /\ \/ jpg # NoImage /\ backfill' = [backfill EXCEPT !.at = "save", !.image = jpg]
     \/ ~jpg.whole /\ backfill' = [backfill EXCEPT !.at = "idle"]
  /\ UNCHANGED <<tasks, files, row, backfills, touched, notifier, faults, excuses>>

BackfillSave ==
  /\ backfill.at = "save"
  /\ row' = [status |-> "CONFIRMED", image |-> backfill.image]
  /\ touched' = TRUE
  /\ backfill' = NoBackfill
  /\ excuses' = excuses
       \cup (IF backfill.early THEN {"early"} ELSE {})
       \cup (IF row # backfill.listed THEN {"overtaken"} ELSE {})
  /\ UNCHANGED <<tasks, files, backfills, notifier, faults>>

\* The pod is lost or PostgreSQL fails; Kubernetes starts it again.
FailBackfill ==
  /\ backfill.at # "idle"
  /\ Fault
  /\ backfill' = NoBackfill
  /\ backfills' = backfills - 1
  /\ UNCHANGED <<tasks, files, row, touched, notifier, excuses>>

-----------------------------------------------------------------------------
(* lark-notifier                                                           *)

\* The row is in the window of a scan, or the card is rendered for another reason.
ReadRow ==
  /\ render.at = "idle"
  /\ render' = [at |-> "file", wanted |-> row]
  /\ touched' = FALSE
  /\ UNCHANGED <<tasks, files, row, backfilled, card, faults, excuses>>

\* Faulty variant: the picture found by its path is shown whatever the row says.
ShowsAnyImage(wanted) == TRUE

Shows(wanted) == wanted.status = "CONFIRMED" /\ wanted.image # NoImage

\* roundSettlementImageKey reads the file by its path.  Lark may refuse a torn picture.
ShowPanel ==
  /\ render.at = "file"
  /\ IF Shows(render.wanted)
     THEN card' \in {jpg} \cup (IF jpg.whole THEN {} ELSE {NoImage})
     ELSE card' = NoImage
  /\ render' = [render EXCEPT !.at = "idle"]
  /\ UNCHANGED <<tasks, files, row, backfilled, touched, faults, excuses>>

\* The upload fails: the card is delivered without the picture.
FailImageUpload ==
  /\ render.at = "file" /\ Shows(render.wanted)
  /\ Fault
  /\ card' = NoImage
  /\ render' = [render EXCEPT !.at = "idle"]
  /\ Excuse(TRUE, "upload")
  /\ UNCHANGED <<tasks, files, row, backfilled, touched>>

-----------------------------------------------------------------------------
AnalyzePod(a) == Detect(a) \/ OpenImage(a) \/ WriteImage(a) \/ WriteJson(a)
Publisher(p)  == ReadJson(p) \/ ReadImage(p) \/ SaveRow(p)

Argo     == FinishAnalyze \/ StartPublish \/ FinishPublish \/ RetryPublish
Backfill == BackfillJson \/ BackfillImage \/ BackfillSave

\* What a scan does for a row that has changed.
Notifier == (touched /\ ReadRow) \/ ShowPanel

Mishap ==
  \/ FailAnalyze \/ FailBackfill \/ FailImageUpload
  \/ \E goesOn \in BOOLEAN : LoseAnalyze(goesOn) \/ LosePublish(goesOn)
  \/ \E p \in Attempts : FailPublisher(p)

Next ==
  \/ \E a \in Attempts : AnalyzePod(a) \/ Publisher(a)
  \/ Argo \/ ListRounds \/ Backfill \/ ReadRow \/ ShowPanel
  \/ Mishap

\* Pods run on, Argo and the ten-second ticker of the notifier go on.
Fairness ==
  /\ \A a \in Attempts : WF_vars(AnalyzePod(a)) /\ WF_vars(Publisher(a))
  /\ WF_vars(Argo) /\ WF_vars(Backfill) /\ WF_vars(Notifier)

Spec == Init /\ [][Next]_vars /\ Fairness

-----------------------------------------------------------------------------
Panel == IF analyze.verdict = "CONFIRMED" THEN jpg ELSE NoImage

\* Whoever was to complete the row has done so.
Completed ==
  \/ publish.state = "succeeded"
  \/ publish.state = "absent" /\ backfills > 0 /\ backfill.at = "idle"

(***************************************************************************)
(* When PublishAnalyzeResult has succeeded, or the backfill has been over  *)
(* an old round, the row has the verdict of the analysis and, if the panel *)
(* was found, the whole picture that is in the directory; whatever earlier *)
(* attempts or a backfill that came too early had left.  Exceptions: an    *)
(* abandoned analysis, and a backfill that writes over a row published     *)
(* since it listed it.                                                     *)
(***************************************************************************)
VerdictPublished ==
  Completed /\ excuses \cap {"abandoned", "overtaken"} = {} =>
    /\ row.image = Panel
    /\ row.status = "CONFIRMED" <=> analyze.verdict = "CONFIRMED"
    /\ analyze.verdict = "CONFIRMED" => jpg.whole /\ json.of = jpg.of

(***************************************************************************)
(* roundSettlementImageKey never puts a torn picture on the card, nor that *)
(* of a rejected attempt, unless an analysis was abandoned or a backfill   *)
(* wrote a row that it had listed while the workflow was at work on the    *)
(* round.                                                                  *)
(***************************************************************************)
CardShowsPanel ==
  excuses \cap {"abandoned", "early"} = {} =>
    card = NoImage \/ (card = Panel /\ card.whole)

(***************************************************************************)
(* Once the row is complete the card ends up showing the panel, or none if *)
(* none was found.  Exceptions as above, and a failed upload of the        *)
(* picture: the card has been delivered, and nothing brings it back.       *)
(***************************************************************************)
PanelReachesCard ==
  <>[](Completed /\ excuses \cap {"abandoned", "overtaken", "upload"} = {} => card = Panel)
=============================================================================
