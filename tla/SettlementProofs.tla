-------------------------- MODULE SettlementProofs --------------------------
(***************************************************************************)
(* Proofs about Settlement, for any number of retries, backfills and       *)
(* faults: the types, what a published row says and what the card shows.   *)
(***************************************************************************)
EXTENDS Settlement, TLAPS

-----------------------------------------------------------------------------
(* Types                                                                   *)

Steps      == {"scan", "open", "write", "json", "done", "gone"}
Outputs    == {"none"} \cup Verdicts
Analyses   == [state : {"running", "succeeded", "failed"}, attempt : Attempts, verdict : Outputs]
Publishes  == [state : {"absent", "waiting", "running", "succeeded", "failed"}, attempt : Attempts]
Publishers == [at : {"start", "image", "save", "done", "failed", "gone"}, image : Images]
Backfills  == [at : {"idle", "json", "image", "save"}, listed : Rows, early : BOOLEAN,
               image : Images]

AnalyzeTypes ==
  /\ analyze \in Analyses /\ pods \in [Attempts -> [at : Steps, verdict : Outputs]]
  /\ json \in [of : 0..(Retries + 1), verdict : Outputs] /\ jpg \in Images

PublishTypes == publish \in Publishes /\ publishers \in [Attempts -> Publishers]

RestTypes ==
  /\ row \in Rows /\ backfill \in Backfills /\ backfills \in 0..MaxBackfills
  /\ touched \in BOOLEAN /\ render \in [at : {"idle", "file"}, wanted : Rows]
  /\ card \in Images /\ (backfill.at # "idle" => backfills > 0)
  /\ faults \in 0..MaxFaults /\ excuses \subseteq {"abandoned", "early", "overtaken", "upload"}

\* A backfill that is at work has begun.
Begun == backfill.at # "idle" => backfills > 0

LEMMA TypesSplit == TypeOK /\ Begun <=> AnalyzeTypes /\ PublishTypes /\ RestTypes
BY DEF Begun, TypeOK, AnalyzeTypes, PublishTypes, RestTypes, Steps, Outputs, Analyses, Publishes,
       Publishers, Backfills

LEMMA Basics ==
  /\ 1 \in Attempts /\ NoImage \in Images /\ Unpublished \in Rows
  /\ Attempts \subseteq 1..(Retries + 1) /\ NoBackfill \in Backfills
BY SettlementAssumption DEF Attempts, Images, NoImage, Unpublished, Rows, NoBackfill, Backfills

LEMMA AgainType ==
  /\ analyze \in Analyses => Again(analyze) \in Analyses
  /\ publish \in Publishes => Again(publish) \in Publishes
<1>1. \A n \in Attempts : n <= Retries => n + 1 \in Attempts
  BY SettlementAssumption DEF Attempts
<1>2. analyze \in Analyses => Again(analyze) \in Analyses
  BY <1>1 DEF Again, TriesLeft, Analyses
<1>3. publish \in Publishes => Again(publish) \in Publishes
  BY <1>1 DEF Again, TriesLeft, Publishes
<1> QED
  BY <1>2, <1>3

LEMMA FaultType ==
  ASSUME faults \in 0..MaxFaults, Fault
  PROVE  faults' \in 0..MaxFaults
BY SettlementAssumption DEF Fault

LEMMA AnalyzePodTypes ==
  ASSUME AnalyzeTypes, NEW a \in Attempts, AnalyzePod(a)
  PROVE  AnalyzeTypes' /\ UNCHANGED <<publish, publishers, row, backfilled, touched, notifier,
                                      faults, excuses>>
<1>1. \A whole \in BOOLEAN : [of |-> a, whole |-> whole] \in Images
  BY Basics DEF Images
<1>2. a \in 0..(Retries + 1)
  BY SettlementAssumption DEF Attempts
<1>3. CASE Detect(a)
  BY <1>3 DEF Detect, AnalyzeTypes, Steps, Outputs, files
<1>4. CASE OpenImage(a)
  BY <1>1, <1>4 DEF OpenImage, AnalyzeTypes, Steps
<1>5. CASE WriteImage(a)
  <2> DEFINE own == jpg.of = a
  <2>1. own \in BOOLEAN /\ jpg' = [jpg EXCEPT !.whole = own]
    BY <1>5 DEF WriteImage
  <2> HIDE DEF own
  <2>2. jpg' \in Images
    BY <2>1 DEF AnalyzeTypes, Images
  <2> QED
    BY <1>5, <2>2 DEF WriteImage, AnalyzeTypes, Steps
<1>6. CASE WriteJson(a)
  BY <1>2, <1>6 DEF WriteJson, AnalyzeTypes, Steps
<1> QED
  BY <1>3, <1>4, <1>5, <1>6 DEF AnalyzePod

LEMMA AnalyzeTaskTypes ==
  ASSUME AnalyzeTypes, faults \in 0..MaxFaults,
         FinishAnalyze \/ FailAnalyze \/ \E goesOn \in BOOLEAN : LoseAnalyze(goesOn)
  PROVE  /\ AnalyzeTypes' /\ faults' \in 0..MaxFaults
         /\ excuses' \in {excuses, excuses \cup {"abandoned"}}
         /\ UNCHANGED <<files, publish, publishers, row, backfilled, touched, notifier>>
<1>1. CASE FinishAnalyze
  BY <1>1 DEF FinishAnalyze, AnalyzeTypes, Analyses, files
<1>2. CASE FailAnalyze
  BY <1>2, FaultType DEF FailAnalyze, AnalyzeTypes, Analyses, Steps, files
<1>3. ASSUME NEW goesOn \in BOOLEAN, LoseAnalyze(goesOn)
      PROVE  /\ AnalyzeTypes' /\ faults' \in 0..MaxFaults
             /\ excuses' \in {excuses, excuses \cup {"abandoned"}}
             /\ UNCHANGED <<files, publish, publishers, row, backfilled, touched, notifier>>
  <2>1. analyze' \in Analyses /\ faults' \in 0..MaxFaults
    BY <1>3, AgainType, FaultType DEF LoseAnalyze, AnalyzeTypes
  <2>2. pods' \in [Attempts -> [at : Steps, verdict : Outputs]]
    BY <1>3 DEF LoseAnalyze, AnalyzeTypes, Steps, Outputs
  <2>3. excuses' \in {excuses, excuses \cup {"abandoned"}}
    BY <1>3 DEF LoseAnalyze, Excuse
  <2> QED
    BY <1>3, <2>1, <2>2, <2>3 DEF LoseAnalyze, AnalyzeTypes, files
<1> QED
  BY <1>1, <1>2, <1>3

LEMMA PublishedType ==
  ASSUME AnalyzeTypes, NEW image \in Images
  PROVE  Published(image) \in Rows
BY DEF AnalyzeTypes, Analyses, Outputs, Published, Rows

LEMMA PublisherTypes ==
  ASSUME AnalyzeTypes, PublishTypes, RestTypes, NEW p \in Attempts,
         Publisher(p) \/ FailPublisher(p)
  PROVE  PublishTypes' /\ RestTypes'
<1>1. CASE ReadJson(p)
  BY <1>1 DEF ReadJson, ToStep, PublishTypes, Publishers, RestTypes, backfilled, notifier
<1>2. CASE ReadImage(p)
  BY <1>2 DEF ReadImage, ToStep, AnalyzeTypes, PublishTypes, Publishers, RestTypes,
              backfilled, notifier
<1>3. CASE SaveRow(p)
  <2>1. row' \in Rows
    BY <1>3, PublishedType DEF SaveRow, PublishTypes, Publishers
  <2> QED
    BY <1>3, <2>1 DEF SaveRow, ToStep, PublishTypes, Publishers, RestTypes, backfilled,
                      notifier
<1>4. CASE FailPublisher(p)
  <2>1. faults' \in 0..MaxFaults
    BY <1>4, FaultType DEF FailPublisher, RestTypes
  <2> QED
    BY <1>4, <2>1 DEF FailPublisher, ToStep, PublishTypes, Publishers, RestTypes, backfilled,
                      notifier
<1> QED
  BY <1>1, <1>2, <1>3, <1>4 DEF Publisher

PublishStep ==
  StartPublish \/ FinishPublish \/ RetryPublish \/ \E goesOn \in BOOLEAN : LosePublish(goesOn)

LEMMA PublishTaskTypes ==
  ASSUME PublishTypes, RestTypes, PublishStep
  PROVE  PublishTypes' /\ RestTypes'
<1>1. NewPublisher \in Publishers
  BY Basics DEF NewPublisher, Publishers
<1>2. CASE StartPublish
  BY <1>1, <1>2 DEF StartPublish, PublishTypes, Publishes, RestTypes, backfilled, notifier
<1>3. CASE FinishPublish
  BY <1>3 DEF FinishPublish, PublishTypes, Publishes, RestTypes, backfilled, notifier
<1>4. ASSUME NEW goesOn \in BOOLEAN, NextPublisher(goesOn)
      PROVE  PublishTypes'
  <2>1. publish' \in Publishes
    BY <1>4, AgainType DEF NextPublisher, PublishTypes
  <2>2. publishers' \in [Attempts -> Publishers]
    BY <1>1, <1>4 DEF NextPublisher, PublishTypes, Publishers
  <2> QED
    BY <2>1, <2>2 DEF PublishTypes
<1>5. CASE RetryPublish
  <2>1. NextPublisher(FALSE) /\ UNCHANGED faults
    BY <1>5 DEF RetryPublish
  <2> QED
    BY <1>4, <2>1 DEF NextPublisher, RestTypes, backfilled, notifier
<1>6. ASSUME NEW goesOn \in BOOLEAN, LosePublish(goesOn)
      PROVE  PublishTypes' /\ RestTypes'
  <2>1. NextPublisher(goesOn) /\ faults' \in 0..MaxFaults
    BY <1>6, FaultType DEF LosePublish, RestTypes
  <2> QED
    BY <1>4, <2>1 DEF NextPublisher, RestTypes, backfilled, notifier
<1> QED
  BY <1>2, <1>3, <1>5, <1>6 DEF PublishStep

BackfillStep == ListRounds \/ Backfill \/ FailBackfill

LEMMA BackfillTypes ==
  ASSUME AnalyzeTypes, RestTypes, BackfillStep
  PROVE  RestTypes'
<1> USE DEF RestTypes, notifier
<1>1. CASE ListRounds
  <2> DEFINE early == publish.state \in {"waiting", "running"}
             at    == IF row.image = NoImage THEN "json" ELSE "idle"
  <2>1. backfill' = [NoBackfill EXCEPT !.at = at, !.listed = row, !.early = early]
    BY <1>1 DEF ListRounds
  <2>2. early \in BOOLEAN
    OBVIOUS
  <2> HIDE DEF early
  <2>3. backfill' \in Backfills
    BY <2>1, <2>2, Basics DEF Backfills
  <2>4. backfills' \in 0..MaxBackfills /\ backfills' > 0
    BY <1>1, SettlementAssumption DEF ListRounds
  <2> QED
    BY <1>1, <2>3, <2>4 DEF ListRounds
<1>2. CASE BackfillJson
  BY <1>2 DEF BackfillJson, Backfills
<1>3. CASE BackfillImage
  BY <1>3 DEF BackfillImage, Backfills, AnalyzeTypes
<1>4. CASE BackfillSave
  <2>1. row' \in Rows
    BY <1>4 DEF BackfillSave, Backfills, Rows, Verdicts
  <2>2. excuses' \subseteq {"abandoned", "early", "overtaken", "upload"}
    BY <1>4 DEF BackfillSave
  <2> QED
    BY <1>4, <2>1, <2>2, Basics DEF BackfillSave
<1>5. CASE FailBackfill
  <2>1. NoBackfill.at = "idle" /\ backfills' \in 0..MaxBackfills
    BY <1>5, SettlementAssumption DEF FailBackfill, NoBackfill
  <2> QED
    BY <1>5, <2>1, FaultType, Basics DEF FailBackfill
<1> QED
  BY <1>1, <1>2, <1>3, <1>4, <1>5 DEF BackfillStep, Backfill

NotifierStep == ReadRow \/ ShowPanel \/ FailImageUpload

LEMMA NotifierTypes ==
  ASSUME AnalyzeTypes, RestTypes, NotifierStep
  PROVE  RestTypes'
<1> USE DEF RestTypes, backfilled
<1>1. CASE ReadRow
  BY <1>1 DEF ReadRow
<1>2. CASE ShowPanel
  BY <1>2, Basics DEF ShowPanel, AnalyzeTypes
<1>3. CASE FailImageUpload
  BY <1>3, FaultType, Basics DEF FailImageUpload, Excuse
<1> QED
  BY <1>1, <1>2, <1>3 DEF NotifierStep

\* The steps by what they change.
AnalyzeStep ==
  \/ \E a \in Attempts : AnalyzePod(a)
  \/ FinishAnalyze \/ FailAnalyze \/ \E goesOn \in BOOLEAN : LoseAnalyze(goesOn)

PublisherStep == \E p \in Attempts : Publisher(p) \/ FailPublisher(p)

LEMMA NextSplit ==
  ASSUME Next
  PROVE  AnalyzeStep \/ PublisherStep \/ PublishStep \/ BackfillStep \/ NotifierStep
BY DEF Next, Argo, Mishap, AnalyzeStep, PublisherStep, PublishStep, BackfillStep, NotifierStep

LEMMA Untouched ==
  /\ PublisherStep => UNCHANGED <<analyze, pods, files, publish, backfilled, notifier, excuses>>
  /\ PublishStep => UNCHANGED <<analyze, pods, files, row, backfilled, notifier, excuses>>
  /\ BackfillStep => UNCHANGED <<tasks, files, notifier>>
  /\ NotifierStep => UNCHANGED <<tasks, files, row, backfilled>>
<1>1. PublisherStep => UNCHANGED <<analyze, pods, files, publish, backfilled, notifier, excuses>>
  BY DEF PublisherStep, Publisher, ReadJson, ReadImage, SaveRow, FailPublisher
<1>2. PublishStep => UNCHANGED <<analyze, pods, files, row, backfilled, notifier, excuses>>
  BY DEF PublishStep, StartPublish, FinishPublish, RetryPublish, LosePublish, NextPublisher
<1>3. BackfillStep => UNCHANGED <<tasks, files, notifier>>
  BY DEF BackfillStep, ListRounds, Backfill, BackfillJson, BackfillImage, BackfillSave,
         FailBackfill
<1>4. NotifierStep => UNCHANGED <<tasks, files, row, backfilled>>
  BY DEF NotifierStep, ReadRow, ShowPanel, FailImageUpload
<1> QED
  BY <1>1, <1>2, <1>3, <1>4

LEMMA TypeStep ==
  ASSUME TypeOK /\ Begun, [Next]_vars
  PROVE  (TypeOK /\ Begun)'
<1>0. AnalyzeTypes /\ PublishTypes /\ RestTypes
  BY TypesSplit
<1> SUFFICES AnalyzeTypes' /\ PublishTypes' /\ RestTypes'
  BY TypesSplit, PTL
<1>1. CASE AnalyzeStep
  <2>1. /\ AnalyzeTypes' /\ faults' \in 0..MaxFaults
        /\ excuses' \in {excuses, excuses \cup {"abandoned"}}
        /\ UNCHANGED <<publish, publishers, row, backfilled, touched, notifier>>
    BY <1>0, <1>1, AnalyzePodTypes, AnalyzeTaskTypes DEF AnalyzeStep, RestTypes
  <2> QED
    BY <1>0, <2>1 DEF PublishTypes, RestTypes, backfilled, notifier
<1>2. CASE PublisherStep
  <2>1. AnalyzeTypes'
    BY <1>0, <1>2, Untouched DEF AnalyzeTypes, files
  <2> QED
    BY <1>0, <1>2, <2>1, PublisherTypes DEF PublisherStep
<1>3. CASE PublishStep
  <2>1. AnalyzeTypes'
    BY <1>0, <1>3, Untouched DEF AnalyzeTypes, files
  <2> QED
    BY <1>0, <1>3, <2>1, PublishTaskTypes
<1>4. CASE BackfillStep
  <2>1. AnalyzeTypes' /\ PublishTypes'
    BY <1>0, <1>4, Untouched DEF AnalyzeTypes, PublishTypes, files, tasks
  <2> QED
    BY <1>0, <1>4, <2>1, BackfillTypes
<1>5. CASE NotifierStep
  <2>1. AnalyzeTypes' /\ PublishTypes'
    BY <1>0, <1>5, Untouched DEF AnalyzeTypes, PublishTypes, files, tasks
  <2> QED
    BY <1>0, <1>5, <2>1, NotifierTypes
<1>6. CASE UNCHANGED vars
  BY <1>0, <1>6 DEF vars, AnalyzeTypes, PublishTypes, RestTypes
<1> QED
  BY <1>1, <1>2, <1>3, <1>4, <1>5, <1>6, NextSplit

LEMMA TypeInit == Init => TypeOK /\ Begun
<1> SUFFICES ASSUME Init PROVE AnalyzeTypes /\ PublishTypes /\ RestTypes
  BY TypesSplit
<1>1. [of |-> 1, whole |-> TRUE] \in Images
  BY Basics DEF Images
<1>2. AnalyzeTypes
  <2>1. CASE Running
    BY <2>1, Basics, SettlementAssumption
    DEF Init, Running, AnalyzeTypes, Analyses, Outputs, Steps, Verdicts
  <2>2. CASE Legacy
    <3>1. PICK verdict \in Verdicts :
            /\ analyze = [state |-> "succeeded", attempt |-> 1, verdict |-> verdict]
            /\ json = [of |-> 1, verdict |-> verdict]
            /\ jpg \in Images
      BY <1>1, <2>2, Basics DEF Legacy
    <3>2. analyze \in Analyses /\ json \in [of : 0..(Retries + 1), verdict : Outputs]
      BY <3>1, Basics, SettlementAssumption DEF Analyses, Outputs
    <3>3. pods \in [Attempts -> [at : Steps, verdict : Outputs]]
      BY DEF Init, Steps, Outputs
    <3> QED
      BY <3>1, <3>2, <3>3 DEF AnalyzeTypes
  <2> QED
    BY <2>1, <2>2 DEF Init
<1>3. PublishTypes
  BY Basics DEF Init, Running, Legacy, PublishTypes, Publishes, Publishers
<1>4. RestTypes
  <2>1. backfill = NoBackfill /\ backfill.at = "idle"
    BY DEF Init, NoBackfill
  <2>2. render \in [at : {"idle", "file"}, wanted : Rows]
    BY Basics DEF Init
  <2>3. /\ row = Unpublished /\ backfills = 0 /\ touched = FALSE /\ card = NoImage
        /\ faults = 0 /\ excuses = {}
    BY DEF Init
  <2>4. row \in Rows /\ card \in Images /\ backfill \in Backfills
    BY <2>1, <2>3, Basics
  <2>5. backfills \in 0..MaxBackfills /\ faults \in 0..MaxFaults
    BY <2>3, SettlementAssumption
  <2>6. touched \in BOOLEAN /\ excuses \subseteq {"abandoned", "early", "overtaken", "upload"}
    BY <2>3
  <2> QED
    BY <2>1, <2>2, <2>4, <2>5, <2>6 DEF RestTypes
<1> QED
  BY <1>2, <1>3, <1>4

(***************************************************************************)
(* Tasks, pods, files, row and card have their types.                      *)
(***************************************************************************)
THEOREM SettlementTypes == Spec => []TypeOK
<1>1. Init => TypeOK /\ Begun
  BY TypeInit
<1>2. TypeOK /\ Begun /\ [Next]_vars => (TypeOK /\ Begun)'
  BY TypeStep
<1> QED
  BY <1>1, <1>2, PTL DEF Spec

-----------------------------------------------------------------------------
(* The invariant, of runs in which no analysis was abandoned               *)

\* Only the pod that Argo watches is there.
OnePod ==
  \A a \in Attempts :
    pods[a].at # "gone" =>
      /\ a = analyze.attempt /\ analyze.state # "failed"
      /\ analyze.state = "succeeded" => pods[a].at = "done"

\* What that pod has left in the directory.
Left ==
  \A a \in Attempts :
    /\ pods[a].at \in {"open", "write"} => pods[a].verdict = "CONFIRMED"
    /\ pods[a].at \in {"json", "done"} => pods[a].verdict \in Verdicts
    /\ pods[a].at = "write" => jpg.of = a
    /\ pods[a].at \in {"json", "done"} /\ pods[a].verdict = "CONFIRMED" =>
         jpg.of = a /\ jpg.whole
    /\ pods[a].at = "done" => json = [of |-> a, verdict |-> pods[a].verdict]

Seen == analyze.state = "succeeded" /\ analyze.verdict = "CONFIRMED"

\* What a finished analysis has left.
Final ==
  analyze.state = "succeeded" =>
    /\ analyze.verdict \in Verdicts /\ json.verdict = analyze.verdict
    /\ analyze.verdict = "CONFIRMED" => jpg.whole /\ jpg.of \in Attempts /\ json.of = jpg.of

Analysis == OnePod /\ Left /\ Final

Publishing ==
  /\ publish.state # "waiting" => analyze.state = "succeeded"
  /\ publish.state = "succeeded" => publishers[publish.attempt].at = "done"
  /\ \A p \in Attempts :
       /\ publishers[p].at # "gone" => publish.state \notin {"waiting", "absent"}
       /\ publishers[p].at \in {"start", "image"} => publishers[p].image = NoImage
       /\ publishers[p].at = "image" => analyze.verdict = "CONFIRMED"
       /\ publishers[p].at = "save" => publishers[p].image = Panel

RowInv ==
  /\ row.status = "CONFIRMED" <=> row.image # NoImage
  /\ row.status = "INVALID" => analyze.state = "succeeded" /\ analyze.verdict = "INVALID"
  /\ \A p \in Attempts : publishers[p].at = "done" =>
       /\ row.status # "none"
       /\ "overtaken" \notin excuses => row = Published(Panel)

BackfillInv ==
  /\ backfill.at # "idle" =>
       /\ backfill.listed.image = NoImage /\ backfill.listed.status # "CONFIRMED"
       /\ ~backfill.early => analyze.state = "succeeded"
       /\ publish.state = "absent" => ~backfill.early
  /\ backfill.at \in {"image", "save"} =>
       /\ backfill.listed.status = "none"
       /\ ~backfill.early => analyze.verdict = "CONFIRMED"
  /\ backfill.at # "idle" /\ backfill.listed.status = "INVALID" => 
       analyze.state = "succeeded" /\ analyze.verdict = "INVALID"
  /\ backfill.at = "save" => backfill.image # NoImage /\ (~backfill.early => backfill.image = jpg)

OldRound ==
  publish.state = "absent" =>
    /\ analyze.verdict = "INVALID" => row = Unpublished
    /\ analyze.verdict = "CONFIRMED" =>
         \/ row = Unpublished /\ backfills = IF backfill.at = "idle" THEN 0 ELSE 1
         \/ row = [status |-> "CONFIRMED", image |-> jpg] /\ backfill.at = "idle"

Shown ==
  "early" \notin excuses =>
    /\ row.image # NoImage => Seen
    /\ Shows(render.wanted) => Seen
    /\ card # NoImage => Seen /\ card = jpg

Good == Analysis /\ Publishing /\ RowInv /\ BackfillInv /\ OldRound /\ Shown

Calm == "abandoned" \notin excuses

Types == AnalyzeTypes /\ PublishTypes /\ RestTypes

LEMMA NoImageIsNone == \A image : image.of \in Attempts => image # NoImage
BY SettlementAssumption DEF Attempts, NoImage

LEMMA ExcusesGrow ==
  ASSUME Next, NEW what, what \notin excuses'
  PROVE  what \notin excuses
<1>1. CASE AnalyzeStep
  BY <1>1 DEF AnalyzeStep, AnalyzePod, Detect, OpenImage, WriteImage, WriteJson, FinishAnalyze,
              FailAnalyze, LoseAnalyze, Excuse
<1>2. CASE PublisherStep \/ PublishStep
  BY <1>2, Untouched
<1>3. CASE BackfillStep
  BY <1>3 DEF BackfillStep, ListRounds, Backfill, BackfillJson, BackfillImage, BackfillSave,
              FailBackfill
<1>4. CASE NotifierStep
  BY <1>4 DEF NotifierStep, ReadRow, ShowPanel, FailImageUpload, Excuse
<1> QED
  BY <1>1, <1>2, <1>3, <1>4, NextSplit

-----------------------------------------------------------------------------
(* The analysis                                                            *)

\* Once the task has ended, nothing is written any more.
LEMMA AnalyzeStepRuns ==
  ASSUME AnalyzeTypes, OnePod, AnalyzeStep
  PROVE  analyze.state = "running"
<1>1. ASSUME NEW a \in Attempts, AnalyzePod(a)
      PROVE  analyze.state = "running"
  <2>1. pods[a].at \notin {"gone", "done"}
    BY <1>1 DEF AnalyzePod, Detect, OpenImage, WriteImage, WriteJson
  <2> QED
    BY <2>1 DEF OnePod, AnalyzeTypes, Analyses
<1>2. CASE FinishAnalyze \/ FailAnalyze \/ \E goesOn \in BOOLEAN : LoseAnalyze(goesOn)
  BY <1>2 DEF FinishAnalyze, FailAnalyze, LoseAnalyze
<1> QED
  BY <1>1, <1>2 DEF AnalyzeStep

\* A pod at work is the watched one, and it is alone.
LEMMA PodAlone ==
  ASSUME OnePod, NEW a \in Attempts, pods[a].at # "gone"
  PROVE  a = analyze.attempt /\ \A b \in Attempts : b # a => pods[b].at = "gone"
BY DEF OnePod

LEMMA AnalysisPodStep ==
  ASSUME AnalyzeTypes, Analysis, NEW a \in Attempts, AnalyzePod(a)
  PROVE  Analysis'
<1> USE DEF Analysis
<1>1. analyze.state = "running"
  BY AnalyzeStepRuns DEF AnalyzeStep
<1>2. pods[a].at \in {"scan", "open", "write", "json"} /\ UNCHANGED analyze
  BY DEF AnalyzePod, Detect, OpenImage, WriteImage, WriteJson
<1>3. a = analyze.attempt /\ \A b \in Attempts : b # a => pods[b].at = "gone"
  BY <1>2, PodAlone
<1>4. \A b \in Attempts : b # a => pods'[b] = pods[b]
  BY DEF AnalyzePod, Detect, OpenImage, WriteImage, WriteJson, AnalyzeTypes
<1>5. OnePod'
  BY <1>1, <1>2, <1>3, <1>4 DEF OnePod
<1>6. Final'
  BY <1>1, <1>2 DEF Final
<1>7. ASSUME \/ /\ pods'[a].at = "open" /\ pods'[a].verdict = "CONFIRMED"
             \/ /\ pods'[a].at = "write" /\ pods'[a].verdict = "CONFIRMED" /\ jpg'.of = a
             \/ /\ pods'[a].at = "json" /\ pods'[a].verdict \in Verdicts
                /\ pods'[a].verdict = "CONFIRMED" => jpg'.of = a /\ jpg'.whole
             \/ /\ pods'[a].at = "done" /\ pods'[a].verdict \in Verdicts
                /\ pods'[a].verdict = "CONFIRMED" => jpg'.of = a /\ jpg'.whole
                /\ json' = [of |-> a, verdict |-> pods'[a].verdict]
      PROVE  Left'
  BY <1>3, <1>4, <1>7 DEF Left
<1>8. CASE Detect(a)
  <2>1. PICK verdict \in Verdicts :
          pods' = [pods EXCEPT ![a] = [at |-> IF verdict = "CONFIRMED" THEN "open" ELSE "json",
                                       verdict |-> verdict]]
    BY <1>8 DEF Detect
  <2>2. pods'[a] = [at |-> IF verdict = "CONFIRMED" THEN "open" ELSE "json", verdict |-> verdict]
    BY <2>1 DEF AnalyzeTypes
  <2> QED
    BY <1>5, <1>6, <1>7, <2>2
<1>9. CASE OpenImage(a)
  BY <1>5, <1>6, <1>7, <1>9 DEF OpenImage, Left, AnalyzeTypes
<1>10. CASE WriteImage(a)
  <2>1. jpg.of = a /\ pods[a].verdict = "CONFIRMED"
    BY <1>10 DEF WriteImage, Left
  <2>2. jpg'.of = a /\ jpg'.whole
    BY <1>10, <2>1 DEF WriteImage, AnalyzeTypes, Images
  <2>3. pods'[a].at = "json" /\ pods'[a].verdict = "CONFIRMED"
    BY <1>10, <2>1 DEF WriteImage, AnalyzeTypes
  <2> QED
    BY <1>5, <1>6, <1>7, <2>2, <2>3 DEF Verdicts
<1>11. CASE WriteJson(a)
  BY <1>5, <1>6, <1>7, <1>11 DEF WriteJson, Left, AnalyzeTypes
<1> QED
  BY <1>8, <1>9, <1>10, <1>11 DEF AnalyzePod

LEMMA AnalysisTaskStep ==
  ASSUME AnalyzeTypes, Analysis, Calm',
         FinishAnalyze \/ FailAnalyze \/ \E goesOn \in BOOLEAN : LoseAnalyze(goesOn)
  PROVE  Analysis'
<1> USE DEF Analysis
<1>0. analyze.attempt \in Attempts
  BY DEF AnalyzeTypes, Analyses
<1>1. CASE FinishAnalyze
  <2> DEFINE a == analyze.attempt
  <2>1. /\ pods[a].at = "done" /\ UNCHANGED <<pods, json, jpg>>
        /\ analyze' = [analyze EXCEPT !.state = "succeeded", !.verdict = pods[a].verdict]
    BY <1>1 DEF FinishAnalyze, files
  <2>2. analyze'.attempt = a /\ analyze'.state = "succeeded" /\ analyze'.verdict = pods[a].verdict
    BY <2>1 DEF AnalyzeTypes, Analyses
  <2>3. \A b \in Attempts : b # a => pods[b].at = "gone"
    BY <1>0, <2>1, PodAlone
  <2>4. OnePod'
    BY <2>1, <2>2, <2>3 DEF OnePod
  <2>5. Left'
    BY <2>1 DEF Left
  <2>6. Final'
    BY <1>0, <2>1, <2>2 DEF Left, Final
  <2> QED
    BY <2>4, <2>5, <2>6
<1>2. ASSUME \A a \in Attempts : pods'[a].at = "gone", analyze'.state # "succeeded"
      PROVE  Analysis'
  BY <1>2 DEF OnePod, Left, Final
<1>3. CASE FailAnalyze
  <2>1. \A a \in Attempts : a # analyze.attempt => pods[a].at = "gone"
    BY DEF OnePod
  <2>2. \A a \in Attempts : pods'[a].at = "gone"
    BY <1>0, <1>3, <2>1 DEF FailAnalyze, AnalyzeTypes
  <2>3. analyze'.state = "failed"
    BY <1>3 DEF FailAnalyze, AnalyzeTypes, Analyses
  <2> QED
    BY <1>2, <2>2, <2>3
<1>4. ASSUME NEW goesOn \in BOOLEAN, LoseAnalyze(goesOn)
      PROVE  Analysis'
  <2>1. goesOn = FALSE
    BY <1>4 DEF LoseAnalyze, Excuse, Calm
  <2>2. \A a \in Attempts : a # analyze.attempt => pods[a].at = "gone"
    BY DEF OnePod
  <2>3. \A a \in Attempts :
          pods'[a] = IF a = analyze.attempt + 1 THEN [at |-> "scan", verdict |-> "none"]
                     ELSE IF a = analyze.attempt THEN [pods[a] EXCEPT !.at = "gone"]
                     ELSE pods[a]
    BY <1>4, <2>1 DEF LoseAnalyze
  <2>5. analyze.attempt # analyze.attempt + 1
    BY <1>0, SettlementAssumption DEF Attempts
  <2>4. pods'[analyze.attempt].at = "gone"
    BY <1>0, <2>3, <2>5 DEF AnalyzeTypes
  <2>6. ASSUME NEW a \in Attempts
        PROVE  pods'[a].at = "gone" \/ (a = analyze.attempt + 1 /\ pods'[a].at = "scan")
    <3>1. CASE a = analyze.attempt
      BY <2>4, <3>1
    <3>2. CASE a = analyze.attempt + 1
      <4>1. pods'[a] = [at |-> "scan", verdict |-> "none"]
        BY <2>3, <3>2, Zenon
      <4> QED
        BY <3>2, <4>1
    <3>3. CASE a # analyze.attempt /\ a # analyze.attempt + 1
      BY <2>2, <2>3, <3>3
    <3> QED
      BY <3>1, <3>2, <3>3
  <2>7. analyze' = Again(analyze) /\ analyze.state = "running"
    BY <1>4 DEF LoseAnalyze
  <2>8. CASE TriesLeft(analyze)
    <3>1. analyze'.attempt = analyze.attempt + 1 /\ analyze'.state = "running"
      BY <2>7, <2>8 DEF Again, AnalyzeTypes, Analyses
    <3> QED
      BY <2>6, <3>1 DEF OnePod, Left, Final
  <2>9. CASE ~TriesLeft(analyze)
    <3>1. analyze'.state = "failed"
      BY <2>7, <2>9 DEF Again, AnalyzeTypes, Analyses
    <3>2. analyze.attempt + 1 \notin Attempts
      BY <1>0, <2>9, SettlementAssumption DEF TriesLeft, Attempts
    <3> QED
      BY <1>2, <2>6, <3>1, <3>2
  <2> QED
    BY <2>8, <2>9
<1> QED
  BY <1>1, <1>3, <1>4

-----------------------------------------------------------------------------
(* The steps of the analysis leave the rest alone, which has not begun.    *)

LEMMA NothingPublishedYet ==
  ASSUME analyze.state = "running", PublishTypes, RestTypes, Publishing, RowInv, BackfillInv, Shown
  PROVE  /\ publish.state = "waiting" /\ \A p \in Attempts : publishers[p].at = "gone"
         /\ row.status # "INVALID"
         /\ backfill.at # "idle" => backfill.listed.status # "INVALID"
         /\ backfill.at # "idle" => backfill.early
         /\ "early" \notin excuses =>
              row.image = NoImage /\ ~Shows(render.wanted) /\ card = NoImage
<1>1. publish.state = "waiting" /\ \A p \in Attempts : publishers[p].at = "gone"
  BY DEF Publishing
<1>2. row.status # "INVALID"
  BY DEF RowInv
<1>3. /\ backfill.at # "idle" => backfill.early
      /\ backfill.listed.status # "INVALID" \/ backfill.at = "idle"
  BY DEF BackfillInv, RestTypes, Backfills
<1>4. "early" \notin excuses => row.image = NoImage /\ ~Shows(render.wanted) /\ card = NoImage
  BY DEF Shown, Seen
<1> QED
  BY <1>1, <1>2, <1>3, <1>4

LEMMA GoodAnalyzeStep ==
  ASSUME Types, Good, AnalyzeStep, Calm'
  PROVE  Good'
<1> USE DEF Types, Good
<1>1. Analysis'
  BY AnalysisPodStep, AnalysisTaskStep DEF AnalyzeStep
<1>2. analyze.state = "running"
  BY AnalyzeStepRuns DEF Analysis
<1>3. UNCHANGED <<publish, publishers, row, backfilled, touched, notifier>>
  BY AnalyzePodTypes, AnalyzeTaskTypes DEF AnalyzeStep, RestTypes
<1>4. excuses' \in {excuses, excuses \cup {"abandoned"}}
  BY AnalyzePodTypes, AnalyzeTaskTypes DEF AnalyzeStep, RestTypes
<1>5. /\ publish.state = "waiting" /\ \A p \in Attempts : publishers[p].at = "gone"
      /\ row.status # "INVALID"
      /\ backfill.at # "idle" => backfill.listed.status # "INVALID"
      /\ backfill.at # "idle" => backfill.early
      /\ "early" \notin excuses =>
           row.image = NoImage /\ ~Shows(render.wanted) /\ card = NoImage
  BY <1>2, NothingPublishedYet
<1>6. Publishing'
  BY <1>3, <1>5 DEF Publishing
<1>7. RowInv'
  <2>1. \A p \in Attempts : publishers'[p].at = "gone"
    BY <1>3, <1>5
  <2> QED
    BY <1>3, <1>5, <2>1 DEF RowInv
<1>8. BackfillInv'
  BY <1>3, <1>5 DEF BackfillInv, backfilled
<1>9. OldRound'
  BY <1>3, <1>5 DEF OldRound
<1>10. Shown'
  BY <1>3, <1>4, <1>5 DEF Shown, Shows, notifier
<1> QED
  BY <1>1, <1>6, <1>7, <1>8, <1>9, <1>10

-----------------------------------------------------------------------------
(* Publishing                                                              *)

\* What is seen of the analysis does not change.
LEMMA AnalysisKept ==
  ASSUME UNCHANGED <<analyze, pods, files>>
  PROVE  /\ Analysis => Analysis'
         /\ Panel' = Panel /\ Seen' = Seen /\ jpg' = jpg /\ json' = json
         /\ \A image : Published(image)' = Published(image)
BY DEF Analysis, OnePod, Left, Final, Panel, Seen, Published, files

LEMMA FinalPanel ==
  ASSUME Final, analyze.state = "succeeded"
  PROVE  /\ analyze.verdict = "CONFIRMED" => Panel = jpg /\ Panel # NoImage /\ jpg.whole
         /\ analyze.verdict # "CONFIRMED" => Panel = NoImage /\ analyze.verdict = "INVALID"
         /\ json.verdict = analyze.verdict
BY NoImageIsNone DEF Final, Panel, Verdicts

LEMMA GoodPublisherStep ==
  ASSUME Types, Good, PublisherStep
  PROVE  Good'
<1> USE DEF Types, Good
<1>0. PICK p \in Attempts : Publisher(p) \/ FailPublisher(p)
  BY DEF PublisherStep
<1>1. UNCHANGED <<analyze, pods, files, publish, backfilled, notifier, excuses>>
  BY Untouched
<1>2. /\ Analysis' /\ Panel' = Panel /\ Seen' = Seen /\ jpg' = jpg /\ json' = json
      /\ \A image : Published(image)' = Published(image)
  BY <1>1, AnalysisKept
<1>3. publishers[p].at \notin {"gone", "done"}
  BY <1>0 DEF Publisher, ReadJson, ReadImage, SaveRow, FailPublisher
<1>4. publish.state \notin {"waiting", "absent"} /\ analyze.state = "succeeded"
  BY <1>3 DEF Publishing
<1>5. /\ analyze.verdict = "CONFIRMED" => Panel = jpg /\ Panel # NoImage /\ jpg.whole
      /\ analyze.verdict # "CONFIRMED" => Panel = NoImage /\ analyze.verdict = "INVALID"
      /\ json.verdict = analyze.verdict
  BY <1>4, FinalPanel DEF Analysis
<1>6. \A q \in Attempts : q # p => publishers'[q] = publishers[q]
  BY <1>0 DEF Publisher, ReadJson, ReadImage, SaveRow, FailPublisher, ToStep, PublishTypes
<1>7. /\ publishers'[p].at \in {"image", "save", "done", "failed"}
      /\ publishers'[p].at = "image" =>
           publishers'[p].image = NoImage /\ analyze.verdict = "CONFIRMED"
      /\ publishers'[p].at = "save" => publishers'[p].image = Panel
      /\ publishers'[p].at = "done" => publishers[p].at = "save" /\ SaveRow(p)
  <2>1. CASE ReadJson(p)
    BY <1>5, <2>1 DEF ReadJson, ToStep, PublishTypes, Publishers, Publishing
  <2>2. CASE ReadImage(p)
    <3>1. analyze.verdict = "CONFIRMED" /\ jpg.whole /\ Panel = jpg
      BY <1>5, <2>2 DEF ReadImage, Publishing
    <3>2. publishers' = [publishers EXCEPT ![p] = [at |-> "save", image |-> jpg]]
      BY <2>2, <3>1 DEF ReadImage
    <3> QED
      BY <3>1, <3>2 DEF PublishTypes
  <2>3. CASE SaveRow(p)
    BY <2>3 DEF SaveRow, ToStep, PublishTypes, Publishers
  <2>4. CASE FailPublisher(p)
    BY <2>4 DEF FailPublisher, ToStep, PublishTypes, Publishers
  <2> QED
    BY <1>0, <2>1, <2>2, <2>3, <2>4 DEF Publisher
<1>8. Publishing'
  <2>1. publish.state = "succeeded" => publish.attempt # p
    BY <1>3 DEF Publishing
  <2>2. publish.attempt \in Attempts
    BY DEF PublishTypes, Publishes
  <2> QED
    BY <1>1, <1>2, <1>4, <1>6, <1>7, <2>1, <2>2 DEF Publishing
<1>9. CASE SaveRow(p)
  <2>1. row' = Published(Panel)
    BY <1>9 DEF SaveRow, Publishing
  <2>2. row'.status = analyze.verdict /\ row'.image = Panel
    BY <2>1 DEF Published
  <2>3. RowInv'
    BY <1>1, <1>2, <1>4, <1>5, <2>1, <2>2 DEF RowInv
  <2>4. Shown'
    BY <1>1, <1>2, <1>4, <1>5, <2>2 DEF Shown, Seen, notifier, Shows
  <2>5. BackfillInv' /\ OldRound'
    BY <1>1, <1>2, <1>4 DEF BackfillInv, OldRound, backfilled
  <2> QED
    BY <1>2, <1>8, <2>3, <2>4, <2>5
<1>10. CASE ~SaveRow(p)
  <2>1. UNCHANGED row
    BY <1>0, <1>10 DEF Publisher, ReadJson, ReadImage, FailPublisher
  <2>2. RowInv'
    BY <1>1, <1>2, <1>6, <1>7, <1>10, <2>1 DEF RowInv
  <2>3. Shown'
    BY <1>1, <1>2, <2>1 DEF Shown, notifier, Shows
  <2>4. BackfillInv' /\ OldRound'
    BY <1>1, <1>2, <1>4, <2>1 DEF BackfillInv, OldRound, backfilled
  <2> QED
    BY <1>2, <1>8, <2>2, <2>3, <2>4
<1> QED
  BY <1>9, <1>10

LEMMA GoodPublishStep ==
  ASSUME Types, Good, PublishStep
  PROVE  Good'
<1> USE DEF Types, Good
<1>1. UNCHANGED <<analyze, pods, files, row, backfilled, notifier, excuses>>
  BY Untouched
<1>2. /\ Analysis' /\ Panel' = Panel /\ Seen' = Seen /\ jpg' = jpg /\ json' = json
      /\ \A image : Published(image)' = Published(image)
  BY <1>1, AnalysisKept
<1>3. /\ analyze.state = "succeeded" /\ publish.state \in {"waiting", "running"}
      /\ publish'.state \in {"running", "succeeded", "failed"}
      /\ publish'.state = "succeeded" => publishers'[publish'.attempt].at = "done"
      /\ \A p \in Attempts :
           \/ publishers'[p] = publishers[p] \/ publishers'[p] = NewPublisher
           \/ publishers'[p].at = "gone"
  <2>1. CASE StartPublish
    BY <2>1, Basics DEF StartPublish, PublishTypes, Publishes
  <2>2. CASE FinishPublish
    BY <2>2 DEF FinishPublish, PublishTypes, Publishes, Publishing
  <2>3. ASSUME NEW goesOn \in BOOLEAN, NextPublisher(goesOn), publish.state = "running"
        PROVE  <1>3
    <3>1. publish'.state \in {"running", "failed"}
      BY <2>3 DEF NextPublisher, Again, PublishTypes, Publishes
    <3>2. ASSUME NEW p \in Attempts
          PROVE  \/ publishers'[p] = publishers[p] \/ publishers'[p] = NewPublisher
                 \/ publishers'[p].at = "gone"
      BY <2>3 DEF NextPublisher, PublishTypes, Publishers
    <3>3. analyze.state = "succeeded"
      BY <2>3 DEF Publishing
    <3> QED
      BY <2>3, <3>1, <3>2, <3>3
  <2>4. CASE RetryPublish
    BY <2>3, <2>4 DEF RetryPublish
  <2>5. ASSUME NEW goesOn \in BOOLEAN, LosePublish(goesOn)
        PROVE  <1>3
    BY <2>3, <2>5 DEF LosePublish
  <2> QED
    BY <2>1, <2>2, <2>4, <2>5 DEF PublishStep
<1>4. \A p \in Attempts :
        publishers'[p].at \notin {"gone", "start"} => publishers'[p] = publishers[p]
  BY <1>3 DEF NewPublisher
<1>5. Publishing'
  <2>1. \A p \in Attempts : publishers'[p].at = "start" => publishers'[p].image = NoImage
    BY <1>3 DEF NewPublisher, Publishing
  <2> QED
    BY <1>1, <1>2, <1>3, <1>4, <2>1 DEF Publishing
<1>6. RowInv'
  BY <1>1, <1>2, <1>4 DEF RowInv
<1>7. BackfillInv' /\ OldRound'
  BY <1>1, <1>2, <1>3 DEF BackfillInv, OldRound, backfilled
<1>8. Shown'
  BY <1>1, <1>2 DEF Shown, Shows, notifier
<1> QED
  BY <1>2, <1>5, <1>6, <1>7, <1>8

-----------------------------------------------------------------------------
(* The backfill                                                            *)

LEMMA GoodBackfillStep ==
  ASSUME Types, Good, BackfillStep
  PROVE  Good'
<1> USE DEF Types, Good
<1>1. UNCHANGED <<analyze, pods, json, jpg, publish, publishers, files, render, card>>
  BY Untouched DEF tasks, files, notifier
<1>2. /\ Analysis' /\ Panel' = Panel /\ Seen' = Seen
      /\ \A image : Published(image)' = Published(image)
  BY <1>1, AnalysisKept
<1>3. Publishing'
  BY <1>1, <1>2 DEF Publishing
<1>4. analyze.state = "succeeded" =>
        /\ analyze.verdict = "CONFIRMED" => jpg # NoImage /\ jpg.whole
        /\ analyze.verdict # "CONFIRMED" => analyze.verdict = "INVALID"
        /\ json.verdict = analyze.verdict
  BY FinalPanel DEF Analysis
<1>5. publish.state = "absent" => analyze.state = "succeeded"
  BY DEF Publishing
<1>6. CASE ListRounds
  <2>1. /\ UNCHANGED <<row, excuses>> /\ backfill.at = "idle" /\ backfills' = backfills + 1
        /\ backfill'.at = IF row.image = NoImage THEN "json" ELSE "idle"
        /\ backfill'.listed = row
        /\ backfill'.early = (publish.state \in {"waiting", "running"})
    BY <1>6 DEF ListRounds, NoBackfill
  <2>2. RowInv' /\ Shown'
    BY <1>1, <1>2, <2>1 DEF RowInv, Shown, Shows
  <2>3. BackfillInv'
    BY <1>1, <2>1 DEF BackfillInv, RowInv, Publishing, PublishTypes, Publishes
  <2>4. OldRound'
    BY <1>1, <1>4, <1>5, <2>1 DEF OldRound, Unpublished
  <2> QED
    BY <1>2, <1>3, <2>2, <2>3, <2>4
<1>7. CASE BackfillJson
  <2>1. /\ UNCHANGED <<row, excuses, backfills>> /\ backfill.at = "json"
        /\ backfill'.at = IF json.verdict = "CONFIRMED" THEN "image" ELSE "idle"
        /\ backfill'.listed = backfill.listed /\ backfill'.early = backfill.early
    BY <1>7 DEF BackfillJson, Confirmed, RestTypes, Backfills
  <2>2. RowInv' /\ Shown'
    BY <1>1, <1>2, <2>1 DEF RowInv, Shown, Shows
  <2>3. BackfillInv'
    <3>1. backfill.listed.status \in {"none", "INVALID"}
      BY <2>1 DEF BackfillInv, RestTypes, Backfills, Rows, Verdicts
    <3> QED
      BY <1>1, <1>4, <2>1, <3>1 DEF BackfillInv
  <2>4. OldRound'
    BY <1>1, <1>4, <1>5, <2>1 DEF OldRound
  <2> QED
    BY <1>2, <1>3, <2>2, <2>3, <2>4
<1>8. CASE BackfillImage
  <2>1. /\ UNCHANGED <<row, excuses, backfills>> /\ backfill.at = "image"
        /\ backfill'.listed = backfill.listed /\ backfill'.early = backfill.early
        /\ \/ backfill'.at = "save" /\ backfill'.image = jpg /\ jpg # NoImage
           \/ ~jpg.whole /\ backfill'.at = "idle"
    BY <1>8 DEF BackfillImage, RestTypes, Backfills
  <2>2. RowInv' /\ Shown'
    BY <1>1, <1>2, <2>1 DEF RowInv, Shown, Shows
  <2>3. BackfillInv'
    BY <1>1, <1>4, <2>1 DEF BackfillInv
  <2>4. OldRound'
    BY <1>1, <1>4, <1>5, <2>1 DEF OldRound
  <2> QED
    BY <1>2, <1>3, <2>2, <2>3, <2>4
<1>9. CASE BackfillSave
  <2>1. /\ backfill.at = "save" /\ backfill'.at = "idle" /\ excuses \subseteq excuses'
        /\ row' = [status |-> "CONFIRMED", image |-> backfill.image]
        /\ "early" \notin excuses' => ~backfill.early
        /\ "overtaken" \notin excuses' => row = backfill.listed
    BY <1>9 DEF BackfillSave, NoBackfill, RestTypes, Backfills
  <2>2. /\ backfill.listed.status = "none" /\ backfill.image # NoImage
        /\ ~backfill.early => Seen /\ backfill.image = jpg
        /\ publish.state = "absent" => ~backfill.early
    BY <2>1 DEF BackfillInv, Seen
  <2>3. RowInv'
    BY <1>1, <2>1, <2>2 DEF RowInv
  <2>4. Shown'
    BY <1>1, <1>2, <2>1, <2>2 DEF Shown, Shows
  <2>5. BackfillInv' /\ OldRound'
    BY <1>1, <2>1, <2>2 DEF BackfillInv, OldRound, Seen
  <2> QED
    BY <1>2, <1>3, <2>3, <2>4, <2>5
<1>10. CASE FailBackfill
  <2>1. /\ UNCHANGED <<row, excuses>> /\ backfill.at # "idle" /\ backfill'.at = "idle"
        /\ backfills' = backfills - 1
    BY <1>10 DEF FailBackfill, NoBackfill
  <2>2. RowInv' /\ Shown'
    BY <1>1, <1>2, <2>1 DEF RowInv, Shown, Shows
  <2>3. BackfillInv' /\ OldRound'
    BY <1>1, <2>1 DEF BackfillInv, OldRound
  <2> QED
    BY <1>2, <1>3, <2>2, <2>3
<1> QED
  BY <1>6, <1>7, <1>8, <1>9, <1>10 DEF BackfillStep, Backfill

-----------------------------------------------------------------------------
(* The card                                                                *)

LEMMA GoodNotifierStep ==
  ASSUME Types, Good, NotifierStep
  PROVE  Good'
<1> USE DEF Types, Good
<1>1. UNCHANGED <<analyze, pods, json, jpg, publish, publishers, files, row, backfill, backfills>>
  BY Untouched DEF tasks, files, backfilled
<1>2. Analysis' /\ Panel' = Panel /\ Seen' = Seen /\ \A image : Published(image)' = Published(image)
  BY <1>1, AnalysisKept
<1>3. excuses' \in {excuses, excuses \cup {"upload"}}
  BY DEF NotifierStep, ReadRow, ShowPanel, FailImageUpload, Excuse
<1>4. Publishing' /\ RowInv' /\ BackfillInv' /\ OldRound'
  BY <1>1, <1>2, <1>3 DEF Publishing, RowInv, BackfillInv, OldRound
<1>5. ASSUME "early" \notin excuses
      PROVE  /\ Shows(render'.wanted) => Seen
             /\ card' # NoImage => Seen /\ card' = jpg
  <2>1. CASE ReadRow
    BY <1>5, <2>1 DEF ReadRow, Shown, Shows
  <2>2. CASE ShowPanel
    <3>1. render'.wanted = render.wanted
      BY <2>2 DEF ShowPanel, RestTypes
    <3>2. Shows(render.wanted) => Seen /\ jpg.whole
      BY <1>5, FinalPanel DEF Shown, Seen, Analysis
    <3> QED
      BY <1>5, <2>2, <3>1, <3>2 DEF ShowPanel, Shown
  <2>3. CASE FailImageUpload
    BY <1>5, <2>3 DEF FailImageUpload, Shown, RestTypes
  <2> QED
    BY <2>1, <2>2, <2>3 DEF NotifierStep
<1>6. Shown'
  BY <1>1, <1>2, <1>3, <1>5 DEF Shown, Shows
<1> QED
  BY <1>2, <1>4, <1>6

-----------------------------------------------------------------------------
LEMMA GoodInit == Init => Types /\ Good
<1> SUFFICES ASSUME Init PROVE Types /\ Good
  OBVIOUS
<1>1. Types
  BY TypeInit, TypesSplit DEF Types
<1>2. /\ row = Unpublished /\ backfill.at = "idle" /\ backfills = 0 /\ card = NoImage
      /\ render.wanted = Unpublished /\ excuses = {}
      /\ \A p \in Attempts : publishers[p].at = "gone"
  BY DEF Init, NoBackfill
<1>3. RowInv /\ BackfillInv /\ OldRound /\ Shown
  BY <1>2 DEF RowInv, BackfillInv, OldRound, Shown, Shows, Unpublished, Verdicts
<1>4. \A a \in Attempts :
        pods[a].at = IF a = 1 /\ analyze.state = "running" THEN "scan" ELSE "gone"
  BY DEF Init
<1>5. CASE Running
  BY <1>2, <1>3, <1>4, <1>5, <1>1
     DEF Running, Good, Analysis, OnePod, Left, Final, Publishing
<1>6. CASE Legacy
  <2>1. /\ analyze.state = "succeeded" /\ analyze.verdict \in Verdicts
        /\ json.of = 1 /\ json.verdict = analyze.verdict /\ publish.state = "absent"
        /\ jpg = [of |-> 1, whole |-> TRUE] \/ analyze.verdict = "INVALID"
    BY <1>6 DEF Legacy, NoImage
  <2>2. Final
    BY <2>1, Basics DEF Final, Verdicts
  <2>3. OnePod /\ Left /\ Publishing
    BY <1>2, <1>4, <2>1 DEF OnePod, Left, Publishing
  <2> QED
    BY <1>1, <1>3, <2>2, <2>3 DEF Good, Analysis
<1> QED
  BY <1>5, <1>6 DEF Init

LEMMA GoodStep ==
  ASSUME Types, Calm => Good, [Next]_vars
  PROVE  Types' /\ (Calm' => Good')
<1>1. Types'
  BY TypeStep, TypesSplit, PTL DEF Types
<1>2. SUFFICES ASSUME Calm' PROVE Good'
  BY <1>1
<1>3. CASE Next
  <2>1. Good
    BY <1>2, <1>3, ExcusesGrow DEF Calm
  <2> QED
    BY <1>2, <1>3, <2>1, NextSplit, GoodAnalyzeStep, GoodPublisherStep, GoodPublishStep,
       GoodBackfillStep, GoodNotifierStep
<1>4. CASE UNCHANGED vars
  BY <1>2, <1>4 DEF vars, Calm, Good, Analysis, OnePod, Left, Final, Publishing, RowInv, Panel,
     Published, BackfillInv, OldRound, Shown, Shows, Seen
<1> QED
  BY <1>3, <1>4

LEMMA GoodAlways == Spec => [](Types /\ (Calm => Good))
<1>1. Init => Types /\ (Calm => Good)
  BY GoodInit
<1>2. Types /\ (Calm => Good) /\ [Next]_vars => (Types /\ (Calm => Good))'
  BY GoodStep
<1> QED
  BY <1>1, <1>2, PTL DEF Spec

(***************************************************************************)
(* However often analyze-job and analyze-publish are tried and whenever    *)
(* the backfill runs, the row that PublishAnalyzeResult leaves has the     *)
(* verdict and the whole picture of the attempt that Argo accepted.        *)
(***************************************************************************)
THEOREM PublishedVerdict == Spec => []VerdictPublished
<1>1. Types /\ (Calm => Good) => VerdictPublished
  <2> SUFFICES ASSUME Types, Good, Completed, "overtaken" \notin excuses
               PROVE  /\ row.image = Panel
                      /\ row.status = "CONFIRMED" <=> analyze.verdict = "CONFIRMED"
                      /\ analyze.verdict = "CONFIRMED" => jpg.whole /\ json.of = jpg.of
    BY DEF VerdictPublished, Calm
  <2> USE DEF Types, Good
  <2>1. analyze.state = "succeeded"
    BY DEF Completed, Publishing
  <2>2. /\ analyze.verdict = "CONFIRMED" => Panel = jpg /\ jpg.whole /\ json.of = jpg.of
        /\ analyze.verdict # "CONFIRMED" => Panel = NoImage /\ analyze.verdict = "INVALID"
    BY <2>1, FinalPanel DEF Analysis, Final
  <2>3. CASE publish.state = "succeeded"
    <3>1. row = Published(Panel)
      BY <2>3 DEF Publishing, RowInv, PublishTypes, Publishes
    <3> QED
      BY <2>2, <3>1 DEF Published
  <2>4. CASE publish.state = "absent" /\ backfills > 0 /\ backfill.at = "idle"
    BY <2>2, <2>4 DEF OldRound, Unpublished
  <2> QED
    BY <2>3, <2>4 DEF Completed
<1> QED
  BY <1>1, GoodAlways, PTL

(***************************************************************************)
(* roundSettlementImageKey shows no torn picture and none of an attempt    *)
(* that was rejected, as long as no analysis was abandoned and no backfill *)
(* came while the workflow was at work.                                    *)
(***************************************************************************)
THEOREM CardShowsOnlyPanel == Spec => []CardShowsPanel
<1>1. Types /\ (Calm => Good) => CardShowsPanel
  BY FinalPanel DEF CardShowsPanel, Calm, Good, Analysis, Shown, Seen
<1> QED
  BY <1>1, GoodAlways, PTL
=============================================================================
