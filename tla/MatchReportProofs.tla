------------------------- MODULE MatchReportProofs -------------------------
(***************************************************************************)
(* Proofs about MatchReport, for every number of candidates, retries and   *)
(* faults: types, the agreement of the copies of the report, the finality  *)
(* of a saved report and the delivery of clips.                            *)
(***************************************************************************)
EXTENDS MatchReport, TLAPS

-----------------------------------------------------------------------------
(* Types                                                                   *)

LEMMA HighlightsTypeStep ==
  ASSUME HighlightsTypeOK, HighlightsWork \/ HighlightsBackfill \/ HighlightsMishap
  PROVE  HighlightsTypeOK'
<1> DEFINE Review == [state : {"running", "succeeded"}, next : 1..(Clips + 1),
                      contexts : SUBSET Candidates]
<1>t. /\ review \in Review /\ clip \in [Candidates -> {"none", "AVAILABLE", "SKIPPED"}]
      /\ ready \in SUBSET Candidates /\ step \in [Candidates -> 1..5]
      /\ files \in [Candidates -> SUBSET ArtifactSet] /\ lost \in 0..MaxLost
  BY DEF HighlightsTypeOK
<1>1. ASSUME NEW accepted \in BOOLEAN, ReviewClip(accepted)
      PROVE  HighlightsTypeOK'
  <2>1. /\ review.next \in Candidates
        /\ review.contexts \subseteq Candidates
    BY <1>1, <1>t DEF ReviewClip
  <2>2. ContextsWith(review.next, accepted) \in SUBSET Candidates
    BY <2>1, Zenon DEF ContextsWith
  <2>3. review.next + 1 \in 1..(Clips + 1)
    BY <2>1, HighlightAssumption DEF Candidates
  <2>4. review' = [review EXCEPT !.next = review.next + 1,
                                 !.contexts = ContextsWith(review.next, accepted)]
    BY <1>1 DEF ReviewClip
  <2>5. review' \in Review
    BY <1>t, <2>2, <2>3, <2>4
  <2>6. clip' \in [Candidates -> {"none", "AVAILABLE", "SKIPPED"}]
    BY <1>1, <1>t, <2>1 DEF ReviewClip
  <2> QED
    BY <1>1, <1>t, <2>5, <2>6 DEF ReviewClip, HighlightsTypeOK
<1>2. CASE WriteContexts
  BY <1>2, <1>t DEF WriteContexts, HighlightsTypeOK
<1>3. ASSUME NEW c \in Candidates, PublishArtifact(c)
      PROVE  HighlightsTypeOK'
  <2>1. step[c] \in 1..3
    BY <1>3, <1>t DEF PublishArtifact, Rendering
  <2>2. Artifacts[step[c]] \in ArtifactSet
    BY <2>1 DEF ArtifactSet
  <2>3. step' \in [Candidates -> 1..5]
    BY <1>3, <1>t, <2>1 DEF PublishArtifact
  <2>4. files' \in [Candidates -> SUBSET ArtifactSet]
    BY <1>3, <1>t, <2>2 DEF PublishArtifact
  <2> QED
    BY <1>3, <1>t, <2>3, <2>4 DEF PublishArtifact, HighlightsTypeOK
<1>4. ASSUME NEW c \in Candidates, FinalizeClip(c)
      PROVE  HighlightsTypeOK'
  BY <1>4, <1>t DEF FinalizeClip, HighlightsTypeOK
<1>5. CASE LoseReview
  <2>1. NewReview \in Review
    BY HighlightAssumption DEF NewReview
  <2> QED
    BY <1>5, <1>t, <2>1, HighlightAssumption DEF LoseReview, Mishap, HighlightsTypeOK
<1>6. ASSUME NEW c \in Candidates, LoseArtifactPod(c) \/ FailArtifact(c)
      PROVE  HighlightsTypeOK'
  <2>1. step' \in [Candidates -> 1..5] /\ lost' \in 0..MaxLost
    BY <1>6, <1>t, HighlightAssumption DEF LoseArtifactPod, FailArtifact, Mishap
  <2>2. UNCHANGED <<review, clip, ready, files>>
    BY <1>6 DEF LoseArtifactPod, FailArtifact
  <2> QED
    BY <1>t, <2>1, <2>2 DEF HighlightsTypeOK
<1>7. ASSUME NEW c \in Candidates, BackfillClip(c)
      PROVE  HighlightsTypeOK'
  BY <1>7, <1>t DEF BackfillClip, HighlightsTypeOK
<1> QED
  BY <1>1, <1>2, <1>3, <1>4, <1>5, <1>6, <1>7
  DEF HighlightsWork, HighlightsBackfill, HighlightsMishap

HighlightAction ==
  /\ HighlightsWork \/ HighlightsBackfill \/ HighlightsMishap
  /\ UNCHANGED mrVars

\* Every other action leaves the highlights alone.
LEMMA HighlightsUntouched ==
  ASSUME Next, ~HighlightAction
  PROVE  UNCHANGED hlVars
<1>1. MarkDone \/ ExpireLease \/ LapseLease \/ Argo => UNCHANGED hlVars
  BY DEF MarkDone, ExpireLease, LapseLease, Argo, StartPod, EndWorkflow, others
<1>2. Reconcile => UNCHANGED hlVars
  BY DEF Reconcile, ListWorkflow, SyncRows, RetryWorkflow, MarkRecovery
<1>3. ASSUME NEW p \in Pods, PodStep(p) \/ FailPod(p) \/ KillPod(p) \/ AbandonPod(p)
      PROVE  UNCHANGED hlVars
  BY <1>3 DEF PodStep, ReadMatch, AcquireLease, RecoverReport, RecoverNoReport,
              GenerateReport, StageJson, PublishJson, StageMd, PublishMd, SaveReport,
              StageReadme, PublishReadme, Exit, LoseTmp, FailPod, KillPod, AbandonPod, others
<1> QED
  BY <1>1, <1>2, <1>3 DEF Next, HighlightStep, HighlightAction

Workflows   == [phase : Phases, node : {"waiting", "running"} \cup Phases,
                tries : 0..RetryLimit, mark : BOOLEAN]
Reconcilers == [at : {"list", "sync", "retry", "mark"}, phase : Phases,
                mark : BOOLEAN, current : BOOLEAN]
Steps       == Inside \cup {"new", "read", "acquire", "over"}
Directories == [json : Reports, md : Reports, jsonTmp : Reports, mdTmp : Reports,
                readme : Page, readmeTmp : SUBSET Page]

\* The types of the pods and of what they write.
PodTypes ==
  /\ match \in [done : BOOLEAN, report : Reports]
  /\ disk \in Directories /\ lease \in Reports
  /\ pc \in [Pods -> Steps] /\ sawDone \in [Pods -> BOOLEAN] /\ text \in [Pods -> Reports]

\* The types of the controllers.
ControlTypes ==
  /\ lapsed \in BOOLEAN /\ started \in 0..(MaxFaults + 1) /\ wf \in Workflows
  /\ rec \in Reconcilers /\ rowPhase \in Phases /\ faults \in 0..MaxFaults

LEMMA ReportTypesSplit == ReportTypeOK <=> PodTypes /\ ControlTypes
BY DEF ReportTypeOK, PodTypes, ControlTypes, Workflows, Reconcilers, Steps, Directories

\* What a node becomes keeps its type, and so does the copy of the reconciler.
LEMMA NodeAfterType ==
  ASSUME wf \in Workflows, NEW p, NEW end, NEW final \in Phases
  PROVE  NodeAfter(p, end, final) \in Workflows
<1>1. CASE ~Watched(p)
  BY <1>1 DEF NodeAfter
<1>2. CASE Watched(p) /\ end = "again" /\ wf.tries < RetryLimit
  <2>1. wf.tries + 1 \in 0..RetryLimit
    BY <1>2, ReportAssumption DEF Workflows
  <2> QED
    BY <1>2, <2>1 DEF NodeAfter, Node, Workflows
<1>3. CASE Watched(p) /\ ~(end = "again" /\ wf.tries < RetryLimit)
  BY <1>3 DEF NodeAfter, Node, Workflows
<1> QED
  BY <1>1, <1>2, <1>3

LEMMA SetWorkflowType ==
  ASSUME rec \in Reconcilers, NEW new \in Workflows, SetWorkflow(new)
  PROVE  wf' \in Workflows /\ rec' \in Reconcilers
BY DEF SetWorkflow, Reconcilers

LEMMA FaultType ==
  ASSUME faults \in 0..MaxFaults, lost \in Nat, Fault
  PROVE  faults' \in 0..MaxFaults
BY ReportAssumption DEF Fault

LEMMA PodTypeStep ==
  ASSUME PodTypes, NEW p \in Pods,
         \/ ReadMatch(p) \/ AcquireLease(p) \/ RecoverReport(p) \/ RecoverNoReport(p)
         \/ GenerateReport(p) \/ StageJson(p) \/ PublishJson(p) \/ StageMd(p)
         \/ PublishMd(p) \/ SaveReport(p) \/ StageReadme(p) \/ PublishReadme(p)
  PROVE  PodTypes'
<1>1. None \in Reports /\ p \in Reports
  BY DEF Reports
<1>2. Featured \in SUBSET Candidates
  BY DEF Featured
<1>3. CASE ReadMatch(p) \/ AcquireLease(p)
  BY <1>1, <1>3 DEF ReadMatch, AcquireLease, Step, PodTypes, Steps, Inside
<1>4. CASE RecoverReport(p) \/ RecoverNoReport(p) \/ GenerateReport(p)
  BY <1>1, <1>4 DEF RecoverReport, RecoverNoReport, GenerateReport, Step, PodTypes, Steps,
                    Inside, Directories
<1>5. CASE StageJson(p) \/ PublishJson(p) \/ StageMd(p) \/ PublishMd(p)
  <2>1. CASE StageJson(p)
    BY <1>1, <2>1 DEF StageJson, Step, PodTypes, Steps, Inside, Directories
  <2>2. CASE PublishJson(p)
    BY <1>1, <2>2 DEF PublishJson, Step, PodTypes, Steps, Inside, Directories
  <2>3. CASE StageMd(p)
    BY <1>1, <2>3 DEF StageMd, Step, PodTypes, Steps, Inside, Directories
  <2>4. CASE PublishMd(p)
    BY <1>1, <2>4 DEF PublishMd, Step, PodTypes, Steps, Inside, Directories
  <2> QED
    BY <1>5, <2>1, <2>2, <2>3, <2>4
<1>6. CASE SaveReport(p)
  BY <1>1, <1>6 DEF SaveReport, Step, PodTypes, Steps, Inside
<1>7. CASE StageReadme(p)
  <2>1. [report |-> text[p], clips |-> Featured] \in Page
    BY <1>2 DEF Page, PodTypes
  <2> QED
    BY <1>7, <2>1 DEF StageReadme, Step, PodTypes, Steps, Inside, Directories
<1>8. CASE PublishReadme(p)
  BY <1>8 DEF PublishReadme, Step, PodTypes, Steps, Inside, Directories
<1> QED
  BY <1>3, <1>4, <1>5, <1>6, <1>7, <1>8

\* The steps that only move a pod to its end or touch the lease.
LEMMA PodTypesKept ==
  ASSUME PodTypes, lease' \in Reports, pc' \in [Pods -> Steps],
         UNCHANGED <<match, disk, sawDone, text>>
  PROVE  PodTypes'
BY DEF PodTypes

LEMMA ReportTypeStep ==
  ASSUME TypeOK, Next, ~HighlightAction
  PROVE  ReportTypeOK'
<1>t. PodTypes /\ ControlTypes /\ lost \in Nat
  BY ReportTypesSplit DEF TypeOK, HighlightsTypeOK
<1>n. None \in Reports
  BY DEF Reports
<1> SUFFICES PodTypes' /\ ControlTypes'
  BY ReportTypesSplit, PTL
<1>1. CASE MarkDone
  BY <1>1, <1>t DEF MarkDone, PodTypes, ControlTypes, others, argoVars, recVars
<1>2. ASSUME NEW p \in Pods,
             \/ ReadMatch(p) \/ AcquireLease(p) \/ RecoverReport(p) \/ RecoverNoReport(p)
             \/ GenerateReport(p) \/ StageJson(p) \/ PublishJson(p) \/ StageMd(p)
             \/ PublishMd(p) \/ SaveReport(p) \/ StageReadme(p) \/ PublishReadme(p)
      PROVE  PodTypes' /\ ControlTypes'
  <2>1. UNCHANGED others
    BY <1>2 DEF ReadMatch, AcquireLease, RecoverReport, RecoverNoReport, GenerateReport,
                StageJson, PublishJson, StageMd, PublishMd, SaveReport, StageReadme,
                PublishReadme
  <2> QED
    BY <1>2, <1>t, <2>1, PodTypeStep DEF ControlTypes, others, argoVars, recVars
<1>3. ASSUME NEW p \in Pods, Exit(p) \/ LoseTmp(p) \/ FailPod(p) \/ KillPod(p) \/ AbandonPod(p)
      PROVE  PodTypes' /\ ControlTypes'
  <2>1. lease' \in Reports /\ pc' \in [Pods -> Steps] /\ UNCHANGED <<match, disk, sawDone, text>>
    BY <1>3, <1>t, <1>n DEF Exit, LoseTmp, FailPod, KillPod, AbandonPod, Step, Released,
                            PodTypes, Steps
  <2>2. \E end \in {"again", "end"}, final \in Phases : SetWorkflow(NodeAfter(p, end, final))
    BY <1>3 DEF Exit, LoseTmp, FailPod, KillPod, AbandonPod, Phases
  <2>3. wf' \in Workflows /\ rec' \in Reconcilers
    BY <2>2, <1>t, NodeAfterType, SetWorkflowType DEF ControlTypes
  <2>4. /\ UNCHANGED <<started, lapsed, rowPhase>>
        /\ faults' = faults \/ Fault
    BY <1>3 DEF Exit, LoseTmp, FailPod, KillPod, AbandonPod
  <2> QED
    BY <1>t, <2>1, <2>3, <2>4, PodTypesKept, FaultType DEF ControlTypes
<1>4. CASE ExpireLease \/ LapseLease
  BY <1>4, <1>t, <1>n, FaultType DEF ExpireLease, LapseLease, PodTypes, ControlTypes, others,
                                     argoVars, recVars
<1>5. CASE StartPod
  <2>1. Node("running", wf.tries) \in Workflows
    BY <1>t DEF Node, Workflows, ControlTypes
  <2>2. wf' \in Workflows /\ rec' \in Reconcilers
    BY <1>5, <1>t, <2>1, SetWorkflowType DEF StartPod, ControlTypes
  <2>3. started' \in 0..(MaxFaults + 1)
    BY <1>5, ReportAssumption DEF StartPod, Pods
  <2>4. pc' \in [Pods -> Steps]
    BY <1>5, <1>t DEF StartPod, PodTypes, Steps
  <2> QED
    BY <1>5, <1>t, <2>2, <2>3, <2>4 DEF StartPod, PodTypes, ControlTypes
<1>6. CASE EndWorkflow
  <2>1. (IF HighlightsFailed THEN "Failed" ELSE wf.node) \in Phases
    BY <1>6, <1>t DEF EndWorkflow, NodeOver, Phases, ControlTypes, Workflows
  <2>2. \E phase \in Phases : SetWorkflow([wf EXCEPT !.phase = phase])
    BY <1>6, <2>1 DEF EndWorkflow
  <2>3. wf' \in Workflows /\ rec' \in Reconcilers
    BY <1>t, <2>2, SetWorkflowType DEF ControlTypes, Workflows
  <2> QED
    BY <1>6, <1>t, <2>3 DEF EndWorkflow, PodTypes, ControlTypes
<1>7. CASE Reconcile
  <2>1. Listing \in Reconcilers
    BY DEF Listing, Reconcilers, Phases
  <2>2. rec' \in Reconcilers
    <3>1. CASE ListWorkflow
      BY <3>1, <1>t DEF ListWorkflow, ControlTypes, Reconcilers, Workflows
    <3>2. CASE SyncRows
      <4>1. rec' = Listing \/ rec' = [rec EXCEPT !.at = "retry"]
        BY <3>2 DEF SyncRows
      <4> QED
        BY <4>1, <1>t, <2>1 DEF ControlTypes, Reconcilers
    <3>3. CASE RetryWorkflow
      <4>1. rec' = Listing \/ rec' = [rec EXCEPT !.at = "mark", !.current = FALSE]
        BY <3>3 DEF RetryWorkflow
      <4> QED
        BY <4>1, <1>t, <2>1 DEF ControlTypes, Reconcilers
    <3>4. CASE MarkRecovery
      BY <3>4, <2>1 DEF MarkRecovery
    <3> QED
      BY <1>7, <3>1, <3>2, <3>3, <3>4 DEF Reconcile
  <2>3. wf' \in Workflows
    <3>1. CASE ListWorkflow \/ SyncRows
      BY <3>1, <1>t DEF ListWorkflow, SyncRows, ControlTypes, argoVars
    <3>2. CASE RetryWorkflow
      <4>1. wf' = wf \/ wf' = [wf EXCEPT !.phase = "Running", !.node = "waiting", !.tries = 0]
        BY <3>2 DEF RetryWorkflow
      <4>2. 0 \in 0..RetryLimit
        BY ReportAssumption
      <4> QED
        BY <4>1, <4>2, <1>t DEF ControlTypes, Workflows, Phases
    <3>3. CASE MarkRecovery
      <4>1. wf' = wf \/ wf' = [wf EXCEPT !.mark = TRUE]
        BY <3>3 DEF MarkRecovery
      <4> QED
        BY <4>1, <1>t DEF ControlTypes, Workflows
    <3> QED
      BY <1>7, <3>1, <3>2, <3>3 DEF Reconcile
  <2>4. rowPhase' \in Phases
    BY <1>7, <1>t DEF Reconcile, ListWorkflow, SyncRows, RetryWorkflow, MarkRecovery,
                      ControlTypes, Reconcilers
  <2>5. UNCHANGED <<lapsed, started, faults, match, disk, lease, pc, sawDone, text>>
    BY <1>7 DEF Reconcile, ListWorkflow, SyncRows, RetryWorkflow, MarkRecovery, argoVars
  <2> QED
    BY <1>t, <2>2, <2>3, <2>4, <2>5 DEF PodTypes, ControlTypes
<1> QED
  BY <1>1, <1>2, <1>3, <1>4, <1>5, <1>6, <1>7
     DEF Next, HighlightStep, HighlightAction, PodStep, Argo

(***************************************************************************)
(* The pods, the files, the workflow and the rows keep their types,        *)
(* whatever fails and however often Argo and the reconciler start again.   *)
(***************************************************************************)
THEOREM ReportTypes == Spec => []TypeOK
<1>1. Init => TypeOK
  <2>1. HighlightsInit => HighlightsTypeOK
    BY HighlightAssumption DEF HighlightsInit, HighlightsTypeOK, NewReview, Candidates
  <2>2. Init => ControlTypes
    <3>1. 0 \in 0..RetryLimit /\ 0 \in 0..MaxFaults /\ 0 \in 0..(MaxFaults + 1)
      BY ReportAssumption
    <3>2. Listing \in Reconcilers
      BY DEF Listing, Reconcilers, Phases
    <3>3. [phase |-> "Running", node |-> "waiting", tries |-> 0, mark |-> FALSE] \in Workflows
      BY <3>1 DEF Workflows, Phases
    <3> QED
      BY <3>1, <3>2, <3>3 DEF Init, ControlTypes, Phases
  <2>3. Init => PodTypes
    <3>1. [report |-> None, clips |-> {}] \in Page
      BY DEF Page, Reports
    <3> QED
      BY <3>1 DEF Init, PodTypes, Directories, Reports, Steps
  <2> QED
    BY <2>1, <2>2, <2>3, ReportTypesSplit DEF Init, TypeOK
<1>2. TypeOK /\ [Next]_vars => TypeOK'
  <2> SUFFICES ASSUME TypeOK, [Next]_vars PROVE TypeOK'
    OBVIOUS
  <2>1. CASE HighlightAction
    <3>1. HighlightsTypeOK'
      BY <2>1, HighlightsTypeStep DEF HighlightAction, TypeOK
    <3>2. ReportTypeOK'
      BY <2>1 DEF HighlightAction, TypeOK, ReportTypeOK, mrVars, argoVars, recVars
    <3> QED
      BY <3>1, <3>2 DEF TypeOK
  <2>2. CASE UNCHANGED vars
    BY <2>2 DEF TypeOK, HighlightsTypeOK, ReportTypeOK, vars, hlVars, mrVars, argoVars, recVars
  <2>3. CASE Next /\ ~HighlightAction
    <3>1. ReportTypeOK'
      BY <2>3, ReportTypeStep
    <3>2. UNCHANGED hlVars
      BY <2>3, HighlightsUntouched
    <3>3. HighlightsTypeOK'
      BY <3>2 DEF TypeOK, HighlightsTypeOK, hlVars
    <3> QED
      BY <3>1, <3>3 DEF TypeOK
  <2> QED
    BY <2>1, <2>2, <2>3
<1> QED
  BY <1>1, <1>2, PTL DEF Spec

-----------------------------------------------------------------------------
(* The copies of the report                                                *)

\* Only the holder of the lease is inside.
Exclusive == \A p \in Pods : pc[p] \in Inside => lease = p

\* The files are published in order, and the row after them.
Ordered ==
  /\ disk.md # None => disk.json = disk.md
  /\ match.report # None => disk.md = match.report

\* What a pod has in hand, and where it is found already.
InHand(p) ==
  /\ pc[p] \in {"acquire", "render"} => text[p] \in {None, match.report}
  /\ pc[p] \in {"generate", "stageJson", "publishJson", "stageMd", "publishMd"} =>
       disk.md = None
  /\ pc[p] \in {"stageJson", "publishJson", "stageMd", "publishMd", "save"} => text[p] # None
  /\ pc[p] = "publishJson" => disk.jsonTmp = text[p]
  /\ pc[p] \in {"stageMd", "publishMd"} => disk.json = text[p]
  /\ pc[p] = "publishMd" => disk.mdTmp = text[p]
  /\ pc[p] = "save" => disk.md = text[p]

\* Every README shows the saved report or none.
PagesAgree ==
  \A page \in disk.readmeTmp \cup {disk.readme} : page.report \in {None, match.report}

ReportInv ==
  ~lapsed => Exclusive /\ Ordered /\ (\A p \in Pods : InHand(p)) /\ PagesAgree

LEMMA ReportInvImplies == ReportInv => ReportAgrees
BY DEF ReportInv, Ordered, PagesAgree, ReportAgrees

\* A step that leaves the files and the row alone and only ends pods or frees
\* the lease of one that has ended.
LEMMA EndsKeepReportInv ==
  ASSUME TypeOK, ReportInv, UNCHANGED <<match, disk, text, lapsed>>,
         \A p \in Pods : pc'[p] = pc[p] \/ pc'[p] \in {"read", "over"},
         \A p \in Pods : pc'[p] \in Inside /\ lease = p => lease' = p
  PROVE  ReportInv'
<1> SUFFICES ASSUME ~lapsed
             PROVE  (Exclusive /\ Ordered /\ (\A p \in Pods : InHand(p)) /\ PagesAgree)'
  BY DEF ReportInv
<1>1. Exclusive /\ Ordered /\ (\A p \in Pods : InHand(p)) /\ PagesAgree
  BY DEF ReportInv
<1>2. Exclusive'
  BY <1>1 DEF Exclusive, Inside
<1>3. Ordered' /\ PagesAgree'
  BY <1>1 DEF Ordered, PagesAgree
<1>4. ASSUME NEW p \in Pods PROVE InHand(p)'
  <2>1. CASE pc'[p] = pc[p]
    BY <1>1, <2>1 DEF InHand
  <2>2. CASE pc'[p] \in {"read", "over"}
    BY <2>2 DEF InHand
  <2> QED
    BY <2>1, <2>2
<1> QED
  BY <1>2, <1>3, <1>4

\* One step of a pod.  The others are outside, so nothing they have in hand
\* depends on the files.
LEMMA PodKeepsReportInv ==
  ASSUME TypeOK, ReportInv, ~lapsed', NEW p \in Pods,
         \/ ReadMatch(p) \/ AcquireLease(p) \/ RecoverReport(p) \/ RecoverNoReport(p)
         \/ GenerateReport(p) \/ StageJson(p) \/ PublishJson(p) \/ StageMd(p)
         \/ PublishMd(p) \/ SaveReport(p) \/ StageReadme(p) \/ PublishReadme(p)
  PROVE  /\ ReportInv'
         /\ match.report # None => match'.report = match.report
<1>t. PodTypes
  BY ReportTypesSplit DEF TypeOK
<1>l. UNCHANGED lapsed
  BY DEF ReadMatch, AcquireLease, RecoverReport, RecoverNoReport, GenerateReport, StageJson,
         PublishJson, StageMd, PublishMd, SaveReport, StageReadme, PublishReadme, others
<1>i. Exclusive /\ Ordered /\ (\A q \in Pods : InHand(q)) /\ PagesAgree
  BY <1>l DEF ReportInv
<1>p. p # None
  BY DEF Pods, None
<1>o. \A q \in Pods : q # p => pc'[q] = pc[q] /\ text'[q] = text[q]
  BY <1>t DEF ReadMatch, AcquireLease, RecoverReport, RecoverNoReport, GenerateReport, StageJson,
         PublishJson, StageMd, PublishMd, SaveReport, StageReadme, PublishReadme, Step, PodTypes
<1> SUFFICES /\ (Exclusive /\ Ordered /\ (\A q \in Pods : InHand(q)) /\ PagesAgree)'
             /\ match.report # None => match'.report = match.report
  BY DEF ReportInv
<1>1. CASE ReadMatch(p)
  BY <1>1, <1>t, <1>i DEF ReadMatch, Step, PodTypes, Exclusive, Ordered, InHand, PagesAgree,
                          Inside
<1>2. CASE AcquireLease(p)
  <2>1. \A q \in Pods : pc[q] \notin Inside
    BY <1>2, <1>i DEF AcquireLease, LeaseFree, Exclusive, Pods, None
  <2>2. /\ lease' = p /\ UNCHANGED <<match, disk, text>>
        /\ pc[p] = "acquire" /\ pc'[p] \in {"recover", "render"}
    BY <1>2, <1>t DEF AcquireLease, Step, PodTypes
  <2>3. Exclusive' /\ Ordered' /\ PagesAgree'
    BY <2>1, <2>2, <1>i, <1>o DEF Exclusive, Ordered, PagesAgree
  <2>4. ASSUME NEW q \in Pods PROVE InHand(q)'
    BY <2>2, <1>i, <1>o DEF InHand
  <2> QED
    BY <2>2, <2>3, <2>4
<1>3. CASE RecoverReport(p)
  BY <1>3, <1>t, <1>i DEF RecoverReport, Recoverable, Step, PodTypes, Exclusive, Ordered, InHand,
                          PagesAgree, Inside
<1>4. CASE RecoverNoReport(p)
  BY <1>4, <1>t, <1>i DEF RecoverNoReport, Recoverable, Step, PodTypes, Exclusive, Ordered,
                          InHand, PagesAgree, Inside
<1>5. CASE GenerateReport(p)
  BY <1>5, <1>t, <1>i, <1>p DEF GenerateReport, Step, PodTypes, Exclusive, Ordered, InHand,
                                PagesAgree, Inside
<1>6a. CASE StageJson(p)
  BY <1>6a, <1>t, <1>i, <1>o DEF StageJson, Step, PodTypes, Exclusive, Ordered, InHand,
                               PagesAgree, Inside, Directories
<1>6b. CASE PublishJson(p)
  BY <1>6b, <1>t, <1>i, <1>o DEF PublishJson, Step, PodTypes, Exclusive, Ordered, InHand,
                               PagesAgree, Inside, Directories
<1>6c. CASE StageMd(p)
  BY <1>6c, <1>t, <1>i, <1>o DEF StageMd, Step, PodTypes, Exclusive, Ordered, InHand,
                               PagesAgree, Inside, Directories
<1>6d. CASE PublishMd(p)
  BY <1>6d, <1>t, <1>i, <1>o DEF PublishMd, Step, PodTypes, Exclusive, Ordered, InHand,
                               PagesAgree, Inside, Directories
<1>7. CASE SaveReport(p)
  BY <1>7, <1>t, <1>i, <1>o DEF SaveReport, Step, PodTypes, Exclusive, Ordered, InHand,
                          PagesAgree, Inside
<1>8. CASE StageReadme(p)
  <2>1. disk'.readmeTmp = {[report |-> text[p], clips |-> Featured]}
    BY <1>8, <1>t DEF StageReadme, PodTypes, Directories
  <2>2. /\ UNCHANGED <<match, lease, text>>
        /\ UNCHANGED <<disk.json, disk.md, disk.jsonTmp, disk.mdTmp, disk.readme>>
        /\ pc[p] = "render" /\ pc'[p] = "publishReadme"
    BY <1>8, <1>t DEF StageReadme, Step, PodTypes, Directories
  <2>3. PagesAgree'
    BY <2>1, <2>2, <1>i DEF PagesAgree, InHand
  <2>4. Exclusive' /\ Ordered' /\ \A q \in Pods : InHand(q)'
    BY <2>2, <1>i, <1>o DEF Exclusive, Ordered, InHand, Inside
  <2> QED
    BY <2>2, <2>3, <2>4
<1>9. CASE PublishReadme(p)
  <2>1. /\ disk'.readmeTmp = {} /\ disk'.readme \in disk.readmeTmp
        /\ UNCHANGED <<match, lease, text, disk.json, disk.md, disk.jsonTmp, disk.mdTmp>>
        /\ pc[p] = "publishReadme" /\ pc'[p] = "exit"
    BY <1>9, <1>t DEF PublishReadme, Step, PodTypes, Directories
  <2>2. PagesAgree'
    BY <2>1, <1>i DEF PagesAgree
  <2>3. Exclusive' /\ Ordered' /\ \A q \in Pods : InHand(q)'
    BY <2>1, <1>i, <1>o DEF Exclusive, Ordered, InHand, Inside
  <2> QED
    BY <2>1, <2>2, <2>3
<1> QED
  BY <1>1, <1>2, <1>3, <1>4, <1>5, <1>6a, <1>6b, <1>6c, <1>6d, <1>7, <1>8, <1>9

LEMMA ReportInvStep ==
  ASSUME TypeOK, ReportInv, [Next]_vars
  PROVE  /\ ReportInv'
         /\ ~lapsed' /\ match.report # None => match'.report = match.report
<1>t. PodTypes
  BY ReportTypesSplit DEF TypeOK
<1>1. CASE HighlightAction \/ UNCHANGED vars
  <2>1. UNCHANGED <<match, disk, text, lapsed, pc, lease>>
    BY <1>1 DEF HighlightAction, vars, mrVars
  <2> QED
    BY <2>1, EndsKeepReportInv
<1>2. CASE MarkDone
  <2>1. match'.report = match.report /\ UNCHANGED <<disk, text, lapsed, pc, lease>>
    BY <1>2, <1>t DEF MarkDone, others, PodTypes
  <2> QED
    BY <2>1 DEF ReportInv, Exclusive, Ordered, InHand, PagesAgree
<1>3. ASSUME NEW p \in Pods,
             \/ ReadMatch(p) \/ AcquireLease(p) \/ RecoverReport(p) \/ RecoverNoReport(p)
             \/ GenerateReport(p) \/ StageJson(p) \/ PublishJson(p) \/ StageMd(p)
             \/ PublishMd(p) \/ SaveReport(p) \/ StageReadme(p) \/ PublishReadme(p)
      PROVE  /\ ReportInv'
             /\ ~lapsed' /\ match.report # None => match'.report = match.report
  <2>1. CASE lapsed'
    BY <2>1 DEF ReportInv
  <2>2. CASE ~lapsed'
    BY <1>3, <2>2, PodKeepsReportInv
  <2> QED
    BY <2>1, <2>2
<1>4. ASSUME NEW p \in Pods,
             Exit(p) \/ LoseTmp(p) \/ FailPod(p) \/ KillPod(p) \/ AbandonPod(p)
      PROVE  /\ ReportInv'
             /\ ~lapsed' /\ match.report # None => match'.report = match.report
  <2>1. UNCHANGED <<match, disk, text, lapsed>>
    BY <1>4 DEF Exit, LoseTmp, FailPod, KillPod, AbandonPod
  <2>2. \/ pc' = [pc EXCEPT ![p] = "over"] /\ lease' \in Released(p)
        \/ pc' = [pc EXCEPT ![p] = "over"] /\ lease' = lease
        \/ pc' = pc /\ lease' = lease
    BY <1>4 DEF Exit, LoseTmp, FailPod, KillPod, AbandonPod, Step
  <2>3. \A q \in Pods : pc'[q] = pc[q] \/ pc'[q] \in {"read", "over"}
    BY <2>2, <1>t DEF PodTypes
  <2>4. \A q \in Pods : pc'[q] \in Inside /\ lease = q => lease' = q
    BY <2>2, <1>t DEF PodTypes, Released, Inside
  <2> QED
    BY <2>1, <2>3, <2>4, EndsKeepReportInv
<1>5. CASE ExpireLease
  <2>1. /\ UNCHANGED <<match, disk, text, lapsed, pc>>
        /\ lease # None /\ pc[lease] = "over"
    BY <1>5 DEF ExpireLease, others
  <2>2. \A q \in Pods : pc'[q] \in Inside /\ lease = q => lease' = q
    BY <2>1 DEF Inside
  <2> QED
    BY <2>1, <2>2, EndsKeepReportInv
<1>6. CASE LapseLease
  BY <1>6 DEF LapseLease, ReportInv
<1>7. CASE StartPod
  <2>1. UNCHANGED <<match, disk, text, lapsed, lease>> /\ pc' = [pc EXCEPT ![started + 1] = "read"]
    BY <1>7 DEF StartPod
  <2>2. \A q \in Pods : pc'[q] = pc[q] \/ pc'[q] \in {"read", "over"}
    BY <2>1, <1>t DEF PodTypes
  <2> QED
    BY <2>1, <2>2, EndsKeepReportInv
<1>8. CASE EndWorkflow \/ Reconcile
  <2>1. UNCHANGED <<match, disk, text, lapsed, pc, lease>>
    BY <1>8 DEF EndWorkflow, Reconcile, ListWorkflow, SyncRows, RetryWorkflow, MarkRecovery
  <2> QED
    BY <2>1, EndsKeepReportInv
<1> QED
  BY <1>1, <1>2, <1>3, <1>4, <1>5, <1>6, <1>7, <1>8
     DEF Next, HighlightStep, HighlightAction, PodStep, Argo

(***************************************************************************)
(* However many pods run and are lost: unless a lease expires under its    *)
(* holder, the row and the files tell the same report.                     *)
(***************************************************************************)
THEOREM CopiesAgree == Spec => []ReportAgrees
<1>1. Init => ReportInv
  BY DEF Init, ReportInv, Exclusive, Ordered, InHand, PagesAgree, Inside, None
<1>2. TypeOK /\ ReportInv /\ [Next]_vars => ReportInv'
  BY ReportInvStep
<1>3. ReportInv => ReportAgrees
  BY ReportInvImplies
<1> QED
  BY <1>1, <1>2, <1>3, ReportTypes, PTL DEF Spec

(***************************************************************************)
(* No step replaces a report that was saved, as long as no lease expires   *)
(* under its holder.                                                       *)
(***************************************************************************)
THEOREM SavedForGood == Spec => SavedReportIsFinal
<1>1. Init => ReportInv
  BY DEF Init, ReportInv, Exclusive, Ordered, InHand, PagesAgree, Inside, None
<1>2. TypeOK /\ ReportInv /\ [Next]_vars =>
        /\ ReportInv'
        /\ ~lapsed' /\ match.report # None => match'.report = match.report
  BY ReportInvStep
<1> QED
  BY <1>1, <1>2, ReportTypes, PTL DEF Spec, SavedReportIsFinal

-----------------------------------------------------------------------------
(* The clips                                                               *)

\* The verdicts of the last review, and what depends on them.
ReviewInv ==
  /\ \A c \in review.contexts : c < review.next
  /\ \A c \in Candidates :
       c < review.next => (clip[c] = "AVAILABLE" <=> c \in review.contexts)
  /\ review.state = "running" =>
       ready = {} /\ \A c \in Candidates : step[c] = 1 /\ files[c] = {}
  /\ review.state = "succeeded" => review.next = Clips + 1 /\ ready \subseteq review.contexts

\* Artifacts are published in order, and none is taken away.
FilesInv ==
  /\ \A c \in Candidates :
       /\ step[c] \in {2, 3, 4} => "video" \in files[c]
       /\ step[c] \in {3, 4} => "preview" \in files[c]
       /\ step[c] = 4 => "json" \in files[c]
       /\ "json" \in files[c] => Whole(c)
       /\ "preview" \in files[c] => "video" \in files[c]
  /\ \A c \in ready : Whole(c)

PagesInv ==
  \A page \in disk.readmeTmp \cup {disk.readme} : \A c \in page.clips : Whole(c)

LEMMA ClipInvImplies ==
  ASSUME TypeOK, ReviewInv, FilesInv, PagesInv
  PROVE  ClipsDelivered
<1>1. ASSUME HighlightsDone, NEW c \in Candidates
      PROVE  clip[c] = "AVAILABLE" <=> c \in ready
  <2>1. /\ review.next = Clips + 1
        /\ ready \subseteq review.contexts /\ review.contexts \subseteq ready
    BY <1>1 DEF HighlightsDone, ReviewInv
  <2>2. c < review.next
    BY <2>1, HighlightAssumption DEF Candidates
  <2> QED
    BY <2>1, <2>2 DEF ReviewInv
<1> QED
  BY <1>1 DEF ClipsDelivered, FilesInv, PagesInv

\* A step of the highlight jobs.
LEMMA HighlightsKeepClipInv ==
  ASSUME HighlightsTypeOK, ReviewInv, FilesInv, HighlightsWork \/ HighlightsBackfill \/ HighlightsMishap
  PROVE  /\ ReviewInv' /\ FilesInv'
         /\ \A c \in Candidates : files[c] \subseteq files'[c]
<1> USE DEF HighlightsTypeOK, ReviewInv, FilesInv, Whole
<1>1. ASSUME NEW accepted \in BOOLEAN, ReviewClip(accepted)
      PROVE  ReviewInv' /\ FilesInv' /\ UNCHANGED files
  <2> DEFINE c == review.next
  <2>1. /\ review.state = "running" /\ c \in Candidates /\ UNCHANGED <<ready, step, files>>
        /\ review' = [review EXCEPT !.next = c + 1, !.contexts = ContextsWith(c, accepted)]
        /\ clip' = [clip EXCEPT ![c] = IF accepted THEN "AVAILABLE" ELSE "SKIPPED"]
    BY <1>1 DEF ReviewClip
  <2>2. /\ review'.state = "running" /\ review'.next = c + 1
        /\ review'.contexts = ContextsWith(c, accepted)
    BY <2>1
  <2>3. c \notin review.contexts
    BY <2>1, HighlightAssumption DEF Candidates
  <2>4. ASSUME NEW d \in Candidates, d < c + 1
        PROVE  clip'[d] = "AVAILABLE" <=> d \in review'.contexts
    <3>1. CASE d = c
      BY <3>1, <2>1, <2>2, <2>3 DEF ContextsWith
    <3>2. CASE d # c
      <4>1. d < c
        BY <3>2, <2>1, <2>4, HighlightAssumption DEF Candidates
      <4>2. clip'[d] = clip[d]
        BY <3>2, <2>1
      <4>3. d \in review'.contexts <=> d \in review.contexts
        BY <3>2, <2>2 DEF ContextsWith
      <4> QED
        BY <4>1, <4>2, <4>3
    <3> QED
      BY <3>1, <3>2
  <2>5. \A d \in review'.contexts : d < c + 1
    <3>1. \A d \in review.contexts : d \in Nat /\ d < c
      BY HighlightAssumption DEF Candidates
    <3>2. \A d \in review'.contexts : d \in review.contexts \/ d = c
      BY <2>2, Zenon DEF ContextsWith
    <3>3. c \in Nat
      BY <2>1, HighlightAssumption DEF Candidates
    <3>4. ASSUME NEW d \in review'.contexts
          PROVE  d < c + 1
      BY <3>1, <3>2, <3>3, <3>4
    <3> QED
      BY <3>4
  <2>6. ReviewInv'
    BY <2>1, <2>2, <2>4, <2>5
  <2>7. FilesInv'
    BY <2>1
  <2> QED
    BY <2>1, <2>6, <2>7
<1>2. CASE WriteContexts
  <2>1. /\ review'.state = "succeeded" /\ review'.next = review.next
        /\ review'.contexts = review.contexts
        /\ review.next = Clips + 1 /\ ready = {}
        /\ UNCHANGED <<clip, ready, step, files>>
    BY <1>2, HighlightAssumption DEF WriteContexts
  <2> QED
    BY <2>1
<1>3. ASSUME NEW c \in Candidates, PublishArtifact(c)
      PROVE  /\ ReviewInv' /\ FilesInv'
             /\ \A d \in Candidates : files[d] \subseteq files'[d]
  <2>1. /\ step[c] \in 1..3 /\ review.state = "succeeded"
        /\ step' = [step EXCEPT ![c] = step[c] + 1]
        /\ files' = [files EXCEPT ![c] = files[c] \cup {Artifacts[step[c]]}]
        /\ UNCHANGED <<review, clip, ready>>
    BY <1>3 DEF PublishArtifact, Rendering
  <2>2. \A d \in Candidates : files[d] \subseteq files'[d]
    BY <2>1
  <2>3. ReviewInv'
    BY <2>1
  <2>4. ArtifactSet = {"video", "preview", "json"}
    BY DEF ArtifactSet, Artifacts
  <2>5. \/ step[c] = 1 /\ Artifacts[step[c]] = "video"
        \/ step[c] = 2 /\ Artifacts[step[c]] = "preview"
        \/ step[c] = 3 /\ Artifacts[step[c]] = "json"
    BY <2>1 DEF Artifacts
  <2>6. \A d \in Candidates : d # c => step'[d] = step[d] /\ files'[d] = files[d]
    BY <2>1
  <2>7. step'[c] = step[c] + 1 /\ files'[c] = files[c] \cup {Artifacts[step[c]]}
    BY <2>1
  <2>8. /\ step'[c] \in {2, 3, 4} => "video" \in files'[c]
        /\ step'[c] \in {3, 4} => "preview" \in files'[c]
        /\ step'[c] = 4 => "json" \in files'[c]
        /\ "preview" \in files'[c] => "video" \in files'[c]
    BY <2>5, <2>7
  <2>9. "json" \in files'[c] => files'[c] = ArtifactSet
    BY <2>4, <2>5, <2>7
  <2>10. \A d \in ready : files'[d] = ArtifactSet
    BY <2>1, <2>2, <2>4, <2>5
  <2> QED
    BY <2>1, <2>2, <2>3, <2>6, <2>8, <2>9, <2>10
<1>4. ASSUME NEW c \in Candidates, FinalizeClip(c)
      PROVE  ReviewInv' /\ FilesInv' /\ UNCHANGED files
  BY <1>4 DEF FinalizeClip
<1>5. CASE LoseReview
  <2>1. /\ review.state = "running" /\ review' = NewReview
        /\ UNCHANGED <<clip, ready, step, files>>
    BY <1>5 DEF LoseReview
  <2>2. /\ review'.state = "running" /\ review'.next = 1 /\ review'.contexts = {}
    BY <2>1 DEF NewReview
  <2>3. \A c \in Candidates : ~(c < 1)
    BY HighlightAssumption DEF Candidates
  <2> QED
    BY <2>1, <2>2, <2>3
<1>6. ASSUME NEW c \in Candidates, LoseArtifactPod(c) \/ FailArtifact(c)
      PROVE  ReviewInv' /\ FilesInv' /\ UNCHANGED files
  <2>1. /\ review.state = "succeeded" /\ UNCHANGED <<review, clip, ready, files>>
        /\ step' = [step EXCEPT ![c] = 1] \/ step' = [step EXCEPT ![c] = 5]
    BY <1>6 DEF LoseArtifactPod, FailArtifact, Rendering
  <2> QED
    BY <2>1
<1>7. ASSUME NEW c \in Candidates, BackfillClip(c)
      PROVE  ReviewInv' /\ FilesInv' /\ UNCHANGED files
  <2>1. /\ "json" \in files[c] /\ clip[c] = "AVAILABLE"
        /\ ready' = ready \cup {c} /\ UNCHANGED <<review, clip, step, files>>
    BY <1>7 DEF BackfillClip
  <2>2. review.state = "succeeded" /\ review.next = Clips + 1
    BY <2>1
  <2>3. c \in review.contexts
    BY <2>1, <2>2, HighlightAssumption DEF Candidates
  <2>4. ReviewInv'
    BY <2>1, <2>2, <2>3
  <2>5. FilesInv'
    BY <2>1
  <2> QED
    BY <2>1, <2>4, <2>5
<1> QED
  BY <1>1, <1>2, <1>3, <1>4, <1>5, <1>6, <1>7
  DEF HighlightsWork, HighlightsBackfill, HighlightsMishap

\* Pages are rendered from whole clips, and whole clips stay whole.
LEMMA PagesInvStep ==
  ASSUME TypeOK, FilesInv, PagesInv, [Next]_vars, ReviewInv
  PROVE  PagesInv'
<1>t. PodTypes
  BY ReportTypesSplit DEF TypeOK
<1>p. \A page \in disk.readmeTmp \cup {disk.readme} : page.clips \subseteq Candidates
  BY <1>t DEF PodTypes, Directories, Page
<1>1. CASE HighlightAction
  <2>1. disk' = disk
    BY <1>1 DEF HighlightAction, mrVars
  <2>2. \A c \in Candidates : Whole(c) => Whole(c)'
    <3>1. \A c \in Candidates : files[c] \subseteq files'[c]
      BY <1>1, HighlightsKeepClipInv DEF HighlightAction, TypeOK
    <3>2. \A c \in Candidates : files'[c] \subseteq ArtifactSet
      BY <1>1, HighlightsTypeStep DEF HighlightAction, TypeOK, HighlightsTypeOK
    <3> QED
      BY <3>1, <3>2 DEF Whole
  <2> QED
    BY <1>p, <2>1, <2>2 DEF PagesInv
<1>2. CASE ~HighlightAction
  <2>1. UNCHANGED files
    BY <1>2, HighlightsUntouched DEF vars, hlVars
  <2>2. CASE \E p \in Pods : StageReadme(p)
    <3>1. PICK p \in Pods : StageReadme(p)
      BY <2>2
    <3>2. /\ disk'.readmeTmp = {[report |-> text[p], clips |-> Featured]}
          /\ disk'.readme = disk.readme
      BY <3>1, <1>t DEF StageReadme, PodTypes, Directories
    <3>3. \A c \in Featured : Whole(c)
      BY DEF Featured, FilesInv
    <3> QED
      BY <2>1, <3>2, <3>3 DEF PagesInv, Whole
  <2>3. CASE \E p \in Pods : PublishReadme(p)
    <3>1. disk'.readmeTmp = {} /\ disk'.readme \in disk.readmeTmp
      BY <2>3, <1>t DEF PublishReadme, PodTypes, Directories
    <3> QED
      BY <2>1, <3>1 DEF PagesInv, Whole
  <2>4. CASE ~\E p \in Pods : StageReadme(p) \/ PublishReadme(p)
    <3>1. disk'.readmeTmp = disk.readmeTmp /\ disk'.readme = disk.readme
      <4>1. ASSUME NEW p \in Pods, PodStep(p)
            PROVE  disk'.readmeTmp = disk.readmeTmp /\ disk'.readme = disk.readme
        BY <4>1, <2>4, <1>t DEF PodStep, ReadMatch, AcquireLease, RecoverReport, RecoverNoReport,
             GenerateReport, StageJson, PublishJson, StageMd, PublishMd, SaveReport, Exit,
             LoseTmp, PodTypes, Directories
      <4>2. ASSUME NEW p \in Pods, FailPod(p) \/ KillPod(p) \/ AbandonPod(p) PROVE disk' = disk
        BY <4>2 DEF FailPod, KillPod, AbandonPod
      <4>3. MarkDone \/ ExpireLease \/ LapseLease \/ Argo => disk' = disk
        BY DEF MarkDone, ExpireLease, LapseLease, Argo, StartPod, EndWorkflow
      <4>4. Reconcile => disk' = disk
        BY DEF Reconcile, ListWorkflow, SyncRows, RetryWorkflow, MarkRecovery
      <4>5. UNCHANGED vars => disk' = disk
        BY DEF vars, mrVars
      <4> QED
        BY <1>2, <4>1, <4>2, <4>3, <4>4, <4>5 DEF Next, HighlightStep, HighlightAction
    <3> QED
      BY <2>1, <3>1 DEF PagesInv, Whole
  <2> QED
    BY <2>2, <2>3, <2>4
<1> QED
  BY <1>1, <1>2

(***************************************************************************)
(* Lost pods and changing verdicts leave rows and artifacts in agreement,  *)
(* and no README features a clip that is not whole.                        *)
(***************************************************************************)
THEOREM ClipsAgree == Spec => []ClipsDelivered
<1> DEFINE Inv == ReviewInv /\ FilesInv /\ PagesInv
<1>1. Init => Inv
  <2>1. Init => ReviewInv
    BY HighlightAssumption DEF Init, HighlightsInit, NewReview, ReviewInv, Candidates
  <2>2. Init => FilesInv /\ PagesInv
    BY DEF Init, HighlightsInit, FilesInv, PagesInv
  <2> QED
    BY <2>1, <2>2
<1>2. TypeOK /\ Inv /\ [Next]_vars => Inv'
  <2> SUFFICES ASSUME TypeOK, Inv, [Next]_vars PROVE Inv'
    OBVIOUS
  <2>1. PagesInv'
    BY PagesInvStep
  <2>2. CASE HighlightAction
    BY <2>1, <2>2, HighlightsKeepClipInv DEF HighlightAction, TypeOK
  <2>3. CASE ~HighlightAction
    <3>1. UNCHANGED hlVars
      BY <2>3, HighlightsUntouched DEF vars
    <3> QED
      BY <2>1, <3>1 DEF hlVars, ReviewInv, FilesInv, Whole
  <2> QED
    BY <2>2, <2>3
<1>3. TypeOK /\ Inv => ClipsDelivered
  BY ClipInvImplies
<1> QED
  BY <1>1, <1>2, <1>3, ReportTypes, PTL DEF Spec
=============================================================================
