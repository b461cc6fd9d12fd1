---------------------------- MODULE MatchReport ----------------------------
(***************************************************************************)
(* The end of a match's workflow: manifest-job, which has a report written *)
(* and renders README.md while highlights are still being made; Argo,      *)
(* which starts its pod again when it was lost; and the reconciler of      *)
(* match-controller, which copies the phase of the workflow into the match *)
(* row and retries a workflow that ended in Error.  A pod taken for lost   *)
(* may go on beside its successor: a lease in Redis keeps the two apart.   *)
(* A report is identified with the pod that had it generated.              *)
(***************************************************************************)
EXTENDS Highlights

CONSTANTS
  RetryLimit,   \* times Argo starts the manifest pod again
  MaxFaults     \* bound on pods that fail or are lost and on lapsed leases

ASSUME ReportAssumption == RetryLimit \in Nat /\ MaxFaults \in Nat

Pods == 1..(MaxFaults + 1)     \* in the order in which they are started
None == 0                      \* no pod, no report

VARIABLES
  match,      \* the match row: DONE with every round ENDED; the report
  disk,       \* the match directory, with temporary files all pods share
  lease,      \* holder of the lease
  lapsed,     \* whether a lease has expired under a living holder
  pc,         \* next step of each pod
  sawDone,    \* whether the pod read a complete match
  text,       \* the report each pod has in hand
  started,    \* number of manifest pods started
  wf,         \* the workflow: phase, manifest node, retries, mark
  rec,        \* the reconciler: next step and the copy it listed, if current
  rowPhase,   \* workflow_phase of the rows
  faults

argoVars == <<wf, started, faults>>
recVars  == <<rec, rowPhase>>
others   == <<hlVars, argoVars, recVars, lapsed>>
mrVars   == <<argoVars, recVars, lapsed, match, disk, lease, pc, sawDone, text>>
vars     == <<hlVars, mrVars>>

Reports == Pods \cup {None}
Page    == [report : Reports, clips : SUBSET Candidates]
Phases  == {"Running", "Succeeded", "Failed", "Error"}

\* The steps that a pod takes under the lease.
Inside == {"recover", "generate", "stageJson", "publishJson", "stageMd", "publishMd",
           "save", "render", "publishReadme", "exit"}

ReportTypeOK ==
  /\ match \in [done : BOOLEAN, report : Reports]
  /\ disk \in [json : Reports, md : Reports, jsonTmp : Reports, mdTmp : Reports,
               readme : Page, readmeTmp : SUBSET Page]
  /\ lease \in Reports
  /\ lapsed \in BOOLEAN
  /\ pc \in [Pods -> Inside \cup {"new", "read", "acquire", "over"}]
  /\ sawDone \in [Pods -> BOOLEAN]
  /\ text \in [Pods -> Reports]
  /\ started \in 0..(MaxFaults + 1)
  /\ wf \in [phase : Phases, node : {"waiting", "running"} \cup Phases,
             tries : 0..RetryLimit, mark : BOOLEAN]
  /\ rec \in [at : {"list", "sync", "retry", "mark"}, phase : Phases,
              mark : BOOLEAN, current : BOOLEAN]
  /\ rowPhase \in Phases
  /\ faults \in 0..MaxFaults

TypeOK == HighlightsTypeOK /\ ReportTypeOK

\* The reconciler between two rounds: it keeps no copy.
Listing == [at |-> "list", phase |-> "Running", mark |-> FALSE, current |-> FALSE]

Init ==
  /\ HighlightsInit
  /\ match = [done |-> FALSE, report |-> None]
  /\ disk = [json |-> None, md |-> None, jsonTmp |-> None, mdTmp |-> None,
             readme |-> [report |-> None, clips |-> {}], readmeTmp |-> {}]
  /\ lease = None
  /\ lapsed = FALSE
  /\ pc = [p \in Pods |-> "new"]
  /\ sawDone = [p \in Pods |-> FALSE]
  /\ text = [p \in Pods |-> None]
  /\ started = 0
  /\ wf = [phase |-> "Running", node |-> "waiting", tries |-> 0, mark |-> FALSE]
  /\ rec = Listing
  /\ rowPhase = "Running"
  /\ faults = 0

Fault == faults + lost < MaxFaults /\ faults' = faults + 1

-----------------------------------------------------------------------------
(* manifest-job: WriteMatchReadme                                          *)

Step(p, from, to) == pc[p] = from /\ pc' = [pc EXCEPT ![p] = to]

\* The scan writes DONE and ends the last round; Argo does not wait for it.
MarkDone ==
  /\ ~match.done
  /\ match' = [match EXCEPT !.done = TRUE]
  /\ UNCHANGED <<others, disk, lease, pc, sawDone, text>>

\* The match is read before the lease is asked for.
ReadMatch(p) ==
  /\ Step(p, "read", "acquire")
  /\ sawDone' = [sawDone EXCEPT ![p] = match.done]
  /\ text' = [text EXCEPT ![p] = match.report]
  /\ UNCHANGED <<others, match, disk, lease>>

\* Faulty variant: the answer of SETNX is not looked at.
LeaseAlwaysFree == TRUE

LeaseFree == lease = None

AcquireLease(p) ==
  /\ Step(p, "acquire", IF sawDone[p] /\ text[p] = None THEN "recover" ELSE "render")
  /\ LeaseFree
  /\ lease' = p
  /\ UNCHANGED <<others, match, disk, sawDone, text>>

\* Faulty variant: a report is always generated afresh.
RecoverNothing == FALSE

\* recoverReportFiles: an earlier pod has published both files.
Recoverable == disk.json # None /\ disk.md # None

RecoverReport(p) ==
  /\ Step(p, "recover", "save")
  /\ Recoverable
  /\ text' = [text EXCEPT ![p] = disk.md]
  /\ UNCHANGED <<others, match, disk, lease, sawDone>>

RecoverNoReport(p) ==
  /\ Step(p, "recover", "generate")
  /\ ~Recoverable
  /\ UNCHANGED <<others, match, disk, lease, sawDone, text>>

GenerateReport(p) ==
  /\ Step(p, "generate", "stageJson")
  /\ text' = [text EXCEPT ![p] = p]
  /\ UNCHANGED <<others, match, disk, lease, sawDone>>

StageJson(p) ==
  /\ Step(p, "stageJson", "publishJson")
  /\ disk' = [disk EXCEPT !.jsonTmp = text[p]]
  /\ UNCHANGED <<others, match, lease, sawDone, text>>

PublishJson(p) ==
  /\ Step(p, "publishJson", "stageMd")
  /\ disk.jsonTmp # None
  /\ disk' = [disk EXCEPT !.json = disk.jsonTmp, !.jsonTmp = None]
  /\ UNCHANGED <<others, match, lease, sawDone, text>>

StageMd(p) ==
  /\ Step(p, "stageMd", "publishMd")
  /\ disk' = [disk EXCEPT !.mdTmp = text[p]]
  /\ UNCHANGED <<others, match, lease, sawDone, text>>

PublishMd(p) ==
  /\ Step(p, "publishMd", "save")
  /\ disk.mdTmp # None
  /\ disk' = [disk EXCEPT !.md = disk.mdTmp, !.mdTmp = None]
  /\ UNCHANGED <<others, match, lease, sawDone, text>>

SaveReport(p) ==
  /\ Step(p, "save", "render")
  /\ match' = [match EXCEPT !.report = text[p]]
  /\ UNCHANGED <<others, disk, lease, sawDone, text>>

\* renderReadme shows the report in hand and the highlights found on disk.
StageReadme(p) ==
  /\ Step(p, "render", "publishReadme")
  /\ disk' = [disk EXCEPT !.readmeTmp = {[report |-> text[p], clips |-> Featured]}]
  /\ UNCHANGED <<others, match, lease, sawDone, text>>

PublishReadme(p) ==
  /\ Step(p, "publishReadme", "exit")
  /\ \E page \in disk.readmeTmp :
       disk' = [disk EXCEPT !.readme = page, !.readmeTmp = {}]
  /\ UNCHANGED <<others, match, lease, sawDone, text>>

-----------------------------------------------------------------------------
(* Argo: the manifest node and the phase of the workflow                   *)

\* Any change of the workflow makes the copy of the reconciler stale.
SetWorkflow(new) ==
  /\ wf' = new
  /\ rec' = [rec EXCEPT !.current = new = wf /\ @]

\* The pod whose end the node waits for; pods given up before it are not watched.
Watched(p) == p = started /\ wf.node = "running"

Node(state, tries) == [wf EXCEPT !.node = state, !.tries = tries]

\* Argo tries again after a lost pod and after exit code 75.
NodeAfter(p, end, final) ==
  IF ~Watched(p) THEN wf
  ELSE IF end = "again" /\ wf.tries < RetryLimit THEN Node("waiting", wf.tries + 1)
  ELSE Node(final, wf.tries)

\* All rounds are ready for the manifest; nothing is started after a failure.
StartPod ==
  /\ wf.phase = "Running" /\ wf.node = "waiting"
  /\ ~HighlightsFailed
  /\ started' = started + 1
  /\ started + 1 \in Pods
  /\ SetWorkflow(Node("running", wf.tries))
  /\ pc' = [pc EXCEPT ![started + 1] = "read"]
  /\ UNCHANGED <<hlVars, rowPhase, faults, lapsed, match, disk, lease, sawDone, text>>

\* The deferred release deletes the lease only for its owner, and may fail.
Released(p) == IF lease = p THEN {None, lease} ELSE {lease}

Exit(p) ==
  /\ Step(p, "exit", "over")
  /\ lease' \in Released(p)
  /\ SetWorkflow(NodeAfter(p, "end", "Succeeded"))
  /\ UNCHANGED <<hlVars, rowPhase, faults, started, lapsed, match, disk, sawDone, text>>

\* A rename whose temporary file another pod has taken away fails for good.
LoseTmp(p) ==
  /\ \/ pc[p] = "publishJson" /\ disk.jsonTmp = None
     \/ pc[p] = "publishMd" /\ disk.mdTmp = None
     \/ pc[p] = "publishReadme" /\ disk.readmeTmp = {}
  /\ pc' = [pc EXCEPT ![p] = "over"]
  /\ lease' \in Released(p)
  /\ SetWorkflow(NodeAfter(p, "end", "Failed"))
  /\ UNCHANGED <<hlVars, rowPhase, faults, started, lapsed, match, disk, sawDone, text>>

\* Any call fails: with exit code 75 if the error reads like a temporary one.
FailPod(p) ==
  /\ pc[p] \in Inside \cup {"read", "acquire"}
  /\ Fault
  /\ pc' = [pc EXCEPT ![p] = "over"]
  /\ lease' \in Released(p)
  /\ \E end \in {"again", "end"} : SetWorkflow(NodeAfter(p, end, "Failed"))
  /\ UNCHANGED <<hlVars, rowPhase, started, lapsed, match, disk, sawDone, text>>

\* The pod dies, and its lease stays behind.
KillPod(p) ==
  /\ pc[p] \in Inside \cup {"read", "acquire"}
  /\ Fault
  /\ pc' = [pc EXCEPT ![p] = "over"]
  /\ SetWorkflow(NodeAfter(p, "again", "Error"))
  /\ UNCHANGED <<hlVars, rowPhase, started, lapsed, match, disk, lease, sawDone, text>>

\* The node of the pod is unreachable: Argo gives the pod up, but it goes on.
AbandonPod(p) ==
  /\ pc[p] \in Inside \cup {"read", "acquire"}
  /\ Watched(p)
  /\ Fault
  /\ SetWorkflow(NodeAfter(p, "again", "Error"))
  /\ UNCHANGED <<hlVars, rowPhase, started, lapsed, match, disk, lease, pc, sawDone, text>>

\* The lease of a pod that is gone expires after five minutes.
ExpireLease ==
  /\ lease # None
  /\ pc[lease] = "over"
  /\ lease' = None
  /\ UNCHANGED <<others, match, disk, pc, sawDone, text>>

\* Renewals fail for five minutes; their errors are not looked at.
LapseLease ==
  /\ lease # None
  /\ pc[lease] \in Inside
  /\ Fault
  /\ lapsed' = TRUE
  /\ lease' = None
  /\ UNCHANGED <<hlVars, wf, started, recVars, match, disk, pc, sawDone, text>>

\* The node has a final state, or will never be started.
NodeOver ==
  \/ wf.node \notin {"waiting", "running"}
  \/ wf.node = "waiting" /\ HighlightsFailed

EndWorkflow ==
  /\ wf.phase = "Running"
  /\ NodeOver
  /\ HighlightsDone \/ HighlightsFailed \/ wf.node # "Succeeded"
  /\ LET phase == IF HighlightsFailed THEN "Failed" ELSE wf.node
     IN  SetWorkflow([wf EXCEPT !.phase = phase])
  /\ UNCHANGED <<hlVars, rowPhase, faults, started, lapsed, match, disk, lease, pc,
                 sawDone, text>>

-----------------------------------------------------------------------------
(* The reconciler of match-controller                                      *)

ListWorkflow ==
  /\ rec.at = "list"
  /\ rec' = [at |-> "sync", phase |-> wf.phase, mark |-> wf.mark, current |-> TRUE]
  /\ UNCHANGED <<hlVars, argoVars, rowPhase, lapsed, match, disk, lease, pc, sawDone, text>>

\* Faulty variant: failed workflows are retried instead of errored ones.
RetriesFailed == rec.phase = "Failed" /\ ~rec.mark

Retries == rec.phase = "Error" /\ ~rec.mark

SyncRows ==
  /\ rec.at = "sync"
  /\ rowPhase' = rec.phase
  /\ rec' = IF Retries THEN [rec EXCEPT !.at = "retry"] ELSE Listing
  /\ UNCHANGED <<hlVars, argoVars, lapsed, match, disk, lease, pc, sawDone, text>>

\* Argo resets the nodes that did not succeed; the answer may come too late.
RetryWorkflow ==
  /\ rec.at = "retry"
  /\ LET retried == [wf EXCEPT !.phase = "Running", !.node = "waiting", !.tries = 0]
     IN  IF wf.phase = "Error"
         THEN /\ wf' = retried
              /\ \/ rec' = [rec EXCEPT !.at = "mark", !.current = FALSE]
                 \/ rec' = Listing
         ELSE wf' = wf /\ rec' = Listing
  /\ UNCHANGED <<hlVars, started, faults, rowPhase, lapsed, match, disk, lease, pc,
                 sawDone, text>>

\* The listed copy is written back, and refused if the workflow has changed.
MarkRecovery ==
  /\ rec.at = "mark"
  /\ wf' = IF rec.current THEN [wf EXCEPT !.mark = TRUE] ELSE wf
  /\ rec' = Listing
  /\ UNCHANGED <<hlVars, started, faults, rowPhase, lapsed, match, disk, lease, pc,
                 sawDone, text>>

-----------------------------------------------------------------------------
PodStep(p) ==
  \/ ReadMatch(p) \/ AcquireLease(p)
  \/ RecoverReport(p) \/ RecoverNoReport(p) \/ GenerateReport(p)
  \/ StageJson(p) \/ PublishJson(p) \/ StageMd(p) \/ PublishMd(p)
  \/ SaveReport(p) \/ StageReadme(p) \/ PublishReadme(p)
  \/ Exit(p) \/ LoseTmp(p)

Argo      == StartPod \/ EndWorkflow
Reconcile == ListWorkflow \/ SyncRows \/ RetryWorkflow \/ MarkRecovery

HighlightStep == HighlightsWork /\ UNCHANGED mrVars

Next ==
  \/ HighlightStep
  \/ HighlightsBackfill /\ UNCHANGED mrVars
  \/ faults + lost < MaxFaults /\ HighlightsMishap /\ UNCHANGED mrVars
  \/ MarkDone
  \/ \E p \in Pods : PodStep(p) \/ FailPod(p) \/ KillPod(p) \/ AbandonPod(p)
  \/ ExpireLease \/ LapseLease
  \/ Argo \/ Reconcile

(***************************************************************************)
(* Running pods and the controllers keep going and a lease has a time to   *)
(* live; whether the scan writes DONE, and when, is left open.             *)
(***************************************************************************)
Fairness ==
  /\ WF_vars(HighlightStep)
  /\ \A p \in Pods : WF_vars(PodStep(p))
  /\ WF_vars(ExpireLease) /\ WF_vars(Argo) /\ WF_vars(Reconcile)

Spec == Init /\ [][Next]_vars

FairSpec == Spec /\ Fairness

-----------------------------------------------------------------------------
(***************************************************************************)
(* The report in the match row, report.json, report.md and the report in   *)
(* README.md are the same one, whatever pods were lost between which files *)
(* and however many ran side by side.  Only a lease that expires under its *)
(* holder (Lease.renew ignores its errors) can part them.                  *)
(***************************************************************************)
ReportAgrees ==
  ~lapsed =>
    /\ match.report # None => disk.json = match.report /\ disk.md = match.report
    /\ disk.readme.report # None => disk.readme.report = match.report

(***************************************************************************)
(* A saved report is never replaced: the notifier may have shown it.  A    *)
(* pod that read the match before, and waited for the lease, recovers the  *)
(* report from the files instead of having another one written.            *)
(***************************************************************************)
SavedReportIsFinal ==
  [][~lapsed' /\ match.report # None => match'.report = match.report]_vars

(***************************************************************************)
(* When the highlight tasks have succeeded, the rows shown as AVAILABLE    *)
(* are those with finished artifacts, although reviews were repeated with  *)
(* other verdicts; and README.md features no clip that is not whole,       *)
(* although it is rendered while clips are being made.                     *)
(***************************************************************************)
ClipsDelivered ==
  /\ HighlightsDone =>
       \A c \in Candidates : clip[c] = "AVAILABLE" <=> c \in ready
  /\ \A c \in ready \cup disk.readme.clips : Whole(c)

(***************************************************************************)
(* The outcome reaches the match row.  The phase written by the reconciler *)
(* ends up as that of the workflow; and the report is saved, through lost  *)
(* pods, leases left behind and a workflow that ended in Error, unless the *)
(* workflow failed or a pod read the match before the scan had completed   *)
(* it: manifest-job then succeeds without a report and is not run again.   *)
(***************************************************************************)
OutcomeReachesRow ==
  /\ <>[](rowPhase = wf.phase)
  /\ <>(\/ match.report # None
        \/ wf.phase = "Failed"
        \/ \E p \in Pods : pc[p] \notin {"new", "read"} /\ ~sawDone[p])
=============================================================================
