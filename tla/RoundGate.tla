----------------------------- MODULE RoundGate -----------------------------
(***************************************************************************)
(* The gates that the match workflow starts for its rounds, against the    *)
(* scanner that writes the rows they poll.  A gate waits for its round     *)
(* with two separate queries per poll, first the match row and then the    *)
(* round row.  RoundCapture has the jobs that an active round starts.      *)
(***************************************************************************)
EXTENDS MatchScan

CONSTANTS
  TemplateRounds   \* rounds unrolled in the workflow template

ASSUME GateAssumption == TemplateRounds \in Nat \ {0}

VARIABLES
  gate,      \* state of each round's gate task
  gateRow,   \* latest_status read by the current poll of the gate
  outrun     \* history: the schedule changed before every gate saw its round

gateVars == <<gate, gateRow, outrun>>
allVars  == <<vars, gateVars>>

GateNos == 1..TemplateRounds

\* planGameCount as ensureMatchWorkflow passes it to the gates.
GatePlan == IF PlanGames <= 0 THEN 5 ELSE AtMost(PlanGames, 5)

GateInit ==
  /\ Init
  /\ gate = [r \in GateNos |-> "waiting"]
  /\ gateRow = [r \in GateNos |-> "none"]
  /\ outrun = FALSE

\* Rows of rounds that the scanner cannot create do not exist.
RoundRowAt(r) == IF r \in RoundNos THEN rounds[r] ELSE NoRound

StartGate(r) ==
  /\ gate[r] = "waiting"
  /\ workflow
  /\ gate' = [gate EXCEPT ![r] = IF r > GatePlan THEN "beyondPlan" ELSE "readMatch"]
  /\ UNCHANGED <<vars, gateRow, outrun>>

GateReadsMatch(r) ==
  /\ gate[r] = "readMatch"
  /\ gateRow' = [gateRow EXCEPT ![r] = row.status]
  /\ gate' = [gate EXCEPT ![r] = "readRound"]
  /\ UNCHANGED <<vars, outrun>>

\* Faulty variants: the match row decides before the round row; a finished match
\* is not recognised.

GateVerdictMatchFirst(matchStatus, roundRow) ==
  CASE matchStatus = "DONE"        -> "skipped"
    [] roundRow.status = "STARTED" -> "active"
    [] roundRow.status = "ENDED"   -> "failed"
    [] OTHER -> "readMatch"

GateVerdictNoSkip(matchStatus, roundRow) ==
  CASE roundRow.status = "STARTED" -> "active"
    [] roundRow.status = "ENDED"   -> "failed"
    [] OTHER -> "readMatch"

\* What a poll makes of the two rows it read; "readMatch" is the next poll.
GateVerdict(matchStatus, roundRow) ==
  CASE roundRow.status = "STARTED" -> "active"
    [] roundRow.status = "ENDED"   -> "failed"
    [] roundRow.status = "none" /\ matchStatus = "DONE" -> "skipped"
    [] OTHER -> "readMatch"

GateReadsRound(r) ==
  /\ gate[r] = "readRound"
  /\ gate' = [gate EXCEPT ![r] = GateVerdict(gateRow[r], RoundRowAt(r))]
  /\ gateRow' = [gateRow EXCEPT ![r] = "none"]
  /\ UNCHANGED <<vars, outrun>>

\* A query of the poll fails: the gate exits with an error and is not retried.
BreakGate(r) ==
  /\ gate[r] \in {"readMatch", "readRound"}
  /\ spent.fault < MaxFaults
  /\ spent' = [spent EXCEPT !.fault = @ + 1]
  /\ gate' = [gate EXCEPT ![r] = "broken"]
  /\ gateRow' = [gateRow EXCEPT ![r] = "none"]
  /\ UNCHANGED <<feed, row, rounds, snap, workflow, ctlVars, outrun>>

GateStep(r) == StartGate(r) \/ GateReadsMatch(r) \/ GateReadsRound(r)

\* The gates of the rounds that exist have seen them.
GatesSettled ==
  \A r \in GateNos : RoundRowAt(r).status = "STARTED" => gate[r] = "active"

FeedStep ==
  /\ FeedNext
  /\ outrun' = (outrun \/ ~GatesSettled)
  /\ UNCHANGED <<gate, gateRow>>

ScanStep == (\E c \in Controllers : Scan(c) \/ Fail(c)) \/ LoseSnapshot

GateNext ==
  \/ FeedStep
  \/ ScanStep /\ UNCHANGED gateVars
  \/ \E r \in GateNos : GateStep(r) \/ BreakGate(r)

(***************************************************************************)
(* The scanner and the two-second ticker of a gate keep running.           *)
(***************************************************************************)
GateFairness ==
  /\ \A c \in Controllers : WF_allVars(Scan(c) /\ UNCHANGED gateVars)
  /\ \A r \in GateNos : WF_allVars(GateStep(r))

GateSpec == GateInit /\ [][GateNext]_allVars /\ GateFairness

-----------------------------------------------------------------------------
(***************************************************************************)
(* A gate that reports "match-done" reports a round that is never played:  *)
(* the row read first and the round read second come from different        *)
(* moments, and upsertMatch writes DONE before it ends the last rounds.    *)
(***************************************************************************)
SkippedNeverPlayed ==
  \A r \in GateNos : gate[r] = "skipped" => RoundRowAt(r) = NoRound

(***************************************************************************)
(* As long as the polls outrun the schedule, every round the scanner opens *)
(* is handed to its recorder: no gate finds its round already ENDED, which *)
(* would fail the workflow.                                                *)
(***************************************************************************)
NoRoundMissed == ~outrun => \A r \in GateNos : gate[r] # "failed"

(***************************************************************************)
(* Once the schedule closes the match no gate waits forever: the workflow  *)
(* of a finished match does not hang on a round that is not played.        *)
(***************************************************************************)
GatesFinish ==
  [](feed.status = "DONE" /\ workflow =>
       <>[]\A r \in GateNos :
             gate[r] \in {"active", "skipped", "beyondPlan", "failed", "broken"})
=============================================================================
