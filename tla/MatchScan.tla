----------------------------- MODULE MatchScan -----------------------------
(***************************************************************************)
(* The scan loop of match-controller for one match.  Every five seconds a  *)
(* controller fetches the official schedule and turns the change since its *)
(* last processed snapshot (kept in Redis) into rows of PostgreSQL: the    *)
(* match row, and one row per round that record-job, danmu-job and the     *)
(* round gates poll.  Each call to Redis, PostgreSQL or Argo is a step of  *)
(* its own; between any two of them the call may fail or the process die,  *)
(* and another controller that still believes it leads may run.            *)
(***************************************************************************)
EXTENDS Scoring

CONSTANTS
  Controllers,     \* controller processes that may run the loop
  PlanGames,       \* planGameCount of the match; 0 when the schedule has none
  MaxGames,        \* bound on the games of a match without a plan
  Paced,           \* TRUE: the schedule waits until its last change is processed
  MaxFaults,       \* bound on failed calls and crashes
  MaxLosses,       \* bound on expiries of the Redis snapshot
  MaxCorrections   \* bound on wins moved from one side to the other

ASSUME ScanAssumption ==
  /\ Controllers # {}
  /\ PlanGames \in Nat
  /\ MaxGames \in Nat
  /\ Paced \in BOOLEAN
  /\ MaxFaults \in Nat
  /\ MaxLosses \in Nat
  /\ MaxCorrections \in Nat

GameLimit == IF PlanGames > 0 THEN PlanGames ELSE MaxGames

RoundNos == 1..(GameLimit + 1)

MatchStatus == {"WAITING", "STARTED", "DONE"}

MatchResult == {"RED", "BLUE", "DRAW", "UNKNOWN"}

Feed == [status : MatchStatus, result : MatchResult,
         red : 0..GameLimit, blue : 0..GameLimit]

VARIABLES
  feed,       \* the match as the official schedule shows it
  row,        \* the match row: latest_status and result
  rounds,     \* the match_round rows by round_no
  snap,       \* the processed snapshot in Redis
  workflow,   \* whether the Argo workflow of the match exists
  pc,         \* next call of each controller
  cur,        \* the schedule entry a controller is processing
  prev,       \* the snapshot it loaded
  todo,       \* rounds it still has to end, with their winners
  phase,      \* which loop filled todo: "delta" or "completed"
  seenRound,  \* the round row it last queried
  seenRow,    \* the match row it last queried
  verdict,    \* the result computed from the round rows
  spent       \* faults, losses and corrections so far

dbVars   == <<row, rounds>>
ctlVars  == <<pc, cur, prev, todo, phase, seenRound, seenRow, verdict>>
vars     == <<feed, row, rounds, snap, workflow, ctlVars, spent>>

NoRound == [status |-> "none", winner |-> NoWinner]
NoRow   == [status |-> "none", result |-> "UNKNOWN"]
NoSnap  == [known |-> FALSE, status |-> "WAITING", red |-> 0, blue |-> 0]
NoFeed  == [status |-> "WAITING", result |-> "UNKNOWN", red |-> 0, blue |-> 0]
NoTodo  == [r \in RoundNos |-> NoWinner]

Snapshot == [known : BOOLEAN, status : MatchStatus,
             red : 0..GameLimit, blue : 0..GameLimit]

MatchRow == [status : MatchStatus \cup {"none"}, result : MatchResult]

RoundRow == [status : {"none", "STARTED", "ENDED"}, winner : Winner \cup {NoWinner}]

Pcs == {"idle", "load", "upsert", "workflow", "reconcile", "queryRound",
        "endRound", "queryCompleted", "queryStart", "startRound",
        "convergeRounds", "convergeRow", "convergeSave", "save"}

TypeOK ==
  /\ feed \in Feed
  /\ row \in MatchRow
  /\ rounds \in [RoundNos -> RoundRow]
  /\ snap \in Snapshot
  /\ workflow \in BOOLEAN
  /\ pc \in [Controllers -> Pcs]
  /\ cur \in [Controllers -> Feed]
  /\ prev \in [Controllers -> Snapshot]
  /\ todo \in [Controllers -> [RoundNos -> Winner \cup {NoWinner}]]
  /\ phase \in [Controllers -> {"delta", "completed"}]
  /\ seenRound \in [Controllers -> RoundRow]
  /\ seenRow \in [Controllers -> MatchRow]
  /\ verdict \in [Controllers -> MatchResult]
  /\ spent \in [fault : 0..MaxFaults, loss : 0..MaxLosses,
                correction : 0..MaxCorrections]

Init ==
  /\ feed = NoFeed
  /\ row = NoRow
  /\ rounds = [r \in RoundNos |-> NoRound]
  /\ snap = NoSnap
  /\ workflow = FALSE
  /\ pc = [c \in Controllers |-> "idle"]
  /\ cur = [c \in Controllers |-> NoFeed]
  /\ prev = [c \in Controllers |-> NoSnap]
  /\ todo = [c \in Controllers |-> NoTodo]
  /\ phase = [c \in Controllers |-> "delta"]
  /\ seenRound = [c \in Controllers |-> NoRound]
  /\ seenRow = [c \in Controllers |-> NoRow]
  /\ verdict = [c \in Controllers |-> "UNKNOWN"]
  /\ spent = [fault |-> 0, loss |-> 0, correction |-> 0]

-----------------------------------------------------------------------------
(***************************************************************************)
(* The official schedule.  Its entry for a match only moves forward, apart *)
(* from corrections by the referees.                                       *)
(***************************************************************************)

SnapshotOf(f) == [known |-> TRUE, status |-> f.status, red |-> f.red, blue |-> f.blue]

MayChange == Paced => snap = SnapshotOf(feed)

\* The match is over: it is decided or every planned game has been played.
Over(f) ==
  \/ PlanGames = 0
  \/ MatchDecided(f, PlanGames)
  \/ Total(f) >= PlanGames

Outcome(f) ==
  IF f.red > f.blue THEN "RED" ELSE IF f.blue > f.red THEN "BLUE" ELSE "DRAW"

FeedStart ==
  /\ MayChange
  /\ feed.status = "WAITING"
  /\ feed' = [feed EXCEPT !.status = "STARTED"]
  /\ UNCHANGED <<dbVars, snap, workflow, ctlVars, spent>>

\* A game is won; the schedule may close the match in the same update.
FeedGame(side) ==
  /\ MayChange
  /\ feed.status = "STARTED"
  /\ ~MatchDecided(feed, PlanGames)
  /\ Total(feed) < GameLimit
  /\ LET next == [feed EXCEPT ![side] = @ + 1]
     IN  \/ feed' = next
         \/ Over(next) /\ feed' = [next EXCEPT !.status = "DONE"]
  /\ UNCHANGED <<dbVars, snap, workflow, ctlVars, spent>>

FeedDone ==
  /\ MayChange
  /\ feed.status = "STARTED"
  /\ Over(feed)
  /\ feed' = [feed EXCEPT !.status = "DONE"]
  /\ UNCHANGED <<dbVars, snap, workflow, ctlVars, spent>>

FeedResult ==
  /\ MayChange
  /\ feed.status = "DONE"
  /\ feed.result = "UNKNOWN"
  /\ feed' = [feed EXCEPT !.result = Outcome(feed)]
  /\ UNCHANGED <<dbVars, snap, workflow, ctlVars, spent>>

\* A won game is awarded to the other side after a protest.
FeedCorrection(from, to) ==
  /\ MayChange
  /\ spent.correction < MaxCorrections
  /\ feed.status = "STARTED"
  /\ from # to
  /\ feed[from] > 0
  /\ feed' = [feed EXCEPT ![from] = @ - 1, ![to] = @ + 1]
  /\ spent' = [spent EXCEPT !.correction = @ + 1]
  /\ UNCHANGED <<dbVars, snap, workflow, ctlVars>>

FeedNext ==
  \/ FeedStart \/ FeedDone \/ FeedResult
  \/ \E side \in Side : FeedGame(side)
  \/ \E from, to \in Side : FeedCorrection(from, to)

-----------------------------------------------------------------------------
(***************************************************************************)
(* One scan of the match.                                                  *)
(***************************************************************************)

At(c, label) == pc[c] = label

Goto(c, label) == pc' = [pc EXCEPT ![c] = label]

\* upsertMatch returns: its locals are gone and the controller waits for a tick.
Return(c) ==
  /\ Goto(c, "idle")
  /\ cur' = [cur EXCEPT ![c] = NoFeed]
  /\ prev' = [prev EXCEPT ![c] = NoSnap]
  /\ todo' = [todo EXCEPT ![c] = NoTodo]
  /\ phase' = [phase EXCEPT ![c] = "delta"]
  /\ seenRound' = [seenRound EXCEPT ![c] = NoRound]
  /\ seenRow' = [seenRow EXCEPT ![c] = NoRow]
  /\ verdict' = [verdict EXCEPT ![c] = "UNKNOWN"]

\* latestStatusForUpsert: a decided match that is not being played is DONE.
LatestStatus(f) ==
  IF f.status # "STARTED" /\ MatchDecided(f, PlanGames) THEN "DONE" ELSE f.status

\* The rounds are reconciled only against an earlier snapshot.
AfterUpsert(c) == IF prev[c].known THEN "reconcile" ELSE "convergeRounds"

FetchSchedule(c) ==
  /\ At(c, "idle")
  /\ cur' = [cur EXCEPT ![c] = feed]
  /\ Goto(c, "load")
  /\ UNCHANGED <<feed, dbVars, snap, workflow, prev, todo, phase,
                 seenRound, seenRow, verdict, spent>>

LoadSnapshot(c) ==
  /\ At(c, "load")
  /\ prev' = [prev EXCEPT ![c] = snap]
  /\ Goto(c, "upsert")
  /\ UNCHANGED <<feed, dbVars, snap, workflow, cur, todo, phase,
                 seenRound, seenRow, verdict, spent>>

UpsertMatch(c) ==
  /\ At(c, "upsert")
  /\ row' = [status |-> LatestStatus(cur[c]), result |-> cur[c].result]
  /\ Goto(c, IF LatestStatus(cur[c]) = "STARTED" THEN "workflow" ELSE AfterUpsert(c))
  /\ UNCHANGED <<feed, rounds, snap, workflow, cur, prev, todo, phase,
                 seenRound, seenRow, verdict, spent>>

EnsureMatchWorkflow(c) ==
  /\ At(c, "workflow")
  /\ workflow' = TRUE
  /\ Goto(c, AfterUpsert(c))
  /\ UNCHANGED <<feed, dbVars, snap, cur, prev, todo, phase,
                 seenRound, seenRow, verdict, spent>>

\* Rounds to end, numbered from first on.
Worklist(first, winners) ==
  [r \in RoundNos |-> IF r - first + 1 \in DOMAIN winners
                      THEN winners[r - first + 1] ELSE NoWinner]

\* reconcileRounds, first loop: wins scored since a STARTED snapshot.
ReconcileRounds(c) ==
  /\ At(c, "reconcile")
  /\ LET endTo == ClampToPlan(Total(cur[c]), PlanGames)
         ended == WinnersFromDelta(prev[c], cur[c], endTo - Total(prev[c]))
     IN  todo' = [todo EXCEPT ![c] =
                    IF prev[c].status = "STARTED"
                    THEN Worklist(Total(prev[c]) + 1, ended) ELSE NoTodo]
  /\ phase' = [phase EXCEPT ![c] = "delta"]
  /\ Goto(c, "queryRound")
  /\ UNCHANGED <<feed, dbVars, snap, workflow, cur, prev,
                 seenRound, seenRow, verdict, spent>>

Pending(c) == {r \in RoundNos : todo[c][r] # NoWinner}

\* The loop ends the rounds in ascending order.
IsDue(c, r) == \A s \in Pending(c) : r <= s

\* ensureEndedRound, the query of the row.
QueryRound(c) ==
  /\ At(c, "queryRound")
  /\ \E r \in Pending(c) :
       IsDue(c, r) /\ seenRound' = [seenRound EXCEPT ![c] = rounds[r]]
  /\ Goto(c, "endRound")
  /\ UNCHANGED <<feed, dbVars, snap, workflow, cur, prev, todo, phase,
                 seenRow, verdict, spent>>

\* The row ensureEndedRound leaves: a row created meanwhile by another
\* controller violates the unique index, which is taken as success.
EndedRow(seen, present, winner) ==
  IF \/ seen = NoRound /\ present # NoRound
     \/ seen.status = "ENDED" /\ seen.winner = winner
  THEN present
  ELSE [status |-> "ENDED", winner |-> winner]

EndRound(c) ==
  /\ At(c, "endRound")
  /\ \E r \in Pending(c) :
       /\ IsDue(c, r)
       /\ rounds' = [rounds EXCEPT ![r] = EndedRow(seenRound[c], @, todo[c][r])]
       /\ todo' = [todo EXCEPT ![c][r] = NoWinner]
  /\ seenRound' = [seenRound EXCEPT ![c] = NoRound]
  /\ Goto(c, "queryRound")
  /\ UNCHANGED <<feed, row, snap, workflow, cur, prev, phase,
                 seenRow, verdict, spent>>

\* Faulty variant: a decided match that is not closed yet gets another round.
AfterEndingUndecided(c) ==
  IF phase[c] = "completed" THEN "convergeRounds"
  ELSE IF cur[c].status = "STARTED" THEN "queryStart" ELSE "queryCompleted"

\* Faulty variant: rounds of a closed match are not completed from its score.
AfterEndingIncomplete(c) ==
  IF cur[c].status = "STARTED" /\ ~MatchDecided(cur[c], PlanGames)
  THEN "queryStart" ELSE "convergeRounds"

\* What reconcileRounds does once the list of ended rounds is exhausted.
AfterEnding(c) ==
  IF phase[c] = "completed" \/ (/\ cur[c].status = "STARTED"
                                /\ MatchDecided(cur[c], PlanGames))
  THEN "convergeRounds"
  ELSE IF cur[c].status = "STARTED" THEN "queryStart" ELSE "queryCompleted"

RoundsEnded(c) ==
  /\ At(c, "queryRound")
  /\ Pending(c) = {}
  /\ Goto(c, AfterEnding(c))
  /\ UNCHANGED <<feed, dbVars, snap, workflow, cur, prev, todo, phase,
                 seenRound, seenRow, verdict, spent>>

\* convergeCompletedRounds: the final score decides every round it counts.
QueryCompleted(c) ==
  /\ At(c, "queryCompleted")
  /\ LET expected == ClampToPlan(Total(cur[c]), PlanGames)
         recorded == [r \in 1..expected |-> rounds[r].winner]
     IN  todo' = [todo EXCEPT ![c] =
                    IF expected > 0
                    THEN Worklist(1, AuthoritativeWinners(recorded, cur[c]))
                    ELSE NoTodo]
  /\ phase' = [phase EXCEPT ![c] = "completed"]
  /\ Goto(c, "queryRound")
  /\ UNCHANGED <<feed, dbVars, snap, workflow, cur, prev,
                 seenRound, seenRow, verdict, spent>>

\* Faulty variant: the last round of the plan is taken to be beyond it.
QueryStartInner(c) ==
  /\ At(c, "queryStart")
  /\ LET r == RoundNo(cur[c])
     IN  Goto(c, IF (PlanGames > 0 /\ r >= PlanGames) \/ rounds[r] # NoRound
                 THEN "convergeRounds" ELSE "startRound")
  /\ UNCHANGED <<feed, dbVars, snap, workflow, cur, prev, todo, phase,
                 seenRound, seenRow, verdict, spent>>

\* ensureStartedRound, the query of the row; rounds beyond the plan are not opened.
QueryStart(c) ==
  /\ At(c, "queryStart")
  /\ LET r == RoundNo(cur[c])
     IN  Goto(c, IF (PlanGames > 0 /\ r > PlanGames) \/ rounds[r] # NoRound
                 THEN "convergeRounds" ELSE "startRound")
  /\ UNCHANGED <<feed, dbVars, snap, workflow, cur, prev, todo, phase,
                 seenRound, seenRow, verdict, spent>>

\* Faulty variant: a row that is already there is set to STARTED.
StartedRowUpsert(present) == [status |-> "STARTED", winner |-> NoWinner]

\* The row ensureStartedRound leaves: it creates one, or the unique index
\* rejects the creation.
StartedRow(present) ==
  IF present = NoRound THEN [status |-> "STARTED", winner |-> NoWinner] ELSE present

StartRound(c) ==
  /\ At(c, "startRound")
  /\ rounds' = [rounds EXCEPT ![RoundNo(cur[c])] = StartedRow(@)]
  /\ Goto(c, "convergeRounds")
  /\ UNCHANGED <<feed, row, snap, workflow, cur, prev, todo, phase,
                 seenRound, seenRow, verdict, spent>>

RoundsIn(status) == {r \in RoundNos : rounds[r].status = status}

Present == {r \in RoundNos : rounds[r] # NoRound}

WinsInRows(side) == Cardinality({r \in RoundNos : rounds[r].winner = side})

\* The score recorded in the round rows.
RowScore == [red |-> WinsInRows("red"), blue |-> WinsInRows("blue")]

\* The round rows by themselves say that the match is over.
CompleteByRows ==
  /\ Present # {}
  /\ RoundsIn("ENDED") = Present
  /\ \/ MatchDecided(RowScore, PlanGames)
     \/ PlanGames > 0 /\ Cardinality(Present) >= PlanGames

\* convergeMatchLatestStatus, the query of the rounds.
ConvergeRounds(c) ==
  /\ At(c, "convergeRounds")
  /\ IF cur[c].status # "STARTED" /\ CompleteByRows
     THEN /\ verdict' = [verdict EXCEPT ![c] = Outcome(RowScore)]
          /\ Goto(c, "convergeRow")
     ELSE /\ Goto(c, "save")
          /\ UNCHANGED verdict
  /\ UNCHANGED <<feed, dbVars, snap, workflow, cur, prev, todo, phase,
                 seenRound, seenRow, spent>>

\* The query of the match row: nothing to do if it is DONE with a result.
ConvergeRow(c) ==
  /\ At(c, "convergeRow")
  /\ seenRow' = [seenRow EXCEPT ![c] = row]
  /\ Goto(c, IF row.status = "DONE" /\ row.result # "UNKNOWN"
             THEN "save" ELSE "convergeSave")
  /\ UNCHANGED <<feed, dbVars, snap, workflow, cur, prev, todo, phase,
                 seenRound, verdict, spent>>

\* Only the columns found wanting are set.
ConvergeSave(c) ==
  /\ At(c, "convergeSave")
  /\ row' = [status |-> IF seenRow[c].status # "DONE" THEN "DONE" ELSE row.status,
             result |-> IF seenRow[c].result = "UNKNOWN" THEN verdict[c] ELSE row.result]
  /\ Goto(c, "save")
  /\ UNCHANGED <<feed, rounds, snap, workflow, cur, prev, todo, phase,
                 seenRound, seenRow, verdict, spent>>

SaveSnapshot(c) ==
  /\ At(c, "save")
  /\ snap' = SnapshotOf(cur[c])
  /\ Return(c)
  /\ UNCHANGED <<feed, dbVars, workflow, spent>>

Scan(c) ==
  \/ FetchSchedule(c) \/ LoadSnapshot(c) \/ UpsertMatch(c)
  \/ EnsureMatchWorkflow(c) \/ ReconcileRounds(c)
  \/ QueryRound(c) \/ EndRound(c) \/ RoundsEnded(c) \/ QueryCompleted(c)
  \/ QueryStart(c) \/ StartRound(c)
  \/ ConvergeRounds(c) \/ ConvergeRow(c) \/ ConvergeSave(c) \/ SaveSnapshot(c)

-----------------------------------------------------------------------------
(***************************************************************************)
(* The next call fails, the one-minute context expires or the process      *)
(* dies: upsertMatch returns early and the next scan starts over.          *)
(***************************************************************************)
Fail(c) ==
  /\ pc[c] # "idle"
  /\ spent.fault < MaxFaults
  /\ spent' = [spent EXCEPT !.fault = @ + 1]
  /\ Return(c)
  /\ UNCHANGED <<feed, dbVars, snap, workflow>>

\* The snapshot outlives its 24 hours or Redis is flushed.
LoseSnapshot ==
  /\ snap.known
  /\ spent.loss < MaxLosses
  /\ spent' = [spent EXCEPT !.loss = @ + 1]
  /\ snap' = NoSnap
  /\ UNCHANGED <<feed, dbVars, workflow, ctlVars>>

Next ==
  \/ FeedNext
  \/ \E c \in Controllers : Scan(c) \/ Fail(c)
  \/ LoseSnapshot

(***************************************************************************)
(* A running controller keeps scanning (the ticker of runController); the  *)
(* schedule, the faults and the losses are under no obligation.            *)
(***************************************************************************)
Fairness == \A c \in Controllers : WF_vars(Scan(c))

Spec == Init /\ [][Next]_vars

FairSpec == Spec /\ Fairness

-----------------------------------------------------------------------------
(***************************************************************************)
(* At most one round of a match is being played.  A second STARTED row     *)
(* keeps the recorder and the danmu logger of the abandoned round running  *)
(* (ensureStartedRound against ensureEndedRound).                          *)
(***************************************************************************)
SingleActiveRound == Cardinality(RoundsIn("STARTED")) <= 1

(***************************************************************************)
(* No round is opened after the deciding game, whatever the interleaving   *)
(* of scans and schedule (the matchDecided test of reconcileRounds); only  *)
(* a correction may decide the match behind an opened round.               *)
(***************************************************************************)
NoRoundPastDecision ==
  MatchDecided(feed, PlanGames) /\ spent.correction = 0 => \A r \in Present : r <= Total(feed)

(***************************************************************************)
(* An ENDED row never goes back to STARTED and never disappears: the round *)
(* gates, record-job and danmu-job act on ENDED irrevocably.               *)
(***************************************************************************)
EndedIsFinal ==
  [][\A r \in RoundNos : rounds[r].status = "ENDED" => rounds'[r].status = "ENDED"]_vars

(***************************************************************************)
(* Once the schedule closes a match, its score ends up in the rows and     *)
(* stays there: every round it counts is ENDED, each side is credited with *)
(* its wins and the match row is DONE, in spite of failed scans, a lost    *)
(* snapshot, corrected games or a takeover (convergeCompletedRounds).      *)
(***************************************************************************)
ScoreInRows ==
  /\ 1..Total(feed) \subseteq RoundsIn("ENDED")
  /\ \A side \in Side : WinsInRows(side) = feed[side]
  /\ row.status = "DONE"

ScoreSettles == <>[](feed.status = "DONE" => ScoreInRows)

(***************************************************************************)
(* Every round that was opened is closed once the match is over, so each   *)
(* record-job gets the stop it waits for.  A correction that decides the   *)
(* match behind an opened round defeats this, and so does a match closed   *)
(* short of its decision.                                                  *)
(***************************************************************************)
NothingLeftOpen ==
  <>[](feed.status = "DONE" /\ spent.correction = 0 => RoundsIn("STARTED") = {})

=============================================================================
