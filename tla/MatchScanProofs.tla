-------------------------- MODULE MatchScanProofs --------------------------
(***************************************************************************)
(* Proofs about the scanner of match-controller and what is built on it,   *)
(* for every plan and any number of faults.  For any number of             *)
(* controllers: types, the finality of ENDED rounds, and no round past the *)
(* decision.  Under Ordered, which makes it one controller:                *)
(*  - OrderInv is inductive, and from it: at most one round is being       *)
(*    played, and the scanner implements RoundBook;                        *)
(*  - a round whose gate reported match-done is never played, and no gate  *)
(*    that keeps up with the schedule misses its round: nothing is opened  *)
(*    once the match row says DONE;                                        *)
(*  - authoritativeWinners fills every table as the score says, the rows   *)
(*    name the winners of the games that were played, and once a scan of   *)
(*    the final score is complete they have it for good.                   *)
(***************************************************************************)
EXTENDS RoundGate, ScanHistory, FiniteSetTheorems, WellFoundedInduction, TLAPS

USE ScanAssumption

\* The types, and the bound on the score that keeps each side's wins in range.
TypeInv == TypeOK /\ Total(feed) <= GameLimit

\* The bound on rounds is a number, and RoundNos covers the score in play.
LEMMA GameLimitType == GameLimit \in Nat
  BY DEF GameLimit

\* The locals of a controller that is not scanning have their types.
LEMMA RestTypes ==
  /\ NoFeed \in Feed
  /\ NoRow \in MatchRow
  /\ NoRound \in RoundRow
  /\ NoSnap \in Snapshot
  /\ NoTodo \in [RoundNos -> Winner \cup {NoWinner}]
<1> USE GameLimitType
<1>1. NoFeed \in Feed
  BY DEF NoFeed, Feed, MatchStatus, MatchResult
<1>2. NoRow \in MatchRow
  BY DEF NoRow, MatchRow, MatchResult
<1>3. NoRound \in RoundRow
  BY DEF NoRound, RoundRow
<1>4. NoSnap \in Snapshot
  BY DEF NoSnap, Snapshot, MatchStatus
<1>5. NoTodo \in [RoundNos -> Winner \cup {NoWinner}]
  BY DEF NoTodo
<1>6. QED
  BY <1>1, <1>2, <1>3, <1>4, <1>5

LEMMA InitType == Init => TypeInv
<1> SUFFICES ASSUME Init PROVE TypeInv
  OBVIOUS
<1> USE GameLimitType, RestTypes DEF Init
<1>1. feed \in Feed /\ row \in MatchRow /\ snap \in Snapshot /\ workflow \in BOOLEAN
  OBVIOUS
<1>2. rounds \in [RoundNos -> RoundRow]
  OBVIOUS
<1>3. pc \in [Controllers -> Pcs]
  BY DEF Pcs
<1>4. /\ cur \in [Controllers -> Feed]
      /\ prev \in [Controllers -> Snapshot]
      /\ todo \in [Controllers -> [RoundNos -> Winner \cup {NoWinner}]]
  OBVIOUS
<1>5. /\ phase \in [Controllers -> {"delta", "completed"}]
      /\ seenRound \in [Controllers -> RoundRow]
      /\ seenRow \in [Controllers -> MatchRow]
      /\ verdict \in [Controllers -> MatchResult]
  BY DEF MatchResult
<1>6. spent \in [fault : 0..MaxFaults, loss : 0..MaxLosses,
                 correction : 0..MaxCorrections]
  OBVIOUS
<1>7. Total(feed) <= GameLimit
  BY DEF Total, NoFeed
<1>8. QED
  BY <1>1, <1>2, <1>3, <1>4, <1>5, <1>6, <1>7 DEF TypeInv, TypeOK

LEMMA FeedParts ==
  \A f \in Feed : /\ f.status \in MatchStatus
                  /\ f.result \in MatchResult
                  /\ f.red \in 0..GameLimit
                  /\ f.blue \in 0..GameLimit
  BY DEF Feed

\* A win for either side, while games are left, keeps the score in range.
LEMMA OneMoreWin ==
  ASSUME NEW f \in Feed, Total(f) < GameLimit
  PROVE  /\ [f EXCEPT !.red = f.red + 1] \in Feed
         /\ Total([f EXCEPT !.red = f.red + 1]) = Total(f) + 1
         /\ [f EXCEPT !.blue = f.blue + 1] \in Feed
         /\ Total([f EXCEPT !.blue = f.blue + 1]) = Total(f) + 1
<1>1. f.red + 1 \in 0..GameLimit /\ f.blue + 1 \in 0..GameLimit
  BY GameLimitType, FeedParts DEF Total
<1>2. QED
  BY <1>1, FeedParts DEF Feed, Total

\* So does a win taken from one side and given to the other.
LEMMA MovedWin ==
  ASSUME NEW f \in Feed, Total(f) <= GameLimit
  PROVE  /\ f.red > 0 =>
              /\ [f EXCEPT !.red = f.red - 1, !.blue = f.blue + 1] \in Feed
              /\ Total([f EXCEPT !.red = f.red - 1, !.blue = f.blue + 1]) = Total(f)
         /\ f.blue > 0 =>
              /\ [f EXCEPT !.blue = f.blue - 1, !.red = f.red + 1] \in Feed
              /\ Total([f EXCEPT !.blue = f.blue - 1, !.red = f.red + 1]) = Total(f)
<1>1. /\ f.red > 0 => f.red - 1 \in 0..GameLimit /\ f.blue + 1 \in 0..GameLimit
      /\ f.blue > 0 => f.blue - 1 \in 0..GameLimit /\ f.red + 1 \in 0..GameLimit
  BY GameLimitType, FeedParts DEF Total
<1>2. f.red \in Int /\ f.blue \in Int
  BY FeedParts
<1>3. ASSUME f.red > 0
      PROVE  /\ [f EXCEPT !.red = f.red - 1, !.blue = f.blue + 1] \in Feed
             /\ Total([f EXCEPT !.red = f.red - 1, !.blue = f.blue + 1]) = Total(f)
  <2>1. [f EXCEPT !.red = f.red - 1, !.blue = f.blue + 1] \in Feed
    BY <1>1, <1>3 DEF Feed
  <2>2. /\ [f EXCEPT !.red = f.red - 1, !.blue = f.blue + 1].red = f.red - 1
        /\ [f EXCEPT !.red = f.red - 1, !.blue = f.blue + 1].blue = f.blue + 1
    BY DEF Feed
  <2>3. QED
    BY <1>2, <2>1, <2>2 DEF Total
<1>4. ASSUME f.blue > 0
      PROVE  /\ [f EXCEPT !.blue = f.blue - 1, !.red = f.red + 1] \in Feed
             /\ Total([f EXCEPT !.blue = f.blue - 1, !.red = f.red + 1]) = Total(f)
  <2>1. [f EXCEPT !.blue = f.blue - 1, !.red = f.red + 1] \in Feed
    BY <1>1, <1>4 DEF Feed
  <2>2. /\ [f EXCEPT !.blue = f.blue - 1, !.red = f.red + 1].blue = f.blue - 1
        /\ [f EXCEPT !.blue = f.blue - 1, !.red = f.red + 1].red = f.red + 1
    BY DEF Feed
  <2>3. QED
    BY <1>2, <2>1, <2>2 DEF Total
<1>5. QED
  BY <1>3, <1>4

LEMMA GameKeepsTotal ==
  ASSUME TypeInv, NEW side \in Side, FeedGame(side)
  PROVE  /\ feed' \in Feed /\ Total(feed') = Total(feed) + 1
         /\ Total(feed') <= GameLimit /\ spent' = spent
<1> USE GameLimitType DEF TypeInv, TypeOK
<1> DEFINE next == [feed EXCEPT ![side] = @ + 1]
<1>1. Total(feed) < GameLimit /\ spent' = spent /\ feed \in Feed
  BY DEF FeedGame
<1>2. next \in Feed /\ Total(next) = Total(feed) + 1
  <2>1. CASE side = "red"
    BY <1>1, <2>1, OneMoreWin
  <2>2. CASE side = "blue"
    BY <1>1, <2>2, OneMoreWin
  <2>3. QED
    BY <2>1, <2>2 DEF Side
<1>3. feed' = next \/ feed' = [next EXCEPT !.status = "DONE"]
  BY DEF FeedGame
<1> HIDE DEF next
<1>4. feed' \in Feed /\ Total(feed') = Total(next)
  BY <1>2, <1>3 DEF Feed, MatchStatus, Total
<1>5. Total(feed) \in Int
  BY <1>1, FeedParts DEF Total
<1>6. QED
  BY <1>1, <1>2, <1>4, <1>5

LEMMA CorrectionKeepsTotal ==
  ASSUME TypeInv, NEW from \in Side, NEW to \in Side, FeedCorrection(from, to)
  PROVE  /\ feed' \in Feed /\ Total(feed') = Total(feed) /\ Total(feed') <= GameLimit
         /\ spent' \in [fault : 0..MaxFaults, loss : 0..MaxLosses,
                        correction : 0..MaxCorrections]
<1> USE GameLimitType DEF TypeInv, TypeOK
<1> DEFINE next == [feed EXCEPT ![from] = @ - 1, ![to] = @ + 1]
<1>1. /\ spent.correction < MaxCorrections /\ feed[from] > 0 /\ from # to
      /\ feed' = next
      /\ spent' = [spent EXCEPT !.correction = @ + 1]
  BY DEF FeedCorrection
<1>2. feed \in Feed /\ Total(feed) <= GameLimit
  OBVIOUS
<1>3. next \in Feed /\ Total(next) = Total(feed)
  <2>1. CASE from = "red"
    <3>1. to = "blue"
      BY <1>1, <2>1 DEF Side
    <3>2. next = [feed EXCEPT !.red = feed.red - 1, !.blue = feed.blue + 1]
      BY <2>1, <3>1
    <3>3. QED
      BY <1>1, <1>2, <2>1, <3>2, MovedWin
  <2>2. CASE from = "blue"
    <3>1. to = "red"
      BY <1>1, <2>2 DEF Side
    <3>2. next = [feed EXCEPT !.blue = feed.blue - 1, !.red = feed.red + 1]
      BY <2>2, <3>1
    <3>3. QED
      BY <1>1, <1>2, <2>2, <3>2, MovedWin
  <2>3. QED
    BY <2>1, <2>2 DEF Side
<1>4. spent' \in [fault : 0..MaxFaults, loss : 0..MaxLosses,
                 correction : 0..MaxCorrections]
  BY <1>1
<1>5. QED
  BY <1>1, <1>2, <1>3, <1>4

LEMMA FeedType == TypeInv /\ FeedNext => TypeInv'
<1> SUFFICES ASSUME TypeInv, FeedNext
             PROVE  feed' \in Feed /\ Total(feed') <= GameLimit
                    /\ spent' \in [fault : 0..MaxFaults, loss : 0..MaxLosses,
                                   correction : 0..MaxCorrections]
  BY DEF FeedNext, FeedStart, FeedDone, FeedResult, FeedGame, FeedCorrection,
         TypeInv, TypeOK, Total, dbVars, ctlVars
<1> USE GameLimitType DEF TypeInv, TypeOK
<1>1. CASE FeedStart
  BY <1>1 DEF FeedStart, Feed, MatchStatus, Total
<1>2. CASE FeedDone
  BY <1>2 DEF FeedDone, Feed, MatchStatus, Total
<1>3. CASE FeedResult
  BY <1>3 DEF FeedResult, Feed, MatchResult, Outcome, Total
<1>4. ASSUME NEW side \in Side, FeedGame(side)
      PROVE  feed' \in Feed /\ Total(feed') <= GameLimit /\ spent' = spent
  BY <1>4, GameKeepsTotal
<1>5. ASSUME NEW from \in Side, NEW to \in Side, FeedCorrection(from, to)
      PROVE  /\ feed' \in Feed /\ Total(feed') <= GameLimit
             /\ spent' \in [fault : 0..MaxFaults, loss : 0..MaxLosses,
                            correction : 0..MaxCorrections]
  BY <1>5, CorrectionKeepsTotal
<1>6. QED
  BY <1>1, <1>2, <1>3, <1>4, <1>5 DEF FeedNext, FeedStart, FeedDone, FeedResult
-----------------------------------------------------------------------------
LEMMA DeltaWinners ==
  ASSUME NEW p, NEW f, NEW n
  PROVE  \A i \in DOMAIN WinnersFromDelta(p, f, n) :
            WinnersFromDelta(p, f, n)[i] \in Winner
  BY DEF WinnersFromDelta, Winner, Side

LEMMA FinalWinners ==
  ASSUME NEW recorded, NEW f
  PROVE  \A i \in DOMAIN AuthoritativeWinners(recorded, f) :
            AuthoritativeWinners(recorded, f)[i] \in Winner
  BY DEF AuthoritativeWinners, Winner, Side

LEMMA WorklistType ==
  ASSUME NEW first, NEW winners, \A i \in DOMAIN winners : winners[i] \in Winner
  PROVE  Worklist(first, winners) \in [RoundNos -> Winner \cup {NoWinner}]
  BY DEF Worklist

LEMMA LatestStatusType ==
  ASSUME NEW f \in Feed PROVE LatestStatus(f) \in MatchStatus
  BY FeedParts DEF LatestStatus, MatchStatus

LEMMA EndedRowType ==
  ASSUME NEW seen, NEW present \in RoundRow, NEW winner \in Winner \cup {NoWinner}
  PROVE  EndedRow(seen, present, winner) \in RoundRow
  BY DEF EndedRow, RoundRow

LEMMA StartedRowType ==
  ASSUME NEW present \in RoundRow PROVE StartedRow(present) \in RoundRow
  BY DEF StartedRow, RoundRow

LEMMA ReturnType ==
  ASSUME TypeInv, NEW c \in Controllers, Return(c),
         UNCHANGED <<feed, dbVars, workflow>>, snap' \in Snapshot,
         spent' \in [fault : 0..MaxFaults, loss : 0..MaxLosses,
                     correction : 0..MaxCorrections]
  PROVE  TypeInv'
<1> USE RestTypes DEF TypeInv, TypeOK, Return, Goto, dbVars
<1>1. /\ pc' \in [Controllers -> Pcs]
      /\ cur' \in [Controllers -> Feed]
      /\ prev' \in [Controllers -> Snapshot]
  BY DEF Pcs
<1>2. /\ todo' \in [Controllers -> [RoundNos -> Winner \cup {NoWinner}]]
      /\ phase' \in [Controllers -> {"delta", "completed"}]
      /\ seenRound' \in [Controllers -> RoundRow]
  OBVIOUS
<1>3. /\ seenRow' \in [Controllers -> MatchRow]
      /\ verdict' \in [Controllers -> MatchResult]
  BY DEF MatchResult
<1>4. /\ feed' \in Feed /\ row' \in MatchRow /\ rounds' \in [RoundNos -> RoundRow]
      /\ snap' \in Snapshot /\ workflow' \in BOOLEAN
      /\ Total(feed') <= GameLimit
  OBVIOUS
<1>5. QED
  BY <1>1, <1>2, <1>3, <1>4

LEMMA ScanType ==
  ASSUME TypeInv, NEW c \in Controllers, Scan(c)
  PROVE  TypeInv'
<1> USE DEF TypeInv, TypeOK, Goto, dbVars
<1>1. CASE FetchSchedule(c)
  BY <1>1 DEF FetchSchedule, Pcs
<1>2. CASE LoadSnapshot(c)
  BY <1>2 DEF LoadSnapshot, Pcs
<1>3. CASE UpsertMatch(c)
  <2>1. cur[c] \in Feed
    OBVIOUS
  <2>2. row' \in MatchRow
    BY <1>3, <2>1, FeedParts, LatestStatusType DEF UpsertMatch, MatchRow
  <2>3. pc' \in [Controllers -> Pcs]
    BY <1>3 DEF UpsertMatch, AfterUpsert, Pcs
  <2>4. QED
    BY <1>3, <2>2, <2>3 DEF UpsertMatch
<1>4. CASE EnsureMatchWorkflow(c)
  BY <1>4 DEF EnsureMatchWorkflow, AfterUpsert, Pcs
<1>5. CASE ReconcileRounds(c)
  <2>1. todo' \in [Controllers -> [RoundNos -> Winner \cup {NoWinner}]]
    BY <1>5, RestTypes, WorklistType, DeltaWinners DEF ReconcileRounds
  <2>2. QED
    BY <1>5, <2>1 DEF ReconcileRounds, Pcs
<1>6. CASE QueryRound(c)
  BY <1>6 DEF QueryRound, Pcs, Pending
<1>7. CASE EndRound(c)
  <2>1. PICK r \in Pending(c) :
           /\ rounds' = [rounds EXCEPT ![r] = EndedRow(seenRound[c], @, todo[c][r])]
           /\ todo' = [todo EXCEPT ![c][r] = NoWinner]
    BY <1>7 DEF EndRound
  <2>2. r \in RoundNos
    BY DEF Pending
  <2>3. rounds' \in [RoundNos -> RoundRow]
    BY <2>1, <2>2, EndedRowType
  <2>4. todo' \in [Controllers -> [RoundNos -> Winner \cup {NoWinner}]]
    BY <2>1, <2>2
  <2>5. QED
    BY <1>7, <2>3, <2>4, RestTypes DEF EndRound, Pcs
<1>8. CASE RoundsEnded(c)
  BY <1>8 DEF RoundsEnded, AfterEnding, Pcs
<1>9. CASE QueryCompleted(c)
  <2>1. todo' \in [Controllers -> [RoundNos -> Winner \cup {NoWinner}]]
    BY <1>9, RestTypes, WorklistType, FinalWinners DEF QueryCompleted
  <2>2. QED
    BY <1>9, <2>1 DEF QueryCompleted, Pcs
<1>10. CASE QueryStart(c)
  BY <1>10 DEF QueryStart, Pcs
<1>11. CASE StartRound(c)
  <2>1. rounds' \in [RoundNos -> RoundRow]
    BY <1>11, StartedRowType DEF StartRound
  <2>2. QED
    BY <1>11, <2>1 DEF StartRound, Pcs
<1>12. CASE ConvergeRounds(c)
  BY <1>12 DEF ConvergeRounds, Outcome, MatchResult, Pcs
<1>13. CASE ConvergeRow(c)
  BY <1>13 DEF ConvergeRow, Pcs
<1>14. CASE ConvergeSave(c)
  <2>1. row' \in MatchRow
    BY <1>14 DEF ConvergeSave, MatchRow, MatchStatus
  <2>2. QED
    BY <1>14, <2>1 DEF ConvergeSave, Pcs
<1>15. CASE SaveSnapshot(c)
  <2>1. SnapshotOf(cur[c]) \in Snapshot
    BY FeedParts DEF SnapshotOf, Snapshot
  <2>2. QED
    BY <1>15, <2>1, ReturnType DEF SaveSnapshot
<1>16. QED
  BY <1>1, <1>2, <1>3, <1>4, <1>5, <1>6, <1>7, <1>8, <1>9, <1>10, <1>11,
     <1>12, <1>13, <1>14, <1>15 DEF Scan

LEMMA NextType == TypeInv /\ [Next]_vars => TypeInv'
<1> SUFFICES ASSUME TypeInv, [Next]_vars PROVE TypeInv'
  OBVIOUS
<1>1. CASE FeedNext
  BY <1>1, FeedType
<1>2. ASSUME NEW c \in Controllers, Scan(c) PROVE TypeInv'
  BY <1>2, ScanType
<1>3. ASSUME NEW c \in Controllers, Fail(c) PROVE TypeInv'
  <2>1. spent' \in [fault : 0..MaxFaults, loss : 0..MaxLosses,
                    correction : 0..MaxCorrections]
    <3>1. spent.fault < MaxFaults /\ spent' = [spent EXCEPT !.fault = @ + 1]
      BY <1>3 DEF Fail
    <3>2. spent \in [fault : 0..MaxFaults, loss : 0..MaxLosses,
                    correction : 0..MaxCorrections]
      BY DEF TypeInv, TypeOK
    <3>3. QED
      BY <3>1, <3>2
  <2>2. QED
    BY <1>3, <2>1, ReturnType DEF Fail, TypeInv, TypeOK
<1>4. CASE LoseSnapshot
  BY <1>4, RestTypes DEF LoseSnapshot, TypeInv, TypeOK, dbVars, ctlVars
<1>5. CASE UNCHANGED vars
  BY <1>5 DEF vars, dbVars, ctlVars, TypeInv, TypeOK
<1>6. QED
  BY <1>1, <1>2, <1>3, <1>4, <1>5 DEF Next

(***************************************************************************)
(* Every field keeps its type, and the games counted by the schedule stay  *)
(* within the plan (or MaxGames), so that every round number the scanner   *)
(* computes from a score has a row.                                        *)
(***************************************************************************)
THEOREM TypeCorrect == Spec => []TypeOK
<1>1. Spec => []TypeInv
  BY InitType, NextType, PTL DEF Spec
<1>2. TypeInv => TypeOK
  BY DEF TypeInv
<1>3. QED
  BY <1>1, <1>2, PTL

-----------------------------------------------------------------------------
\* Only EndRound and StartRound write round rows.
LEMMA RowsChange ==
  ASSUME [Next]_vars
  PROVE  \/ rounds' = rounds
         \/ \E c \in Controllers : EndRound(c) \/ StartRound(c)
<1>1. ASSUME NEW c \in Controllers, Scan(c), ~EndRound(c), ~StartRound(c)
      PROVE  rounds' = rounds
  BY <1>1 DEF Scan, FetchSchedule, LoadSnapshot, UpsertMatch, EnsureMatchWorkflow,
     ReconcileRounds, QueryRound, RoundsEnded, QueryCompleted, QueryStart,
     ConvergeRounds, ConvergeRow, ConvergeSave, SaveSnapshot, dbVars
<1>2. ASSUME NEW c \in Controllers, Fail(c) PROVE rounds' = rounds
  BY <1>2 DEF Fail, dbVars
<1>3. ASSUME FeedNext \/ LoseSnapshot \/ UNCHANGED vars PROVE rounds' = rounds
  BY <1>3 DEF FeedNext, FeedStart, FeedGame, FeedDone, FeedResult, FeedCorrection,
     LoseSnapshot, vars, dbVars
<1>4. QED
  BY <1>1, <1>2, <1>3 DEF Next

(***************************************************************************)
(* No call of any controller reopens or deletes an ENDED row: EndRound     *)
(* leaves an ENDED row whatever was queried, StartRound only creates.      *)
(***************************************************************************)
LEMMA StepKeepsEnded ==
  ASSUME TypeInv, [Next]_vars, NEW r \in RoundNos, rounds[r].status = "ENDED"
  PROVE  rounds'[r].status = "ENDED"
<1>1. ASSUME NEW c \in Controllers, EndRound(c) PROVE rounds'[r].status = "ENDED"
  <2>1. PICK s \in Pending(c) :
           rounds' = [rounds EXCEPT ![s] = EndedRow(seenRound[c], @, todo[c][s])]
    BY <1>1 DEF EndRound
  <2>2. EndedRow(seenRound[c], rounds[r], todo[c][s]).status = "ENDED"
    BY DEF EndedRow
  <2>3. QED
    BY <2>1, <2>2 DEF TypeInv, TypeOK
<1>2. ASSUME NEW c \in Controllers, StartRound(c) PROVE rounds'[r].status = "ENDED"
  <2>1. rounds[r] # NoRound
    BY DEF NoRound
  <2>2. StartedRow(rounds[r]) = rounds[r]
    BY <2>1 DEF StartedRow
  <2>3. QED
    BY <1>2, <2>2 DEF StartRound, TypeInv, TypeOK
<1>3. QED
  BY <1>1, <1>2, RowsChange

(***************************************************************************)
(* An ENDED round stays ENDED, for any number of concurrent controllers,   *)
(* failed calls, lost snapshots and corrected scores.                      *)
(***************************************************************************)
THEOREM EndedStaysEnded == Spec => EndedIsFinal
<1>1. Spec => []TypeInv
  BY InitType, NextType, PTL DEF Spec
<1>2. TypeInv /\ [Next]_vars =>
        [\A r \in RoundNos : rounds[r].status = "ENDED" => rounds'[r].status = "ENDED"]_vars
  BY StepKeepsEnded
<1>3. QED
  BY <1>1, <1>2, PTL DEF Spec, EndedIsFinal

-----------------------------------------------------------------------------
(***************************************************************************)
(* No round past the decision.  What any controller has in hand, however   *)
(* old, is at most what the schedule says now, and strictly less if it is  *)
(* undecided and the schedule is not.                                      *)
(***************************************************************************)
Uncorrected == spent.correction = 0

Reach ==
  /\ \A r \in Present : r <= Total(feed) + 1
  /\ NoRoundPastDecision

HandReach(c) ==
  IF pc[c] = "idle"
  THEN todo[c] = NoTodo
  ELSE /\ Total(cur[c]) <= Total(feed)
       /\ Uncorrected /\ MatchDecided(feed, PlanGames) /\ ~MatchDecided(cur[c], PlanGames) =>
            Total(cur[c]) < Total(feed)
       /\ \A r \in RoundNos : todo[c][r] # NoWinner => r <= Total(cur[c])
       /\ pc[c] \in {"queryStart", "startRound"} => ~MatchDecided(cur[c], PlanGames)

ReachInv == TypeInv /\ Reach /\ \A c \in Controllers : HandReach(c)

LEMMA TotalTypes ==
  ASSUME TypeInv
  PROVE  Total(feed) \in Int /\ \A c \in Controllers : Total(cur[c]) \in Int
BY FeedParts DEF TypeInv, TypeOK, Total

LEMMA InitReach == Init => ReachInv
<1> SUFFICES ASSUME Init PROVE ReachInv
  OBVIOUS
<1>1. Present = {}
  BY DEF Init, Present
<1> QED
  BY <1>1, InitType DEF Init, ReachInv, Reach, HandReach, NoRoundPastDecision

\* The schedule: a decided score stays, an undecided one may grow.
LEMMA FeedReach ==
  ASSUME ReachInv, FeedNext
  PROVE  ReachInv'
<1>1. UNCHANGED <<rounds, pc, cur, todo>> /\ Present' = Present
  BY DEF FeedNext, FeedStart, FeedDone, FeedResult, FeedGame, FeedCorrection, dbVars, ctlVars,
     Present
<1>2. /\ Total(feed) \in Int /\ \A c \in Controllers : Total(cur[c]) \in Int
      /\ \A r \in RoundNos : r \in Int
  BY TotalTypes DEF ReachInv, RoundNos
<1>3. TypeInv'
  BY FeedType DEF ReachInv
<1>4. CASE FeedStart \/ FeedDone \/ FeedResult
  <2>1. feed'.red = feed.red /\ feed'.blue = feed.blue /\ spent' = spent
    BY <1>4 DEF FeedStart, FeedDone, FeedResult, Feed, ReachInv, TypeInv, TypeOK
  <2>2. /\ Total(feed') = Total(feed)
        /\ MatchDecided(feed', PlanGames) <=> MatchDecided(feed, PlanGames)
    BY <2>1 DEF Total, MatchDecided
  <2> QED
    BY <1>1, <1>3, <2>1, <2>2 DEF ReachInv, Reach, HandReach, NoRoundPastDecision, Uncorrected
<1>5. ASSUME NEW side \in Side, FeedGame(side) PROVE ReachInv'
  <2>1. /\ Total(feed') = Total(feed) + 1 /\ spent' = spent
        /\ ~MatchDecided(feed, PlanGames)
    BY <1>5, GameKeepsTotal DEF ReachInv, FeedGame
  <2>2. Reach'
    BY <1>1, <1>2, <2>1 DEF ReachInv, Reach, NoRoundPastDecision, Present
  <2>3. \A c \in Controllers : HandReach(c)'
    BY <1>1, <1>2, <2>1 DEF ReachInv, HandReach
  <2> QED
    BY <1>3, <2>2, <2>3 DEF ReachInv
<1>6. ASSUME NEW from \in Side, NEW to \in Side, FeedCorrection(from, to) PROVE ReachInv'
  <2>1. Total(feed') = Total(feed)
    BY <1>6, CorrectionKeepsTotal DEF ReachInv
  <2>2. spent'.correction # 0
    BY <1>6 DEF FeedCorrection, ReachInv, TypeInv, TypeOK
  <2> QED
    BY <1>1, <1>3, <2>1, <2>2 DEF ReachInv, Reach, HandReach, NoRoundPastDecision, Uncorrected
<1> QED
  BY <1>4, <1>5, <1>6 DEF FeedNext

\* What a controller's own step must show.
LEMMA OwnReach ==
  ASSUME ReachInv, TypeInv', NEW c \in Controllers, Reach', HandReach(c)',
         UNCHANGED <<feed, spent>>,
         \A d \in Controllers : d # c => pc'[d] = pc[d] /\ cur'[d] = cur[d] /\ todo'[d] = todo[d]
  PROVE  ReachInv'
<1>1. \A d \in Controllers : d # c => HandReach(d)'
  BY DEF ReachInv, HandReach, Uncorrected
<1> QED
  BY <1>1 DEF ReachInv

\* The lists of rounds to end stop at the score in hand.
LEMMA WorklistReach ==
  ASSUME NEW first \in Int, NEW winners, NEW n \in Int,
         \A i \in DOMAIN winners : i \in Int /\ i <= n,
         NEW r \in RoundNos, Worklist(first, winners)[r] # NoWinner
  PROVE  r <= n + first - 1
BY DEF Worklist, RoundNos

LEMMA ReconcileReach ==
  ASSUME ReachInv, NEW c \in Controllers, ReconcileRounds(c),
         NEW r \in RoundNos, todo'[c][r] # NoWinner
  PROVE  r <= Total(cur[c])
<1> DEFINE endTo == ClampToPlan(Total(cur[c]), PlanGames)
           ended == WinnersFromDelta(prev[c], cur[c], endTo - Total(prev[c]))
<1>1. Total(cur[c]) \in Int /\ Total(prev[c]) \in Int
  BY TotalTypes DEF ReachInv, TypeInv, TypeOK, Snapshot, Total
<1>2. endTo \in Int /\ endTo <= Total(cur[c])
  BY <1>1 DEF ClampToPlan, AtMost
<1>3. todo'[c][r] = IF prev[c].status = "STARTED"
                    THEN Worklist(Total(prev[c]) + 1, ended)[r] ELSE NoTodo[r]
  BY DEF ReconcileRounds, ReachInv, TypeInv, TypeOK
<1>4. Worklist(Total(prev[c]) + 1, ended)[r] # NoWinner
  BY <1>3 DEF NoTodo
<1> HIDE DEF endTo
<1>5. \A i \in DOMAIN ended : i \in Int /\ i <= endTo - Total(prev[c])
  <2>1. /\ cur[c].red \in Int /\ cur[c].blue \in Int
        /\ prev[c].red \in Int /\ prev[c].blue \in Int
    BY FeedParts DEF ReachInv, TypeInv, TypeOK, Snapshot
  <2> QED
    BY <1>1, <1>2, <2>1 DEF WinnersFromDelta, AtMost, NonNegative
<1> HIDE DEF ended
<1>6. r <= (endTo - Total(prev[c])) + (Total(prev[c]) + 1) - 1
  BY <1>1, <1>2, <1>4, <1>5, WorklistReach
<1> QED
  BY <1>1, <1>2, <1>6 DEF RoundNos

LEMMA CompletedReach ==
  ASSUME ReachInv, NEW c \in Controllers, QueryCompleted(c),
         NEW r \in RoundNos, todo'[c][r] # NoWinner
  PROVE  r <= Total(cur[c])
<1> DEFINE expected == ClampToPlan(Total(cur[c]), PlanGames)
           winners == AuthoritativeWinners([i \in 1..expected |-> rounds[i].winner], cur[c])
<1>1. Total(cur[c]) \in Int
  BY TotalTypes DEF ReachInv
<1>2. todo'[c][r] = IF expected > 0 THEN Worklist(1, winners)[r] ELSE NoTodo[r]
  BY DEF QueryCompleted, ReachInv, TypeInv, TypeOK
<1>3. Worklist(1, winners)[r] # NoWinner
  BY <1>2 DEF NoTodo
<1>4. \A i \in DOMAIN winners : i \in Int /\ i <= Total(cur[c])
  BY <1>1 DEF AuthoritativeWinners
<1> DEFINE n == Total(cur[c])
<1> HIDE DEF winners, n
<1>5. n \in Int /\ \A i \in DOMAIN winners : i \in Int /\ i <= n
  BY <1>1, <1>4 DEF n
<1>6. r <= n + 1 - 1
  BY <1>3, <1>5, WorklistReach
<1> QED
  BY <1>5, <1>6 DEF n, RoundNos

LEMMA ScanReach ==
  ASSUME ReachInv, NEW c \in Controllers, Scan(c)
  PROVE  ReachInv'
<1>1. TypeInv'
  BY ScanType DEF ReachInv
<1>2. /\ Reach /\ HandReach(c)
      /\ pc \in [Controllers -> Pcs] /\ cur \in [Controllers -> Feed]
      /\ todo \in [Controllers -> [RoundNos -> Winner \cup {NoWinner}]]
      /\ rounds \in [RoundNos -> RoundRow]
      /\ Total(feed) \in Int /\ Total(cur[c]) \in Int /\ \A r \in RoundNos : r \in Int
  BY TotalTypes DEF ReachInv, TypeInv, TypeOK, RoundNos
<1>3. CASE FetchSchedule(c)
  <2>1. /\ pc[c] = "idle" /\ cur'[c] = feed /\ pc'[c] = "load"
        /\ \A d \in Controllers : d # c => pc'[d] = pc[d] /\ cur'[d] = cur[d]
        /\ UNCHANGED <<feed, spent, rounds, todo>>
    BY <1>2, <1>3 DEF FetchSchedule, Goto, At, dbVars
  <2>2. Reach' /\ HandReach(c)'
    BY <1>2, <2>1 DEF Reach, HandReach, NoRoundPastDecision, Present, NoTodo
  <2> QED
    BY <1>1, <2>1, <2>2, OwnReach
<1>4. CASE \/ LoadSnapshot(c) \/ UpsertMatch(c) \/ EnsureMatchWorkflow(c) \/ QueryRound(c)
           \/ RoundsEnded(c) \/ QueryStart(c) \/ ConvergeRounds(c) \/ ConvergeRow(c)
           \/ ConvergeSave(c)
  <2>1. /\ pc[c] # "idle" /\ pc'[c] # "idle"
        /\ \A d \in Controllers : d # c => pc'[d] = pc[d]
        /\ UNCHANGED <<feed, spent, rounds, cur, todo>>
    BY <1>2, <1>4 DEF LoadSnapshot, UpsertMatch, EnsureMatchWorkflow, AfterUpsert, QueryRound,
       RoundsEnded, AfterEnding, QueryStart, ConvergeRounds, ConvergeRow, ConvergeSave, Goto,
       At, dbVars
  <2>2. pc'[c] \in {"queryStart", "startRound"} => ~MatchDecided(cur[c], PlanGames)
    <3>1. pc'[c] = "queryStart" => RoundsEnded(c)
      BY <1>2, <1>4 DEF LoadSnapshot, UpsertMatch, EnsureMatchWorkflow, AfterUpsert, QueryRound,
         QueryStart, ConvergeRounds, ConvergeRow, ConvergeSave, Goto
    <3>2. RoundsEnded(c) /\ pc'[c] = "queryStart" => ~MatchDecided(cur[c], PlanGames)
      BY <1>2 DEF RoundsEnded, AfterEnding, Goto
    <3>3. pc'[c] = "startRound" => pc[c] = "queryStart"
      BY <1>2, <1>4 DEF LoadSnapshot, UpsertMatch, EnsureMatchWorkflow, AfterUpsert, QueryRound,
         RoundsEnded, AfterEnding, QueryStart, ConvergeRounds, ConvergeRow, ConvergeSave, Goto,
         At
    <3> QED
      BY <1>2, <3>1, <3>2, <3>3 DEF HandReach
  <2>3. Reach' /\ HandReach(c)'
    BY <1>2, <2>1, <2>2 DEF Reach, HandReach, NoRoundPastDecision, Present, Uncorrected
  <2> QED
    BY <1>1, <2>1, <2>3, OwnReach
<1>5. CASE ReconcileRounds(c) \/ QueryCompleted(c)
  <2>1. /\ pc[c] # "idle" /\ pc'[c] = "queryRound"
        /\ \A d \in Controllers : d # c => pc'[d] = pc[d] /\ todo'[d] = todo[d]
        /\ UNCHANGED <<feed, spent, rounds, cur>>
    BY <1>2, <1>5 DEF ReconcileRounds, QueryCompleted, Goto, At, dbVars
  <2>2. \A r \in RoundNos : todo'[c][r] # NoWinner => r <= Total(cur[c])
    BY <1>5, ReconcileReach, CompletedReach
  <2>3. Reach' /\ HandReach(c)'
    BY <1>2, <2>1, <2>2 DEF Reach, HandReach, NoRoundPastDecision, Present, Uncorrected
  <2> QED
    BY <1>1, <2>1, <2>3, OwnReach
<1>6. CASE EndRound(c)
  <2>1. PICK r \in Pending(c) :
           /\ rounds' = [rounds EXCEPT ![r] = EndedRow(seenRound[c], @, todo[c][r])]
           /\ todo' = [todo EXCEPT ![c][r] = NoWinner]
    BY <1>6 DEF EndRound
  <2>2. /\ pc[c] = "endRound" /\ pc'[c] = "queryRound"
        /\ \A d \in Controllers : d # c => pc'[d] = pc[d]
        /\ UNCHANGED <<feed, spent, cur>>
    BY <1>2, <1>6 DEF EndRound, Goto, At
  <2>3. r \in RoundNos /\ r <= Total(cur[c]) /\ r <= Total(feed)
    BY <1>2, <2>1, <2>2 DEF Pending, HandReach
  <2>4. /\ \A q \in RoundNos : todo'[c][q] # NoWinner => todo[c][q] # NoWinner
        /\ \A d \in Controllers : d # c => todo'[d] = todo[d]
    BY <1>2, <2>1, <2>3
  <2>5. Present' \subseteq Present \cup {r}
    BY <1>2, <2>1, <2>3 DEF Present
  <2>6. Reach'
    BY <1>2, <2>2, <2>3, <2>5 DEF Reach, NoRoundPastDecision
  <2>7. HandReach(c)'
    BY <1>2, <2>2, <2>4 DEF HandReach, Uncorrected
  <2> QED
    BY <1>1, <2>2, <2>4, <2>6, <2>7, OwnReach
<1>7. CASE StartRound(c)
  <2>1. /\ pc[c] = "startRound" /\ pc'[c] = "convergeRounds"
        /\ \A d \in Controllers : d # c => pc'[d] = pc[d]
        /\ rounds' = [rounds EXCEPT ![Total(cur[c]) + 1] = StartedRow(@)]
        /\ UNCHANGED <<feed, spent, cur, todo>>
    BY <1>2, <1>7 DEF StartRound, RoundNo, Goto, At
  <2>2. /\ Total(cur[c]) <= Total(feed) /\ ~MatchDecided(cur[c], PlanGames)
        /\ Uncorrected /\ MatchDecided(feed, PlanGames) => Total(cur[c]) < Total(feed)
    BY <1>2, <2>1 DEF HandReach
  <2>3. Present' \subseteq Present \cup {Total(cur[c]) + 1}
    BY <1>2, <2>1 DEF Present
  <2>4. Reach'
    BY <1>2, <2>1, <2>2, <2>3 DEF Reach, NoRoundPastDecision, Uncorrected
  <2>5. HandReach(c)'
    BY <1>2, <2>1 DEF HandReach, Uncorrected
  <2> QED
    BY <1>1, <2>1, <2>4, <2>5, OwnReach
<1>8. CASE SaveSnapshot(c)
  <2>1. /\ pc'[c] = "idle" /\ todo'[c] = NoTodo /\ UNCHANGED <<feed, spent, rounds>>
        /\ \A d \in Controllers : d # c =>
             pc'[d] = pc[d] /\ cur'[d] = cur[d] /\ todo'[d] = todo[d]
    BY <1>2, <1>8 DEF SaveSnapshot, Return, Goto, dbVars
  <2>2. Reach' /\ HandReach(c)'
    BY <1>2, <2>1 DEF Reach, HandReach, NoRoundPastDecision, Present, NoTodo
  <2> QED
    BY <1>1, <2>1, <2>2, OwnReach
<1> QED
  BY <1>3, <1>4, <1>5, <1>6, <1>7, <1>8 DEF Scan

LEMMA FailReach ==
  ASSUME ReachInv, NEW c \in Controllers, Fail(c)
  PROVE  ReachInv'
<1>1. /\ TypeInv' /\ UNCHANGED <<feed, rounds>> /\ spent'.correction = spent.correction
      /\ pc'[c] = "idle" /\ todo'[c] = NoTodo
      /\ \A d \in Controllers : d # c =>
           pc'[d] = pc[d] /\ cur'[d] = cur[d] /\ todo'[d] = todo[d]
  <2>1. TypeInv'
    BY NextType DEF Next, ReachInv
  <2> QED
    BY <2>1 DEF Fail, Return, Goto, dbVars, ReachInv, TypeInv, TypeOK
<1>2. Reach'
  BY <1>1 DEF ReachInv, Reach, NoRoundPastDecision, Present
<1>3. \A d \in Controllers : HandReach(d)'
  BY <1>1 DEF ReachInv, HandReach, Uncorrected, NoTodo
<1> QED
  BY <1>1, <1>2, <1>3 DEF ReachInv

LEMMA NextReach == ReachInv /\ [Next]_vars => ReachInv'
<1> SUFFICES ASSUME ReachInv, [Next]_vars PROVE ReachInv'
  OBVIOUS
<1>1. ASSUME NEW c \in Controllers, Scan(c) \/ Fail(c) PROVE ReachInv'
  BY <1>1, ScanReach, FailReach
<1>2. CASE LoseSnapshot \/ UNCHANGED vars
  <2>1. /\ UNCHANGED <<feed, rounds, pc, cur, todo>>
        /\ spent'.correction = spent.correction
    BY <1>2 DEF LoseSnapshot, vars, dbVars, ctlVars, ReachInv, TypeInv, TypeOK
  <2>2. TypeInv'
    BY NextType DEF ReachInv
  <2> QED
    BY <2>1, <2>2 DEF ReachInv, Reach, HandReach, NoRoundPastDecision, Present, Uncorrected,
       NoTodo
<1> QED
  BY <1>1, <1>2, FeedReach DEF Next

(***************************************************************************)
(* No round is opened after the deciding game, for any number of           *)
(* controllers however far behind, failed calls and lost snapshots.        *)
(***************************************************************************)
THEOREM NothingPastDecision == Spec => []NoRoundPastDecision
<1>1. Spec => []ReachInv
  BY InitReach, NextReach, PTL DEF Spec
<1>2. ReachInv => NoRoundPastDecision
  BY DEF ReachInv, Reach
<1> QED
  BY <1>1, <1>2, PTL

-----------------------------------------------------------------------------
(* The order of the rounds                                                 *)

IndInv == TypeInv /\ OrderInv

\* What Ordered says of the constants.
LEMMA OnlyController ==
  ASSUME OrderInv
  PROVE  /\ Ordered /\ Ordered'
         /\ \A c, d \in Controllers : c = d
         /\ Paced = TRUE /\ MaxLosses = 0
  BY DEF OrderInv, Ordered

\* Two entries with the same snapshot agree on all that the rows depend on.
LEMMA SameSnapshot ==
  ASSUME NEW f, NEW g, SnapshotOf(f) = SnapshotOf(g)
  PROVE  /\ f.status = g.status /\ f.red = g.red /\ f.blue = g.blue
         /\ Total(f) = Total(g)
         /\ Playing(f) <=> Playing(g)
<1>1. f.status = g.status /\ f.red = g.red /\ f.blue = g.blue
  BY DEF SnapshotOf
<1>2. QED
  BY <1>1 DEF Total, Playing, MatchDecided

LEMMA SnapshotParts ==
  ASSUME NEW f
  PROVE  /\ SnapshotOf(f).known /\ SnapshotOf(f).status = f.status
         /\ SnapshotOf(f).red = f.red /\ SnapshotOf(f).blue = f.blue
         /\ Total(SnapshotOf(f)) = Total(f)
         /\ Playing(SnapshotOf(f)) <=> Playing(f)
<1>1. /\ SnapshotOf(f).known /\ SnapshotOf(f).status = f.status
      /\ SnapshotOf(f).red = f.red /\ SnapshotOf(f).blue = f.blue
  BY DEF SnapshotOf
<1>2. QED
  BY <1>1 DEF Total, Playing, MatchDecided

\* The scores in play are numbers within the limit.
LEMMA TotalsInRange ==
  ASSUME IndInv, NEW c \in Controllers
  PROVE  /\ Total(feed) \in 0..GameLimit
         /\ snap.known => Total(snap) \in 0..GameLimit
         /\ pc[c] # "idle" => Total(cur[c]) \in 0..GameLimit
         /\ Total(snap) \in Int /\ Total(prev[c]) \in Int /\ Total(cur[c]) \in Int
<1>1. /\ feed \in Feed /\ cur[c] \in Feed /\ snap \in Snapshot /\ prev[c] \in Snapshot
      /\ Total(feed) <= GameLimit
  BY DEF IndInv, TypeInv, TypeOK
<1>2. /\ Total(feed) \in 0..GameLimit
      /\ Total(snap) \in Nat /\ Total(prev[c]) \in Nat /\ Total(cur[c]) \in Nat
  BY <1>1, GameLimitType DEF Feed, Snapshot, Total
<1>3. snap.known => Total(snap) \in 0..GameLimit
  BY <1>2, GameLimitType DEF IndInv, OrderInv, FeedFollows
<1>4. pc[c] # "idle" => \/ Total(cur[c]) = Total(feed)
                        \/ snap.known /\ Total(cur[c]) = Total(snap)
  <2>1. pc[c] # "idle" => \/ SnapshotOf(cur[c]) = SnapshotOf(feed)
                          \/ SnapshotOf(cur[c]) = snap
    BY DEF IndInv, OrderInv, ScanFollows
  <2>2. SnapshotOf(cur[c]) = SnapshotOf(feed) => Total(cur[c]) = Total(feed)
    BY SameSnapshot
  <2>3. SnapshotOf(cur[c]) = snap => snap.known /\ Total(cur[c]) = Total(snap)
    BY SnapshotParts
  <2>4. snap.known \in BOOLEAN
    BY <1>1 DEF Snapshot
  <2>5. QED
    BY <2>1, <2>2, <2>3, <2>4
<1>5. QED
  BY <1>2, <1>3, <1>4

LEMMA InitOrder == Ordered /\ Init => OrderInv
  BY DEF Init, OrderInv, FeedFollows, RowsFollow, ScanFollows, TodoFollows, SeenFollows,
     StartFollows, NoSnap

-----------------------------------------------------------------------------
\* Ending a round that is already ENDED disturbs no claim about the order.
LEMMA EndedAgain ==
  ASSUME NEW r \in RoundNos, rounds[r].status = "ENDED",
         NEW new, new.status = "ENDED", rounds \in [RoundNos -> RoundRow],
         rounds' = [rounds EXCEPT ![r] = new],
         NEW n \in Int
  PROVE  /\ Closed(n) => Closed(n)'
         /\ IsOpen(n) => IsOpen(n)'
  BY DEF Closed, IsOpen, NoRound

LEMMA FeedOrder ==
  ASSUME IndInv, FeedNext
  PROVE  OrderInv'
<1>1. /\ snap = SnapshotOf(feed)
      /\ UNCHANGED <<rounds, snap, pc, cur, prev, todo, phase, seenRound>>
  BY OnlyController DEF IndInv, FeedNext, FeedStart, FeedDone, FeedResult, FeedGame,
     FeedCorrection, MayChange, dbVars, ctlVars
<1>2. snap.known /\ Total(snap) = Total(feed) /\ (Playing(snap) <=> Playing(feed))
  BY <1>1, SnapshotParts
<1>3. Processed(snap)
  BY <1>1, <1>2 DEF IndInv, OrderInv, RowsFollow
<1>4. \/ Total(feed') = Total(feed)
      \/ Total(feed') = Total(feed) + 1 /\ Playing(feed)
  <2>1. ASSUME FeedStart \/ FeedDone \/ FeedResult
        PROVE  Total(feed') = Total(feed)
    <3>1. feed \in Feed
      BY DEF IndInv, TypeInv, TypeOK
    <3>2. feed'.red = feed.red /\ feed'.blue = feed.blue
      BY <2>1, <3>1 DEF FeedStart, FeedDone, FeedResult, Feed
    <3>3. QED
      BY <3>2 DEF Total
  <2>2. ASSUME NEW side \in Side, FeedGame(side)
        PROVE  Total(feed') = Total(feed) + 1 /\ Playing(feed)
    BY <2>2, GameKeepsTotal DEF IndInv, FeedGame, Playing
  <2>3. ASSUME NEW from \in Side, NEW to \in Side, FeedCorrection(from, to)
        PROVE  Total(feed') = Total(feed)
    BY <2>3, CorrectionKeepsTotal DEF IndInv
  <2>4. QED
    BY <2>1, <2>2, <2>3 DEF FeedNext
<1>5. FeedFollows'
  <2>1. Total(feed) \in Int
    BY FeedParts DEF IndInv, TypeInv, TypeOK, Total
  <2>2. QED
    BY <1>1, <1>2, <1>4, <2>1 DEF FeedFollows
<1>6. RowsFollow'
  BY <1>1, <1>2, <1>3 DEF RowsFollow, Processed, Closed, IsOpen, Playing
<1>7. ASSUME NEW c \in Controllers
      PROVE  (ScanFollows(c) /\ TodoFollows(c) /\ SeenFollows(c) /\ StartFollows(c))'
  <2>1. ScanFollows(c) /\ TodoFollows(c) /\ SeenFollows(c) /\ StartFollows(c)
    BY DEF IndInv, OrderInv
  <2>2. ScanFollows(c)'
    BY <1>1, <1>3, <2>1 DEF ScanFollows, Processed, Closed, IsOpen, Playing, SnapshotOf
  <2>3. TodoFollows(c)'
    BY <1>1, <2>1 DEF TodoFollows, Closed, Pending
  <2>4. SeenFollows(c)'
    BY <1>1, <2>1 DEF SeenFollows, Pending, IsDue
  <2>5. StartFollows(c)'
    BY <1>1, <2>1 DEF StartFollows, Processed, Closed, IsOpen, Playing
  <2>6. QED
    BY <2>2, <2>3, <2>4, <2>5
<1>8. QED
  BY <1>5, <1>6, <1>7, OnlyController DEF IndInv, OrderInv

-----------------------------------------------------------------------------
\* A step of the only controller that leaves the schedule, the rows and the
\* snapshot alone has to answer for its own locals only.
LEMMA LocalStep ==
  ASSUME IndInv, NEW c \in Controllers, UNCHANGED <<feed, rounds, snap>>,
         (ScanFollows(c) /\ TodoFollows(c) /\ SeenFollows(c) /\ StartFollows(c))'
  PROVE  OrderInv'
<1>1. FeedFollows'
  BY DEF IndInv, OrderInv, FeedFollows
<1>2. RowsFollow'
  BY DEF IndInv, OrderInv, RowsFollow, Processed, Closed, IsOpen, Playing
<1>3. \A d \in Controllers : d = c
  BY OnlyController DEF IndInv
<1>4. QED
  BY <1>1, <1>2, <1>3, OnlyController DEF IndInv, OrderInv

\* An entry that is the loaded snapshot itself, or the one on the schedule.
LEMMA OldOrNew ==
  ASSUME IndInv, NEW c \in Controllers, pc[c] # "idle"
  PROVE  \/ /\ SnapshotOf(cur[c]) = SnapshotOf(feed)
            /\ Total(cur[c]) = Total(feed)
         \/ /\ SnapshotOf(cur[c]) = snap
            /\ snap.known
            /\ Total(cur[c]) = Total(snap)
            /\ Playing(cur[c]) <=> Playing(snap)
            /\ Processed(snap)
<1>1. \/ SnapshotOf(cur[c]) = SnapshotOf(feed)
      \/ SnapshotOf(cur[c]) = snap /\ Processed(snap)
  BY DEF IndInv, OrderInv, ScanFollows
<1>2. CASE SnapshotOf(cur[c]) = SnapshotOf(feed)
  BY <1>2, SameSnapshot
<1>3. CASE SnapshotOf(cur[c]) = snap /\ Processed(snap)
  <2>1. /\ snap.known
        /\ Total(cur[c]) = Total(snap)
        /\ Playing(cur[c]) <=> Playing(snap)
    BY <1>3, SnapshotParts
  <2>2. QED
    BY <1>3, <2>1
<1>4. QED
  BY <1>1, <1>2, <1>3

LEMMA FetchOrder ==
  ASSUME IndInv, NEW c \in Controllers, FetchSchedule(c)
  PROVE  OrderInv'
<1>1. /\ pc[c] = "idle" /\ pc'[c] = "load" /\ cur'[c] = feed
      /\ UNCHANGED <<feed, rounds, snap, prev, todo, phase, seenRound>>
  BY DEF FetchSchedule, At, Goto, dbVars, IndInv, TypeInv, TypeOK
<1>2. ScanFollows(c)'
  BY <1>1 DEF ScanFollows, SnapshotOf
<1>3. TodoFollows(c)' /\ SeenFollows(c)' /\ StartFollows(c)'
  BY <1>1 DEF TodoFollows, SeenFollows, StartFollows
<1>4. QED
  BY <1>1, <1>2, <1>3, LocalStep

LEMMA LoadOrder ==
  ASSUME IndInv, NEW c \in Controllers, LoadSnapshot(c)
  PROVE  OrderInv'
<1>1. /\ pc[c] = "load" /\ pc'[c] = "upsert" /\ prev'[c] = snap
      /\ UNCHANGED <<feed, rounds, snap, cur, todo, phase, seenRound>>
  BY DEF LoadSnapshot, At, Goto, dbVars, IndInv, TypeInv, TypeOK
<1>2. ScanFollows(c)'
  BY <1>1 DEF IndInv, OrderInv, ScanFollows, SnapshotOf, Processed, Closed, IsOpen, Playing
<1>3. TodoFollows(c)' /\ SeenFollows(c)' /\ StartFollows(c)'
  BY <1>1 DEF TodoFollows, SeenFollows, StartFollows
<1>4. QED
  BY <1>1, <1>2, <1>3, LocalStep

\* UpsertMatch and EnsureMatchWorkflow, seen from the rounds.
LEMMA RowStepOrder ==
  ASSUME IndInv, NEW c \in Controllers,
         pc[c] \in {"upsert", "workflow"},
         \/ pc'[c] = "workflow"
         \/ pc'[c] = "reconcile" /\ prev[c].known
         \/ pc'[c] = "convergeRounds" /\ ~prev[c].known,
         UNCHANGED <<feed, rounds, snap, cur, prev, todo, phase, seenRound>>
  PROVE  OrderInv'
<1>1. prev[c] = snap
  BY DEF IndInv, OrderInv, ScanFollows
<1>2. ScanFollows(c)'
  BY <1>1 DEF IndInv, OrderInv, ScanFollows, SnapshotOf, Processed, Closed, IsOpen, Playing
<1>3. TodoFollows(c)' /\ SeenFollows(c)'
  BY DEF TodoFollows, SeenFollows
<1>4. ASSUME pc'[c] = "convergeRounds" PROVE Processed(cur[c])
  <2>1. ~snap.known
    BY <1>1, <1>4
  <2>2. feed = NoFeed /\ rounds = [r \in RoundNos |-> NoRound]
    BY <2>1 DEF IndInv, OrderInv, FeedFollows, RowsFollow
  <2>3. SnapshotOf(cur[c]) = SnapshotOf(feed)
    BY <2>1, OldOrNew
  <2>4. Total(cur[c]) = 0 /\ ~Playing(cur[c])
    BY <2>2, <2>3, SameSnapshot DEF NoFeed, Total, Playing
  <2>5. Closed(0)
    BY <2>2, GameLimitType DEF Closed, RoundNos
  <2>6. QED
    BY <2>4, <2>5 DEF Processed
<1>5. StartFollows(c)'
  BY <1>4 DEF StartFollows, Processed, Closed, IsOpen, Playing
<1>6. QED
  BY <1>2, <1>3, <1>5, LocalStep

LEMMA UpsertOrder ==
  ASSUME IndInv, NEW c \in Controllers, UpsertMatch(c) \/ EnsureMatchWorkflow(c)
  PROVE  OrderInv'
<1>1. /\ pc[c] \in {"upsert", "workflow"}
      /\ UNCHANGED <<feed, rounds, snap, cur, prev, todo, phase, seenRound>>
  BY DEF UpsertMatch, EnsureMatchWorkflow, At, dbVars
<1>2. pc'[c] = "workflow" \/ pc'[c] = AfterUpsert(c)
  BY DEF UpsertMatch, EnsureMatchWorkflow, Goto, IndInv, TypeInv, TypeOK
<1>3. QED
  BY <1>1, <1>2, RowStepOrder DEF AfterUpsert

-----------------------------------------------------------------------------
\* The rounds between two polls, as the entries of a work list.
LEMMA DeltaDomain ==
  ASSUME NEW p, NEW f, NEW n \in Int,
         p.red \in Nat, p.blue \in Nat, f.red \in Nat, f.blue \in Nat
  PROVE  /\ n <= 0 => DOMAIN WinnersFromDelta(p, f, n) = {}
         /\ p.red = f.red /\ p.blue = f.blue => DOMAIN WinnersFromDelta(p, f, n) = {}
         /\ n = 1 /\ Total(f) > Total(p) => DOMAIN WinnersFromDelta(p, f, n) = {1}
<1> DEFINE m == AtMost(n, NonNegative(f.red - p.red) + NonNegative(f.blue - p.blue))
<1>1. DOMAIN WinnersFromDelta(p, f, n) = 1..m
  BY DEF WinnersFromDelta
<1>2. /\ n <= 0 => m <= 0
      /\ p.red = f.red /\ p.blue = f.blue => m <= 0
      /\ n = 1 /\ Total(f) > Total(p) => m = 1
      /\ m \in Int
  <2> DEFINE dr == NonNegative(f.red - p.red)
             db == NonNegative(f.blue - p.blue)
  <2>1. /\ dr \in Nat /\ db \in Nat
        /\ p.red = f.red => dr = 0
        /\ p.blue = f.blue => db = 0
        /\ Total(f) > Total(p) => dr + db >= 1
    BY DEF NonNegative, Total
  <2> HIDE DEF dr, db
  <2>2. m = AtMost(n, dr + db)
    BY DEF dr, db
  <2>3. QED
    BY <2>1, <2>2 DEF AtMost
<1> HIDE DEF m
<1>3. QED
  BY <1>1, <1>2

\* The rounds a work list names.
LEMMA WorklistEntries ==
  ASSUME NEW first \in Int, NEW winners, NEW r \in RoundNos,
         \A i \in DOMAIN winners : winners[i] \in Winner
  PROVE  Worklist(first, winners)[r] # NoWinner <=> r - first + 1 \in DOMAIN winners
  BY DEF Worklist, NoWinner, Winner, Side

LEMMA ReconcileOrder ==
  ASSUME IndInv, NEW c \in Controllers, ReconcileRounds(c)
  PROVE  OrderInv'
<1> DEFINE count == ClampToPlan(Total(cur[c]), PlanGames) - Total(prev[c])
           delta == WinnersFromDelta(prev[c], cur[c], count)
<1>1. /\ pc[c] = "reconcile" /\ pc'[c] = "queryRound" /\ phase'[c] = "delta"
      /\ todo'[c] = IF prev[c].status = "STARTED"
                    THEN Worklist(Total(prev[c]) + 1, delta) ELSE NoTodo
      /\ UNCHANGED <<feed, rounds, snap, cur, prev, seenRound>>
  BY DEF ReconcileRounds, At, Goto, dbVars, IndInv, TypeInv, TypeOK
<1>2. /\ prev[c] = snap /\ snap.known
  BY <1>1 DEF IndInv, OrderInv, ScanFollows
<1>3. /\ Total(snap) \in 0..GameLimit /\ Total(cur[c]) \in 0..GameLimit
      /\ Total(feed) \in 0..GameLimit
  BY <1>1, <1>2, TotalsInRange
<1>4. count = Total(cur[c]) - Total(snap)
  BY <1>2, <1>3, GameLimitType DEF ClampToPlan, AtMost, GameLimit
<1>5. /\ prev[c].red \in Nat /\ prev[c].blue \in Nat
      /\ cur[c].red \in Nat /\ cur[c].blue \in Nat
  BY GameLimitType DEF IndInv, TypeInv, TypeOK, Feed, Snapshot
<1> HIDE DEF count
<1>6. /\ count <= 0 => DOMAIN delta = {}
      /\ prev[c].red = cur[c].red /\ prev[c].blue = cur[c].blue => DOMAIN delta = {}
      /\ count = 1 => DOMAIN delta = {1}
  BY <1>2, <1>3, <1>4, <1>5, DeltaDomain
<1>7. \A r \in RoundNos : todo'[c][r] # NoWinner <=>
         prev[c].status = "STARTED" /\ r - Total(prev[c]) \in DOMAIN delta
  <2> SUFFICES ASSUME NEW r \in RoundNos
               PROVE  todo'[c][r] # NoWinner <=>
                        prev[c].status = "STARTED" /\ r - Total(prev[c]) \in DOMAIN delta
    OBVIOUS
  <2>1. r - (Total(prev[c]) + 1) + 1 = r - Total(prev[c])
    BY <1>2, <1>3, GameLimitType DEF RoundNos
  <2>2. Worklist(Total(prev[c]) + 1, delta)[r] # NoWinner
          <=> r - Total(prev[c]) \in DOMAIN delta
    BY <1>2, <1>3, <2>1, WorklistEntries, DeltaWinners
  <2>3. NoTodo[r] = NoWinner
    BY DEF NoTodo
  <2>4. QED
    BY <1>1, <2>2, <2>3
<1> HIDE DEF delta
<1>8. TodoFollows(c)'
  <2>1. CASE /\ SnapshotOf(cur[c]) = snap
             /\ Total(cur[c]) = Total(snap)
             /\ Processed(snap)
    <3>1. DOMAIN delta = {}
      BY <1>2, <1>6, <2>1, SnapshotParts
    <3>2. QED
      BY <1>1, <1>7, <2>1, <3>1 DEF TodoFollows, Pending, Processed, Closed
  <2>2. CASE Total(cur[c]) = Total(feed) /\ Total(feed) = Total(snap)
    <3>1. DOMAIN delta = {}
      BY <1>3, <1>4, <1>6, <2>2
    <3>2. Closed(Total(cur[c]))
      BY <1>2, <2>2 DEF IndInv, OrderInv, RowsFollow, Processed
    <3>3. QED
      BY <1>1, <1>7, <3>1, <3>2 DEF TodoFollows, Pending, Closed
  <2>3. CASE Total(cur[c]) = Total(feed) /\ Total(feed) = Total(snap) + 1
    <3>1. DOMAIN delta = {1}
      BY <1>3, <1>4, <1>6, <2>3
    <3>2. Playing(snap)
      BY <1>2, <2>3 DEF IndInv, OrderInv, FeedFollows
    <3>3. \A r \in RoundNos : todo'[c][r] # NoWinner <=> r = Total(snap) + 1
      <4>1. prev[c].status = "STARTED"
        BY <1>2, <3>2 DEF Playing
      <4>2. \A r \in RoundNos : r - Total(snap) = 1 <=> r = Total(snap) + 1
        BY <1>3, GameLimitType DEF RoundNos
      <4>3. QED
        BY <1>2, <1>7, <3>1, <4>1, <4>2
    <3>4. Total(snap) + 1 \in RoundNos
      BY <1>3, GameLimitType DEF RoundNos
    <3>5. QED
      BY <1>1, <1>2, <2>3, <3>3, <3>4 DEF TodoFollows, Pending
  <2>4. Total(feed) = Total(snap) \/ Total(feed) = Total(snap) + 1
    BY <1>2 DEF IndInv, OrderInv, FeedFollows
  <2>5. QED
    BY <1>1, <2>1, <2>2, <2>3, <2>4, OldOrNew
<1>9. ScanFollows(c)'
  BY <1>1, <1>2 DEF IndInv, OrderInv, ScanFollows, SnapshotOf, Processed, Closed,
     IsOpen, Playing
<1>10. SeenFollows(c)' /\ StartFollows(c)'
  BY <1>1 DEF SeenFollows, StartFollows
<1>11. QED
  BY <1>1, <1>8, <1>9, <1>10, LocalStep

LEMMA QueryRoundOrder ==
  ASSUME IndInv, NEW c \in Controllers, QueryRound(c)
  PROVE  OrderInv'
<1>1. PICK r \in Pending(c) :
         IsDue(c, r) /\ seenRound' = [seenRound EXCEPT ![c] = rounds[r]]
  BY DEF QueryRound
<1>2. /\ pc[c] = "queryRound" /\ pc'[c] = "endRound" /\ seenRound'[c] = rounds[r]
      /\ UNCHANGED <<feed, rounds, snap, cur, prev, todo, phase>>
  BY <1>1 DEF QueryRound, At, Goto, dbVars, IndInv, TypeInv, TypeOK
<1>3. ScanFollows(c)'
  BY <1>2 DEF IndInv, OrderInv, ScanFollows, SnapshotOf, Processed, Closed, IsOpen, Playing
<1>4. TodoFollows(c)'
  BY <1>2 DEF IndInv, OrderInv, TodoFollows, Pending, Closed
<1>5. SeenFollows(c)'
  <2>1. \A s \in Pending(c) : IsDue(c, s) => s = r
    <3>1. \A s \in Pending(c) : s \in Int
      BY DEF Pending, RoundNos
    <3>2. QED
      BY <1>1, <3>1 DEF IsDue
  <2>2. QED
    BY <1>1, <1>2, <2>1 DEF SeenFollows, Pending, IsDue
<1>6. StartFollows(c)'
  BY <1>2 DEF StartFollows
<1>7. QED
  BY <1>2, <1>3, <1>4, <1>5, <1>6, LocalStep

-----------------------------------------------------------------------------
\* What EndRound does to the rows and to the locals of its controller.
LEMMA EndRoundEffect ==
  ASSUME IndInv, NEW c \in Controllers, EndRound(c)
  PROVE  \E r \in Pending(c), new \in RoundRow :
            /\ IsDue(c, r) /\ new.status = "ENDED"
            /\ rounds' = [rounds EXCEPT ![r] = new]
            /\ todo'[c] = [todo[c] EXCEPT ![r] = NoWinner]
<1>1. PICK r \in Pending(c) :
         /\ IsDue(c, r)
         /\ rounds' = [rounds EXCEPT ![r] = EndedRow(seenRound[c], @, todo[c][r])]
         /\ todo' = [todo EXCEPT ![c][r] = NoWinner]
  BY DEF EndRound
<1>2. seenRound[c] = rounds[r]
  BY <1>1 DEF EndRound, At, IndInv, OrderInv, SeenFollows
<1>3. r \in RoundNos
  BY DEF Pending
<1>4. EndedRow(seenRound[c], rounds[r], todo[c][r]).status = "ENDED"
  BY <1>2 DEF EndedRow
<1>5. EndedRow(seenRound[c], rounds[r], todo[c][r]) \in RoundRow
  BY <1>3, EndedRowType DEF IndInv, TypeInv, TypeOK
<1>6. todo'[c] = [todo[c] EXCEPT ![r] = NoWinner]
  BY <1>1 DEF IndInv, TypeInv, TypeOK
<1>7. QED
  BY <1>1, <1>3, <1>4, <1>5, <1>6

\* The round that the delta loop ends is the one the snapshot left open.
LEMMA DeltaRound ==
  ASSUME IndInv, NEW c \in Controllers, pc[c] = "endRound", phase[c] = "delta",
         NEW r \in Pending(c)
  PROVE  /\ SnapshotOf(cur[c]) = SnapshotOf(feed) /\ snap.known
         /\ r = Total(snap) + 1 /\ r = Total(cur[c]) /\ r = Total(feed)
         /\ \/ Closed(Total(snap)) /\ IsOpen(Total(snap))
            \/ Closed(r)
<1>1. prev[c] = snap /\ snap.known
  <2>1. prev[c] = snap
    BY DEF IndInv, OrderInv, ScanFollows
  <2>2. prev[c].known
    BY DEF IndInv, OrderInv, ScanFollows
  <2>3. QED
    BY <2>1, <2>2
<1>2. r = Total(snap) + 1 /\ r = Total(cur[c])
  BY <1>1 DEF IndInv, OrderInv, TodoFollows
<1>3. Total(snap) \in Int
  BY TotalsInRange
<1>4. SnapshotOf(cur[c]) = SnapshotOf(feed) /\ Total(cur[c]) = Total(feed)
  BY <1>2, <1>3, OldOrNew
<1>5. Playing(snap)
  BY <1>1, <1>2, <1>4 DEF IndInv, OrderInv, FeedFollows
<1>6. \/ Closed(Total(snap)) /\ IsOpen(Total(snap))
      \/ Closed(Total(feed))
  BY <1>1, <1>5 DEF IndInv, OrderInv, RowsFollow, Processed
<1>7. QED
  BY <1>1, <1>2, <1>4, <1>6

LEMMA EndRoundOrder ==
  ASSUME IndInv, NEW c \in Controllers, EndRound(c)
  PROVE  OrderInv'
<1>1. PICK r \in Pending(c), new \in RoundRow :
         /\ IsDue(c, r) /\ new.status = "ENDED"
         /\ rounds' = [rounds EXCEPT ![r] = new]
         /\ todo'[c] = [todo[c] EXCEPT ![r] = NoWinner]
  BY EndRoundEffect, Zenon
<1>2. /\ pc[c] = "endRound" /\ pc'[c] = "queryRound"
      /\ UNCHANGED <<feed, snap, cur, prev, phase>>
  BY DEF EndRound, At, Goto, IndInv, TypeInv, TypeOK
<1>3. /\ r \in RoundNos /\ rounds \in [RoundNos -> RoundRow]
      /\ Pending(c)' = Pending(c) \ {r}
  BY <1>1 DEF Pending, IndInv, TypeInv, TypeOK
<1>4. /\ Total(snap) \in Int /\ Total(feed) \in Int /\ Total(cur[c]) \in Int
  BY TotalsInRange
<1>5. FeedFollows'
  BY <1>2 DEF IndInv, OrderInv, FeedFollows
<1>6. prev[c] = snap /\ snap.known
  <2>1. prev[c] = snap /\ prev[c].known
    BY <1>2 DEF IndInv, OrderInv, ScanFollows
  <2>2. QED
    BY <2>1
<1>7. CASE phase[c] = "delta"
  <2>1. /\ SnapshotOf(cur[c]) = SnapshotOf(feed) /\ snap.known
        /\ r = Total(snap) + 1 /\ r = Total(cur[c]) /\ r = Total(feed)
        /\ \/ Closed(Total(snap)) /\ IsOpen(Total(snap))
           \/ Closed(r)
    BY <1>2, <1>7, DeltaRound
  <2>2. Closed(r)'
    <3>1. CASE Closed(Total(snap))
      BY <1>1, <1>3, <1>4, <2>1, <3>1 DEF Closed, RoundNos
    <3>2. CASE Closed(r)
      BY <1>1, <1>3, <3>2 DEF Closed, RoundNos
    <3>3. QED
      BY <2>1, <3>1, <3>2
  <2>3. RowsFollow'
    <3>1. Closed(Total(feed))'
      BY <1>2, <2>1, <2>2 DEF Closed
    <3>2. snap # SnapshotOf(feed)
      BY <1>4, <2>1, SnapshotParts
    <3>3. QED
      BY <1>2, <2>1, <3>1, <3>2 DEF RowsFollow, SnapshotOf
  <2>4. ScanFollows(c)'
    BY <1>2, <1>6, <2>1 DEF ScanFollows, SnapshotOf
  <2>5. TodoFollows(c)'
    <3>1. Pending(c) = {r}
      BY <1>1, <1>2, <1>7, <2>1 DEF IndInv, OrderInv, TodoFollows
    <3>2. Closed(Total(cur[c]))'
      BY <1>2, <2>1, <2>2 DEF Closed
    <3>3. QED
      BY <1>2, <1>3, <1>7, <3>1, <3>2 DEF TodoFollows
  <2>6. SeenFollows(c)' /\ StartFollows(c)'
    BY <1>2 DEF SeenFollows, StartFollows
  <2>7. \A d \in Controllers : d = c
    BY OnlyController DEF IndInv
  <2>8. QED
    BY <1>5, <2>3, <2>4, <2>5, <2>6, <2>7, OnlyController DEF IndInv, OrderInv
<1>8. CASE phase[c] = "completed"
  <2>1. /\ cur[c].status # "STARTED" /\ r <= Total(cur[c]) /\ Closed(Total(cur[c]))
    BY <1>1, <1>2, <1>8 DEF IndInv, OrderInv, TodoFollows
  <2>2. rounds[r].status = "ENDED"
    BY <1>3, <2>1 DEF Closed
  <2>3. \A n \in Int : (Closed(n) => Closed(n)') /\ (IsOpen(n) => IsOpen(n)')
    BY <1>1, <1>3, <2>2, EndedAgain
  <2>4. /\ Closed(Total(snap)) => Closed(Total(snap))'
        /\ IsOpen(Total(snap)) => IsOpen(Total(snap))'
        /\ Closed(Total(feed)) => Closed(Total(feed))'
        /\ Closed(Total(cur[c])) => Closed(Total(cur[c]))'
    BY <1>2, <1>4, <2>3 DEF Closed, IsOpen
  <2>5. Processed(snap) => Processed(snap)'
    BY <1>2, <2>4 DEF Processed, Playing
  <2>6. RowsFollow'
    BY <1>2, <1>6, <2>4, <2>5 DEF IndInv, OrderInv, RowsFollow, SnapshotOf
  <2>7. ScanFollows(c)'
    BY <1>2, <1>6, <2>5 DEF IndInv, OrderInv, ScanFollows, SnapshotOf
  <2>8. TodoFollows(c)'
    <3>1. \A s \in Pending(c) : s <= Total(cur[c])
      BY <1>2, <1>8 DEF IndInv, OrderInv, TodoFollows
    <3>2. Closed(Total(cur[c]))'
      BY <2>1, <2>4
    <3>3. QED
      BY <1>2, <1>3, <1>8, <2>1, <3>1, <3>2 DEF TodoFollows
  <2>9. SeenFollows(c)' /\ StartFollows(c)'
    BY <1>2 DEF SeenFollows, StartFollows
  <2>10. \A d \in Controllers : d = c
    BY OnlyController DEF IndInv
  <2>11. QED
    BY <1>5, <2>6, <2>7, <2>8, <2>9, <2>10, OnlyController DEF IndInv, OrderInv
<1>9. phase[c] \in {"delta", "completed"}
  BY DEF IndInv, TypeInv, TypeOK
<1>10. QED
  BY <1>7, <1>8, <1>9

-----------------------------------------------------------------------------
LEMMA RoundsEndedOrder ==
  ASSUME IndInv, NEW c \in Controllers, RoundsEnded(c)
  PROVE  OrderInv'
<1>1. /\ pc[c] = "queryRound" /\ pc'[c] = AfterEnding(c) /\ Pending(c) = {}
      /\ UNCHANGED <<feed, rounds, snap, cur, prev, todo, phase, seenRound>>
  BY DEF RoundsEnded, At, Goto, dbVars, IndInv, TypeInv, TypeOK
<1>2. /\ Closed(Total(cur[c]))
      /\ phase[c] = "completed" => cur[c].status # "STARTED"
  BY <1>1 DEF IndInv, OrderInv, TodoFollows, TypeInv, TypeOK
<1>3. \/ pc'[c] = "convergeRounds" /\ ~Playing(cur[c])
      \/ pc'[c] = "queryStart" /\ cur[c].status = "STARTED"
      \/ pc'[c] = "queryCompleted" /\ cur[c].status # "STARTED"
  BY <1>1, <1>2 DEF AfterEnding, Playing
<1>4. ScanFollows(c)'
  BY <1>1, <1>3 DEF IndInv, OrderInv, ScanFollows, SnapshotOf, Processed, Closed,
     IsOpen, Playing
<1>5. TodoFollows(c)' /\ SeenFollows(c)'
  BY <1>3 DEF TodoFollows, SeenFollows
<1>6. StartFollows(c)'
  BY <1>1, <1>2, <1>3 DEF StartFollows, Processed, Closed, IsOpen, Playing
<1>7. QED
  BY <1>1, <1>4, <1>5, <1>6, LocalStep

LEMMA CompletedOrder ==
  ASSUME IndInv, NEW c \in Controllers, QueryCompleted(c)
  PROVE  OrderInv'
<1> DEFINE expected == ClampToPlan(Total(cur[c]), PlanGames)
           recorded == [r \in 1..expected |-> rounds[r].winner]
           final    == AuthoritativeWinners(recorded, cur[c])
<1>1. /\ pc[c] = "queryCompleted" /\ pc'[c] = "queryRound" /\ phase'[c] = "completed"
      /\ todo'[c] = IF expected > 0 THEN Worklist(1, final) ELSE NoTodo
      /\ UNCHANGED <<feed, rounds, snap, cur, prev, seenRound>>
  BY DEF QueryCompleted, At, Goto, dbVars, IndInv, TypeInv, TypeOK
<1>2. /\ Closed(Total(cur[c])) /\ cur[c].status # "STARTED" /\ Total(cur[c]) \in Int
  BY <1>1, TotalsInRange DEF IndInv, OrderInv, StartFollows
<1>3. DOMAIN final = 1..Total(cur[c])
  BY DEF AuthoritativeWinners
<1> HIDE DEF final, expected
<1>4. \A r \in RoundNos : todo'[c][r] # NoWinner => r <= Total(cur[c])
  <2> SUFFICES ASSUME NEW r \in RoundNos, todo'[c][r] # NoWinner
               PROVE  r <= Total(cur[c])
    OBVIOUS
  <2>1. todo'[c] = Worklist(1, final)
    BY <1>1 DEF NoTodo
  <2>2. r - 1 + 1 \in DOMAIN final
    BY <2>1 DEF Worklist
  <2>3. QED
    BY <1>2, <1>3, <2>2 DEF RoundNos
<1>5. ScanFollows(c)'
  BY <1>1 DEF IndInv, OrderInv, ScanFollows, SnapshotOf, Processed, Closed, IsOpen, Playing
<1>6. TodoFollows(c)'
  BY <1>1, <1>2, <1>4 DEF TodoFollows, Pending, Closed
<1>7. SeenFollows(c)' /\ StartFollows(c)'
  BY <1>1 DEF SeenFollows, StartFollows
<1>8. QED
  BY <1>1, <1>5, <1>6, <1>7, LocalStep

LEMMA QueryStartOrder ==
  ASSUME IndInv, NEW c \in Controllers, QueryStart(c)
  PROVE  OrderInv'
<1> DEFINE n == Total(cur[c])
<1>1. /\ pc[c] = "queryStart"
      /\ pc'[c] = IF (PlanGames > 0 /\ n + 1 > PlanGames) \/ rounds[n + 1] # NoRound
                  THEN "convergeRounds" ELSE "startRound"
      /\ UNCHANGED <<feed, rounds, snap, cur, prev, todo, phase, seenRound>>
  BY DEF QueryStart, RoundNo, At, Goto, dbVars, IndInv, TypeInv, TypeOK
<1>2. Closed(n) /\ cur[c].status = "STARTED" /\ n \in 0..GameLimit
  BY <1>1, TotalsInRange DEF IndInv, OrderInv, StartFollows
<1>3. n + 1 \in RoundNos
  BY <1>2, GameLimitType DEF RoundNos
<1>4. ASSUME pc'[c] = "convergeRounds" PROVE Processed(cur[c])
  <2>1. SUFFICES ASSUME Playing(cur[c]) PROVE IsOpen(n)
    BY <1>2 DEF Processed
  <2>2. n < GameLimit
    BY <2>1 DEF Playing
  <2> HIDE DEF n
  <2>3. rounds[n + 1] # NoRound
    <3>1. ~(PlanGames > 0 /\ n + 1 > PlanGames)
      BY <1>2, <2>2 DEF GameLimit
    <3>2. QED
      BY <1>1, <1>4, <3>1
  <2>4. rounds[n + 1].status = "STARTED"
    BY <1>2, <1>3, <2>3 DEF Closed
  <2>5. QED
    BY <2>4 DEF IsOpen
<1> HIDE DEF n
<1>5. ScanFollows(c)'
  BY <1>1 DEF IndInv, OrderInv, ScanFollows, SnapshotOf, Processed, Closed, IsOpen, Playing
<1>6. TodoFollows(c)' /\ SeenFollows(c)'
  BY <1>1 DEF TodoFollows, SeenFollows
<1>7. StartFollows(c)'
  BY <1>1, <1>2, <1>3, <1>4 DEF n, StartFollows, Processed, Closed, IsOpen, Playing, RoundNo
<1>8. QED
  BY <1>1, <1>5, <1>6, <1>7, LocalStep

LEMMA StartRoundOrder ==
  ASSUME IndInv, NEW c \in Controllers, StartRound(c)
  PROVE  OrderInv'
<1> DEFINE n == Total(cur[c])
<1>1. /\ pc[c] = "startRound" /\ pc'[c] = "convergeRounds"
      /\ rounds' = [rounds EXCEPT ![n + 1] = StartedRow(rounds[n + 1])]
      /\ UNCHANGED <<feed, snap, cur, prev, todo, phase, seenRound>>
  BY DEF StartRound, RoundNo, At, Goto, dbVars, IndInv, TypeInv, TypeOK
<1>2. /\ Closed(n) /\ n + 1 \in RoundNos /\ n \in 0..GameLimit
      /\ rounds \in [RoundNos -> RoundRow]
      /\ prev[c] = snap
  BY <1>1, TotalsInRange
     DEF IndInv, OrderInv, StartFollows, ScanFollows, RoundNo, TypeInv, TypeOK
<1>3. snap.known
  <2>1. prev[c].known
    BY <1>1 DEF IndInv, OrderInv, ScanFollows
  <2>2. QED
    BY <1>2, <2>1
<1>4. Closed(n)' /\ IsOpen(n)'
  <2>1. StartedRow(rounds[n + 1]).status = "STARTED"
    BY <1>2 DEF Closed, StartedRow, NoRound
  <2> HIDE DEF n
  <2>2. QED
    BY <1>1, <1>2, <2>1 DEF n, Closed, IsOpen, RoundNos
<1>5. FeedFollows'
  BY <1>1 DEF IndInv, OrderInv, FeedFollows
<1>6. Processed(cur[c])'
  BY <1>1, <1>4 DEF Processed
<1>7. ASSUME SnapshotOf(cur[c]) = SnapshotOf(feed), Total(cur[c]) = Total(feed)
      PROVE  RowsFollow' /\ ScanFollows(c)'
  <2>1. Closed(Total(feed))' /\ IsOpen(Total(feed))'
    BY <1>1, <1>4, <1>7 DEF Closed, IsOpen
  <2>2. snap = SnapshotOf(feed) => Processed(snap)'
    <3>1. snap = SnapshotOf(feed) => Total(snap) = Total(feed)
      BY SnapshotParts
    <3>2. QED
      BY <1>1, <2>1, <3>1 DEF Processed, Closed, IsOpen
  <2>3. RowsFollow'
    BY <1>1, <1>3, <2>1, <2>2 DEF RowsFollow, SnapshotOf
  <2>4. ScanFollows(c)'
    BY <1>1, <1>2, <1>3, <1>7 DEF ScanFollows, SnapshotOf
  <2>5. QED
    BY <2>3, <2>4
<1>8. ASSUME SnapshotOf(cur[c]) = snap, Total(cur[c]) = Total(snap)
      PROVE  RowsFollow' /\ ScanFollows(c)'
  <2>1. Processed(snap)'
    BY <1>1, <1>4, <1>8 DEF Processed, Closed, IsOpen
  <2>2. RowsFollow'
    BY <1>1, <1>3, <2>1 DEF RowsFollow
  <2>3. ScanFollows(c)'
    BY <1>1, <1>2, <1>3, <1>8, <2>1 DEF ScanFollows, SnapshotOf
  <2>4. QED
    BY <2>2, <2>3
<1>9. RowsFollow' /\ ScanFollows(c)'
  BY <1>1, <1>7, <1>8, OldOrNew
<1>10. TodoFollows(c)' /\ SeenFollows(c)' /\ StartFollows(c)'
  BY <1>1, <1>6 DEF TodoFollows, SeenFollows, StartFollows
<1>11. \A d \in Controllers : d = c
  BY OnlyController DEF IndInv
<1>12. QED
  BY <1>5, <1>9, <1>10, <1>11, OnlyController DEF IndInv, OrderInv

-----------------------------------------------------------------------------
LEMMA ConvergeOrder ==
  ASSUME IndInv, NEW c \in Controllers,
         ConvergeRounds(c) \/ ConvergeRow(c) \/ ConvergeSave(c)
  PROVE  OrderInv'
<1>1. /\ pc[c] \in {"convergeRounds", "convergeRow", "convergeSave"}
      /\ pc'[c] \in {"convergeRow", "convergeSave", "save"}
      /\ UNCHANGED <<feed, rounds, snap, cur, prev, todo, phase, seenRound>>
  BY DEF ConvergeRounds, ConvergeRow, ConvergeSave, At, Goto, dbVars, IndInv,
     TypeInv, TypeOK
<1>2. Processed(cur[c])
  BY <1>1 DEF IndInv, OrderInv, StartFollows
<1>3. ScanFollows(c)'
  BY <1>1 DEF IndInv, OrderInv, ScanFollows, SnapshotOf, Processed, Closed, IsOpen, Playing
<1>4. TodoFollows(c)' /\ SeenFollows(c)'
  BY <1>1 DEF TodoFollows, SeenFollows
<1>5. StartFollows(c)'
  BY <1>1, <1>2 DEF StartFollows, Processed, Closed, IsOpen, Playing
<1>6. QED
  BY <1>1, <1>3, <1>4, <1>5, LocalStep

LEMMA SaveOrder ==
  ASSUME IndInv, NEW c \in Controllers, SaveSnapshot(c)
  PROVE  OrderInv'
<1>1. /\ pc[c] = "save" /\ pc'[c] = "idle" /\ snap' = SnapshotOf(cur[c])
      /\ UNCHANGED <<feed, rounds>>
  BY DEF SaveSnapshot, Return, At, Goto, dbVars, IndInv, TypeInv, TypeOK
<1>2. Processed(cur[c]) /\ Total(feed) \in Int
  BY <1>1, TotalsInRange DEF IndInv, OrderInv, StartFollows
<1>3. /\ snap'.known /\ Total(snap') = Total(cur[c])
      /\ Playing(snap') <=> Playing(cur[c])
  BY <1>1, SnapshotParts
<1>4. RowsFollow'
  BY <1>1, <1>2, <1>3 DEF RowsFollow, Processed, Closed, IsOpen, Playing
<1>5. FeedFollows'
  <2>1. CASE Total(cur[c]) = Total(feed)
    BY <1>1, <1>2, <1>3, <2>1 DEF FeedFollows
  <2>2. CASE SnapshotOf(cur[c]) = snap
    BY <1>1, <2>2 DEF IndInv, OrderInv, FeedFollows, Playing
  <2>3. QED
    BY <1>1, <2>1, <2>2, OldOrNew
<1>6. ScanFollows(c)' /\ TodoFollows(c)' /\ SeenFollows(c)' /\ StartFollows(c)'
  BY <1>1 DEF ScanFollows, TodoFollows, SeenFollows, StartFollows
<1>7. \A d \in Controllers : d = c
  BY OnlyController DEF IndInv
<1>8. QED
  BY <1>4, <1>5, <1>6, <1>7, OnlyController DEF IndInv, OrderInv

LEMMA FailOrder ==
  ASSUME IndInv, NEW c \in Controllers, Fail(c)
  PROVE  OrderInv'
<1>1. pc'[c] = "idle" /\ UNCHANGED <<feed, rounds, snap>>
  BY DEF Fail, Return, Goto, dbVars, IndInv, TypeInv, TypeOK
<1>2. ScanFollows(c)' /\ TodoFollows(c)' /\ SeenFollows(c)' /\ StartFollows(c)'
  BY <1>1 DEF ScanFollows, TodoFollows, SeenFollows, StartFollows
<1>3. QED
  BY <1>1, <1>2, LocalStep

LEMMA StutterOrder ==
  ASSUME IndInv, UNCHANGED vars
  PROVE  OrderInv'
<1>1. PICK c \in Controllers : TRUE
  OBVIOUS
<1>2. UNCHANGED <<feed, rounds, snap, pc, cur, prev, todo, phase, seenRound>>
  BY DEF vars, dbVars, ctlVars
<1>3. ScanFollows(c)' /\ TodoFollows(c)' /\ SeenFollows(c)' /\ StartFollows(c)'
  <2>1. ScanFollows(c)'
    BY <1>2 DEF IndInv, OrderInv, ScanFollows, SnapshotOf, Processed, Closed, IsOpen, Playing
  <2>2. TodoFollows(c)' /\ SeenFollows(c)'
    BY <1>2 DEF IndInv, OrderInv, TodoFollows, SeenFollows, Pending, IsDue, Closed
  <2>3. StartFollows(c)'
    BY <1>2 DEF IndInv, OrderInv, StartFollows, Processed, Closed, IsOpen, Playing
  <2>4. QED
    BY <2>1, <2>2, <2>3
<1>4. QED
  BY <1>2, <1>3, LocalStep

LEMMA NextOrder == IndInv /\ [Next]_vars => IndInv'
<1> SUFFICES ASSUME IndInv, [Next]_vars PROVE IndInv'
  OBVIOUS
<1>1. TypeInv'
  BY NextType DEF IndInv
<1>2. ASSUME FeedNext PROVE OrderInv'
  BY <1>2, FeedOrder
<1>3. ASSUME NEW c \in Controllers, Scan(c) PROVE OrderInv'
  BY <1>3, FetchOrder, LoadOrder, UpsertOrder, ReconcileOrder, QueryRoundOrder,
     EndRoundOrder, RoundsEndedOrder, CompletedOrder, QueryStartOrder,
     StartRoundOrder, ConvergeOrder, SaveOrder DEF Scan
<1>4. ASSUME NEW c \in Controllers, Fail(c) PROVE OrderInv'
  BY <1>4, FailOrder
<1>5. ~LoseSnapshot
  BY OnlyController DEF LoseSnapshot, IndInv, TypeInv, TypeOK
<1>6. ASSUME UNCHANGED vars PROVE OrderInv'
  BY <1>6, StutterOrder
<1>7. OrderInv'
  BY <1>2, <1>3, <1>4, <1>5, <1>6 DEF Next
<1>8. QED
  BY <1>1, <1>7 DEF IndInv

(***************************************************************************)
(* OrderInv holds in every reachable state: the schedule is at most one    *)
(* change ahead of the snapshot, and the rows are those of the snapshot or *)
(* of that change.                                                         *)
(***************************************************************************)
THEOREM OrderCorrect == Ordered /\ Spec => []OrderInv
<1>1. Ordered /\ Init => IndInv
  BY InitType, InitOrder DEF IndInv
<1>2. IndInv => OrderInv
  BY DEF IndInv
<1>3. QED
  BY <1>1, <1>2, NextOrder, PTL DEF Spec

(***************************************************************************)
(* At most one round is STARTED at a time, whatever the plan and however   *)
(* many scans fail: a record-job is never left behind on an older round.   *)
(***************************************************************************)
THEOREM OneActiveRound == Ordered /\ Spec => []SingleActiveRound
<1>1. IndInv => SingleActiveRound
  <2> SUFFICES ASSUME IndInv PROVE SingleActiveRound
    OBVIOUS
  <2>1. PICK n \in Int : Closed(n)
    <3>1. PICK c \in Controllers : TRUE
      OBVIOUS
    <3>2. Total(snap) \in Int /\ Total(feed) \in Int
      BY TotalsInRange
    <3>3. CASE rounds = [r \in RoundNos |-> NoRound]
      BY <3>3, GameLimitType DEF Closed, RoundNos
    <3>4. CASE Closed(Total(snap)) \/ Closed(Total(feed))
      BY <3>2, <3>4
    <3>5. QED
      BY <3>3, <3>4 DEF IndInv, OrderInv, RowsFollow, Processed
  <2>2. RoundsIn("STARTED") \subseteq {n + 1}
    BY <2>1 DEF Closed, RoundsIn, RoundNos, NoRound
  <2>3. Cardinality({n + 1}) = 1 /\ IsFiniteSet({n + 1})
    BY FS_Singleton
  <2>4. QED
    BY <2>2, <2>3, FS_Subset, FS_CardinalityType DEF SingleActiveRound
<1>2. Ordered /\ Spec => []IndInv
  BY InitType, InitOrder, NextOrder, PTL DEF Spec, IndInv
<1>3. QED
  BY <1>1, <1>2, PTL

-----------------------------------------------------------------------------
\* A step that changes no round status is a stutter of the book.
LEMMA SameStatuses ==
  ASSUME \A r \in RoundNos : rounds'[r].status = rounds[r].status
  PROVE  StatusOf' = StatusOf
  BY DEF StatusOf, RoundNos

LEMMA EndRoundRefines ==
  ASSUME IndInv, NEW c \in Controllers, EndRound(c)
  PROVE  Book!BookNext \/ StatusOf' = StatusOf
<1>1. PICK r \in Pending(c), new \in RoundRow :
         /\ IsDue(c, r) /\ new.status = "ENDED"
         /\ rounds' = [rounds EXCEPT ![r] = new]
         /\ todo'[c] = [todo[c] EXCEPT ![r] = NoWinner]
  BY EndRoundEffect, Zenon
<1>2. r \in RoundNos /\ rounds \in [RoundNos -> RoundRow] /\ pc[c] = "endRound"
  BY DEF Pending, IndInv, TypeInv, TypeOK, EndRound, At
<1>3. CASE rounds[r].status = "ENDED"
  BY <1>1, <1>2, <1>3, SameStatuses
<1>4. CASE rounds[r].status = "STARTED"
  <2>1. StatusOf[r] = "STARTED" /\ StatusOf' = [StatusOf EXCEPT ![r] = "ENDED"]
    BY <1>1, <1>2, <1>4 DEF StatusOf
  <2>2. QED
    BY <1>2, <2>1 DEF Book!BookNext, Book!Close
<1>5. rounds[r].status \in {"STARTED", "ENDED"}
  <2>1. CASE phase[c] = "delta"
    BY <1>2, <2>1, DeltaRound, TotalsInRange DEF Closed, IsOpen
  <2>2. CASE phase[c] = "completed"
    BY <1>2, <2>2 DEF IndInv, OrderInv, TodoFollows, Closed
  <2>3. QED
    BY <2>1, <2>2 DEF IndInv, TypeInv, TypeOK
<1>6. QED
  BY <1>3, <1>4, <1>5

LEMMA StartRoundRefines ==
  ASSUME IndInv, NEW c \in Controllers, StartRound(c)
  PROVE  Book!BookNext \/ StatusOf' = StatusOf
<1> DEFINE n == Total(cur[c])
<1>1. /\ pc[c] = "startRound"
      /\ rounds' = [rounds EXCEPT ![n + 1] = StartedRow(rounds[n + 1])]
  BY DEF StartRound, RoundNo, At
<1>2. /\ Closed(n) /\ n + 1 \in RoundNos /\ n \in Int
      /\ rounds \in [RoundNos -> RoundRow]
  BY <1>1, TotalsInRange DEF IndInv, OrderInv, StartFollows, RoundNo, TypeInv, TypeOK
<1> HIDE DEF n
<1>3. CASE rounds[n + 1] = NoRound
  <2>1. StatusOf' = [StatusOf EXCEPT ![n + 1] = "STARTED"]
    BY <1>1, <1>2, <1>3 DEF StatusOf, StartedRow
  <2>2. /\ \A s \in RoundNos : s < n + 1 => StatusOf[s] = "ENDED"
        /\ \A s \in RoundNos : s >= n + 1 => StatusOf[s] = "none"
    BY <1>2, <1>3 DEF StatusOf, Closed, NoRound, RoundNos
  <2>3. QED
    BY <1>2, <2>1, <2>2 DEF Book!BookNext, Book!Open
<1>4. CASE rounds[n + 1] # NoRound
  BY <1>1, <1>2, <1>4, SameStatuses DEF StartedRow
<1>5. QED
  BY <1>3, <1>4

(***************************************************************************)
(* The scanner implements RoundBook: whoever polls the rows sees round 1   *)
(* opened and closed, then round 2, and so on, and never anything else.    *)
(***************************************************************************)
THEOREM ScannerKeepsBook == Ordered /\ Spec => ImplementsRoundBook
<1>1. Init => Book!BookInit
  BY DEF Init, Book!BookInit, StatusOf, NoRound
<1>2. ASSUME IndInv, [Next]_vars PROVE [Book!BookNext]_StatusOf
  <2>1. ASSUME NEW c \in Controllers, EndRound(c)
        PROVE  Book!BookNext \/ StatusOf' = StatusOf
    BY <1>2, <2>1, EndRoundRefines
  <2>2. ASSUME NEW c \in Controllers, StartRound(c)
        PROVE  Book!BookNext \/ StatusOf' = StatusOf
    BY <1>2, <2>2, StartRoundRefines
  <2>3. CASE rounds' = rounds
    BY <2>3, SameStatuses
  <2>4. \/ rounds' = rounds
        \/ \E c \in Controllers : EndRound(c) \/ StartRound(c)
    BY <1>2, RowsChange
  <2>5. QED
    BY <2>1, <2>2, <2>3, <2>4
<1>3. Ordered /\ Spec => []IndInv
  BY InitType, InitOrder, NextOrder, PTL DEF Spec, IndInv
<1>4. QED
  BY <1>1, <1>2, <1>3, PTL DEF Spec, ImplementsRoundBook, Book!BookSpec

-----------------------------------------------------------------------------
(* The gates                                                               *)

USE GateAssumption

NothingYet == \A r \in RoundNos : rounds[r] = NoRound

\* How far the schedule and the match row are, and the entry in hand.
Behind ==
  /\ feed.status = "WAITING" => feed.red = 0 /\ feed.blue = 0 /\ NothingYet
  /\ row.status = "DONE" => feed.status = "DONE"

InHand(c) ==
  pc[c] # "idle" =>
    /\ cur[c].status = "WAITING" => cur[c].red = 0 /\ cur[c].blue = 0 /\ NothingYet
    /\ feed.status = "WAITING" => cur[c].status = "WAITING"
    /\ cur[c].status = "DONE" => feed.status = "DONE"
    /\ row.status = "DONE" => cur[c].status = "DONE"
    /\ pc[c] \in {"convergeRow", "convergeSave"} => cur[c].status = "DONE"

Stages == Behind /\ \A c \in Controllers : InHand(c)

GateStates ==
  {"waiting", "beyondPlan", "readMatch", "readRound", "active", "skipped", "failed", "broken"}

GateTypes ==
  /\ gate \in [GateNos -> GateStates]
  /\ gateRow \in [GateNos -> MatchStatus \cup {"none"}]
  /\ outrun \in BOOLEAN

\* A gate has read nothing that is not still true.
Skips ==
  \A r \in GateNos :
    /\ gateRow[r] = "DONE" => row.status = "DONE"
    /\ gate[r] = "skipped" => row.status = "DONE" /\ RoundRowAt(r) = NoRound

\* The gates are ahead of the rounds that the schedule counts as played.
KeepsUp ==
  ~outrun =>
    /\ \A r \in GateNos : r <= Total(feed) => gate[r] = "active"
    /\ NoRoundMissed

GateInv == GateTypes /\ Skips /\ KeepsUp

AllInv == IndInv /\ Stages /\ GateInv

-----------------------------------------------------------------------------
(* What a scan may do to the rows                                          *)

\* Rounds are ended only once they exist.
LEMMA EndsPresent ==
  ASSUME IndInv, NEW c \in Controllers, EndRound(c)
  PROVE  \A r \in RoundNos : rounds[r] = NoRound => rounds'[r] = NoRound
<1>1. PICK r \in Pending(c), new \in RoundRow :
         /\ IsDue(c, r) /\ new.status = "ENDED"
         /\ rounds' = [rounds EXCEPT ![r] = new]
         /\ todo'[c] = [todo[c] EXCEPT ![r] = NoWinner]
  BY EndRoundEffect, Zenon
<1>2. r \in RoundNos /\ rounds \in [RoundNos -> RoundRow] /\ pc[c] = "endRound"
  BY DEF Pending, IndInv, TypeInv, TypeOK, EndRound, At
<1>3. rounds[r].status \in {"STARTED", "ENDED"}
  <2>1. CASE phase[c] = "delta"
    BY <1>2, <2>1, DeltaRound, TotalsInRange DEF Closed, IsOpen
  <2>2. CASE phase[c] = "completed"
    BY <1>2, <2>2 DEF IndInv, OrderInv, TodoFollows, Closed
  <2> QED
    BY <2>1, <2>2 DEF IndInv, TypeInv, TypeOK
<1>4. rounds[r] # NoRound
  BY <1>3 DEF NoRound
<1> QED
  BY <1>1, <1>2, <1>4

\* A round is opened only on behalf of an entry that is STARTED.
LEMMA StartsStarted ==
  ASSUME IndInv, NEW c \in Controllers, StartRound(c)
  PROVE  pc[c] # "idle" /\ cur[c].status = "STARTED"
BY DEF StartRound, At, IndInv, OrderInv, StartFollows

\* So no row appears unless some entry in hand is STARTED.
LEMMA RowsAppear ==
  ASSUME IndInv, [Next]_vars,
         \A c \in Controllers : pc[c] # "idle" => cur[c].status # "STARTED"
  PROVE  \A r \in RoundNos : rounds[r] = NoRound => rounds'[r] = NoRound
BY RowsChange, EndsPresent, StartsStarted

-----------------------------------------------------------------------------
(* The stages                                                              *)

LEMMA InitStages == Init => Stages
BY DEF Init, Stages, Behind, InHand, NoFeed, NoRow, NothingYet

LEMMA OnlyOne ==
  ASSUME IndInv, NEW c \in Controllers, Behind', InHand(c)'
  PROVE  Stages'
<1>1. \A d \in Controllers : d = c
  BY OnlyController DEF IndInv
<1> QED
  BY <1>1 DEF Stages

LEMMA FeedStages ==
  ASSUME IndInv, Stages, FeedNext
  PROVE  Stages'
<1>1. UNCHANGED <<row, rounds, pc, cur>>
  BY DEF FeedNext, FeedStart, FeedDone, FeedResult, FeedGame, FeedCorrection, dbVars, ctlVars
<1>2. feed \in Feed
  BY DEF IndInv, TypeInv, TypeOK
<1>3. /\ feed.status = "DONE" => feed'.status = "DONE"
      /\ feed'.status # "WAITING"
  <2>1. CASE FeedStart \/ FeedDone \/ FeedResult
    BY <1>2, <2>1 DEF FeedStart, FeedDone, FeedResult, Feed
  <2>2. CASE \E side \in Side : FeedGame(side)
    BY <1>2, <2>2 DEF FeedGame, Side, Feed
  <2>3. CASE \E from, to \in Side : FeedCorrection(from, to)
    BY <1>2, <2>3 DEF FeedCorrection, Side, Feed
  <2> QED
    BY <2>1, <2>2, <2>3 DEF FeedNext
<1> QED
  BY <1>1, <1>3 DEF Stages, Behind, InHand, NothingYet

LEMMA ScanStages ==
  ASSUME IndInv, Stages, NEW c \in Controllers, Scan(c)
  PROVE  Stages'
<1>1. /\ Behind /\ InHand(c)
      /\ pc \in [Controllers -> Pcs] /\ cur \in [Controllers -> Feed]
      /\ feed.status \in MatchStatus /\ cur[c].status \in MatchStatus
  BY FeedParts DEF Stages, IndInv, TypeInv, TypeOK
<1>2. UNCHANGED feed
  BY DEF Scan, FetchSchedule, LoadSnapshot, UpsertMatch, EnsureMatchWorkflow, ReconcileRounds,
     QueryRound, EndRound, RoundsEnded, QueryCompleted, QueryStart, StartRound, ConvergeRounds,
     ConvergeRow, ConvergeSave, SaveSnapshot
<1>3. CASE FetchSchedule(c)
  <2>1. /\ cur'[c] = feed /\ pc'[c] = "load" /\ UNCHANGED <<row, rounds>>
    BY <1>1, <1>3 DEF FetchSchedule, Goto, dbVars
  <2> QED
    BY <1>1, <1>2, <2>1, OnlyOne DEF Behind, InHand, NothingYet
<1>4. CASE UpsertMatch(c)
  <2>1. /\ pc[c] = "upsert" /\ pc'[c] \notin {"convergeRow", "convergeSave"}
        /\ row'.status = LatestStatus(cur[c]) /\ UNCHANGED <<rounds, cur>>
    BY <1>1, <1>4 DEF UpsertMatch, AfterUpsert, At, Goto
  <2>2. LatestStatus(cur[c]) = "DONE" => cur[c].status = "DONE"
    <3>1. CASE cur[c].status = "WAITING"
      <4>1. cur[c].red = 0 /\ cur[c].blue = 0
        BY <1>1, <2>1, <3>1 DEF InHand
      <4>2. ~MatchDecided(cur[c], PlanGames)
        BY <4>1 DEF MatchDecided, WinsRequired
      <4> QED
        BY <3>1, <4>2 DEF LatestStatus
    <3> QED
      BY <1>1, <3>1 DEF LatestStatus, MatchStatus
  <2> QED
    BY <1>1, <1>2, <2>1, <2>2, OnlyOne DEF Behind, InHand, NothingYet
<1>5. CASE ConvergeRounds(c)
  <2>1. /\ pc[c] = "convergeRounds" /\ UNCHANGED <<row, rounds, cur>>
        /\ pc'[c] \in {"convergeRow", "save"}
        /\ pc'[c] = "convergeRow" => cur[c].status # "STARTED" /\ CompleteByRows
    BY <1>1, <1>5 DEF ConvergeRounds, At, Goto, dbVars
  <2>2. CompleteByRows => ~NothingYet
    BY DEF CompleteByRows, Present, NothingYet
  <2>3. pc'[c] = "convergeRow" => cur[c].status = "DONE"
    BY <1>1, <2>1, <2>2 DEF InHand, MatchStatus
  <2> QED
    BY <1>1, <1>2, <2>1, <2>3, OnlyOne DEF Behind, InHand, NothingYet
<1>6. CASE ConvergeRow(c)
  <2>1. /\ pc[c] = "convergeRow" /\ UNCHANGED <<row, rounds, cur>> /\ pc'[c] # "idle"
    BY <1>1, <1>6 DEF ConvergeRow, At, Goto, dbVars
  <2> QED
    BY <1>1, <1>2, <2>1, OnlyOne DEF Behind, InHand, NothingYet
<1>7. CASE ConvergeSave(c)
  <2>1. /\ pc[c] = "convergeSave" /\ UNCHANGED <<rounds, cur>> /\ pc'[c] = "save"
    BY <1>1, <1>7 DEF ConvergeSave, At, Goto
  <2> QED
    BY <1>1, <1>2, <2>1, OnlyOne DEF Behind, InHand, NothingYet
<1>8. CASE SaveSnapshot(c)
  <2>1. pc'[c] = "idle" /\ UNCHANGED <<row, rounds>>
    BY <1>1, <1>8 DEF SaveSnapshot, Return, Goto, dbVars
  <2> QED
    BY <1>1, <1>2, <2>1, OnlyOne DEF Behind, InHand, NothingYet
<1>9. CASE LoadSnapshot(c) \/ EnsureMatchWorkflow(c) \/ ReconcileRounds(c) \/ QueryRound(c)
           \/ RoundsEnded(c) \/ QueryCompleted(c) \/ QueryStart(c)
  <2>1. /\ pc[c] # "idle" /\ pc'[c] \notin {"idle", "convergeRow", "convergeSave"}
        /\ UNCHANGED <<row, rounds, cur>>
    BY <1>1, <1>9 DEF LoadSnapshot, EnsureMatchWorkflow, AfterUpsert, ReconcileRounds,
       QueryRound, RoundsEnded, AfterEnding, QueryCompleted, QueryStart, At, Goto, dbVars
  <2> QED
    BY <1>1, <1>2, <2>1, OnlyOne DEF Behind, InHand, NothingYet
<1>10. CASE EndRound(c)
  <2>1. /\ pc[c] = "endRound" /\ pc'[c] = "queryRound" /\ UNCHANGED <<row, cur>>
    BY <1>1, <1>10 DEF EndRound, At, Goto
  <2>2. NothingYet => NothingYet'
    BY <1>10, EndsPresent DEF NothingYet
  <2> QED
    BY <1>1, <1>2, <2>1, <2>2, OnlyOne DEF Behind, InHand
<1>11. CASE StartRound(c)
  <2>1. /\ pc[c] = "startRound" /\ pc'[c] = "convergeRounds" /\ UNCHANGED <<row, cur>>
    BY <1>1, <1>11 DEF StartRound, At, Goto
  <2>2. cur[c].status = "STARTED"
    BY <1>11, StartsStarted
  <2>3. feed.status # "WAITING"
    BY <1>1, <2>1, <2>2 DEF InHand
  <2> QED
    BY <1>1, <1>2, <2>1, <2>2, <2>3, OnlyOne DEF Behind, InHand
<1> QED
  BY <1>3, <1>4, <1>5, <1>6, <1>7, <1>8, <1>9, <1>10, <1>11 DEF Scan

LEMMA FailStages ==
  ASSUME IndInv, Stages, NEW c \in Controllers, Fail(c)
  PROVE  Stages'
<1>1. pc'[c] = "idle" /\ UNCHANGED <<feed, row, rounds>>
  BY DEF Fail, Return, Goto, dbVars, IndInv, TypeInv, TypeOK
<1> QED
  BY <1>1, OnlyOne DEF Stages, Behind, InHand, NothingYet

\* Once the match row is DONE it stays so, and no round is opened any more.
LEMMA DoneIsDone ==
  ASSUME IndInv, Stages, [Next]_vars, row.status = "DONE"
  PROVE  /\ row'.status = "DONE"
         /\ \A r \in RoundNos : rounds[r] = NoRound => rounds'[r] = NoRound
<1>1. \A c \in Controllers : pc[c] # "idle" => cur[c].status = "DONE"
  BY DEF Stages, InHand
<1>2. \A r \in RoundNos : rounds[r] = NoRound => rounds'[r] = NoRound
  BY <1>1, RowsAppear
<1>3. ASSUME NEW c \in Controllers, UpsertMatch(c) \/ ConvergeSave(c)
      PROVE  row'.status = "DONE"
  <2>1. pc[c] # "idle"
    BY <1>3 DEF UpsertMatch, ConvergeSave, At
  <2> QED
    BY <1>1, <1>3, <2>1 DEF UpsertMatch, ConvergeSave, LatestStatus
<1>4. \/ row' = row
      \/ \E c \in Controllers : UpsertMatch(c) \/ ConvergeSave(c)
  <2>1. ASSUME NEW c \in Controllers, Scan(c), ~UpsertMatch(c), ~ConvergeSave(c)
        PROVE  row' = row
    BY <2>1 DEF Scan, FetchSchedule, LoadSnapshot, EnsureMatchWorkflow, ReconcileRounds,
       QueryRound, EndRound, RoundsEnded, QueryCompleted, QueryStart, StartRound,
       ConvergeRounds, ConvergeRow, SaveSnapshot, dbVars
  <2>2. ASSUME NEW c \in Controllers, Fail(c) PROVE row' = row
    BY <2>2 DEF Fail, dbVars
  <2>3. ASSUME FeedNext \/ LoseSnapshot \/ UNCHANGED vars PROVE row' = row
    BY <2>3 DEF FeedNext, FeedStart, FeedGame, FeedDone, FeedResult, FeedCorrection,
       LoseSnapshot, vars, dbVars
  <2> QED
    BY <2>1, <2>2, <2>3 DEF Next
<1> QED
  BY <1>2, <1>3, <1>4

-----------------------------------------------------------------------------
(* The gates                                                               *)

\* Steps of the scanner and the schedule that leave the gates alone.
LEMMA ScanGates ==
  ASSUME IndInv, Stages, GateInv, [Next]_vars, UNCHANGED feed, UNCHANGED gateVars
  PROVE  GateInv'
<1>1. UNCHANGED <<gate, gateRow, outrun>>
  BY DEF gateVars
<1>2. GateTypes'
  BY <1>1 DEF GateInv, GateTypes
<1>3. Skips'
  BY <1>1, DoneIsDone DEF GateInv, Skips, RoundRowAt
<1>4. KeepsUp'
  BY <1>1 DEF GateInv, KeepsUp, NoRoundMissed
<1> QED
  BY <1>2, <1>3, <1>4 DEF GateInv

\* When the schedule counts another game, its round is the open one.
LEMMA CountedIsOpen ==
  ASSUME IndInv, FeedNext
  PROVE  \/ Total(feed') = Total(feed)
         \/ /\ Total(feed') = Total(feed) + 1 /\ Total(feed) + 1 \in RoundNos
            /\ rounds[Total(feed) + 1].status = "STARTED"
<1>1. ASSUME NEW side \in Side, FeedGame(side)
      PROVE  /\ Total(feed') = Total(feed) + 1 /\ Total(feed) + 1 \in RoundNos
             /\ rounds[Total(feed) + 1].status = "STARTED"
  <2>1. Total(feed') = Total(feed) + 1 /\ Playing(feed) /\ snap = SnapshotOf(feed)
    BY <1>1, GameKeepsTotal, OnlyController DEF IndInv, FeedGame, Playing, MayChange
  <2>2. snap.known /\ Total(snap) = Total(feed) /\ Playing(snap)
    BY <2>1, SnapshotParts
  <2>3. IsOpen(Total(feed))
    BY <2>1, <2>2 DEF IndInv, OrderInv, RowsFollow, Processed
  <2>4. PICK c \in Controllers : TRUE
    OBVIOUS
  <2>5. Total(feed) + 1 \in RoundNos
    BY <2>4, TotalsInRange, GameLimitType DEF RoundNos
  <2> QED
    BY <2>1, <2>3, <2>5 DEF IsOpen
<1>2. ASSUME FeedStart \/ FeedDone \/ FeedResult
      PROVE  Total(feed') = Total(feed)
  <2>1. feed'.red = feed.red /\ feed'.blue = feed.blue
    BY <1>2 DEF FeedStart, FeedDone, FeedResult, Feed, IndInv, TypeInv, TypeOK
  <2> QED
    BY <2>1 DEF Total
<1>3. ASSUME NEW from \in Side, NEW to \in Side, FeedCorrection(from, to)
      PROVE  Total(feed') = Total(feed)
  BY <1>3, CorrectionKeepsTotal DEF IndInv
<1> QED
  BY <1>1, <1>2, <1>3 DEF FeedNext

LEMMA FeedGates ==
  ASSUME IndInv, Stages, GateInv, FeedStep
  PROVE  GateInv'
<1>1. FeedNext /\ outrun' = (outrun \/ ~GatesSettled) /\ UNCHANGED <<gate, gateRow, rounds, row>>
  BY DEF FeedStep, FeedNext, FeedStart, FeedDone, FeedResult, FeedGame, FeedCorrection, dbVars
<1>2. GateTypes'
  BY <1>1 DEF GateInv, GateTypes
<1>3. Skips'
  BY <1>1 DEF GateInv, Skips, RoundRowAt
<1>4. KeepsUp'
  <2>1. SUFFICES ASSUME ~outrun'
                 PROVE  /\ \A r \in GateNos : r <= Total(feed') => gate[r] = "active"
                        /\ \A r \in GateNos : gate[r] # "failed"
    BY <1>1 DEF KeepsUp, NoRoundMissed
  <2>2. ~outrun /\ GatesSettled
    BY <1>1, <2>1 DEF GateInv, GateTypes
  <2>3. /\ \A r \in GateNos : r <= Total(feed) => gate[r] = "active"
        /\ \A r \in GateNos : gate[r] # "failed"
    BY <2>2 DEF GateInv, KeepsUp, NoRoundMissed
  <2>4. Total(feed) \in Int
    BY FeedParts DEF IndInv, TypeInv, TypeOK, Total
  <2>5. ASSUME NEW r \in GateNos, r = Total(feed) + 1, rounds[r].status = "STARTED",
               r \in RoundNos
        PROVE  gate[r] = "active"
    BY <2>2, <2>5 DEF GatesSettled, RoundRowAt
  <2>6. \A r \in GateNos : r \in Int
    BY DEF GateNos
  <2> QED
    BY <1>1, <2>3, <2>4, <2>5, <2>6, CountedIsOpen
<1> QED
  BY <1>2, <1>3, <1>4 DEF GateInv

\* A round that is ENDED has been counted by the schedule.
LEMMA EndedIsCounted ==
  ASSUME IndInv, NEW r \in RoundNos, rounds[r].status = "ENDED"
  PROVE  r <= Total(feed)
<1>1. PICK c \in Controllers : TRUE
  OBVIOUS
<1>2. Total(snap) \in Int /\ Total(feed) \in Int /\ r \in Int
  BY TotalsInRange DEF RoundNos
<1>3. rounds[r] # NoRound /\ rounds[r].status # "STARTED"
  BY DEF NoRound
<1>4. ASSUME NEW n \in Int, Closed(n) PROVE r <= n
  BY <1>2, <1>3, <1>4 DEF Closed
<1>5. snap.known => Total(snap) <= Total(feed)
  BY <1>2 DEF IndInv, OrderInv, FeedFollows
<1>6. /\ snap.known
      /\ Closed(Total(snap)) \/ Closed(Total(feed))
  BY <1>3 DEF IndInv, OrderInv, RowsFollow, Processed
<1> QED
  BY <1>2, <1>4, <1>5, <1>6

LEMMA PollGates ==
  ASSUME IndInv, Stages, GateInv, NEW r \in GateNos, GateStep(r) \/ BreakGate(r)
  PROVE  GateInv'
<1>1. UNCHANGED <<feed, row, rounds, outrun>>
  BY DEF GateStep, StartGate, GateReadsMatch, GateReadsRound, BreakGate, vars, dbVars
<1>2. /\ gate \in [GateNos -> GateStates] /\ gateRow \in [GateNos -> MatchStatus \cup {"none"}]
      /\ row.status \in MatchStatus \cup {"none"}
  BY DEF GateInv, GateTypes, IndInv, TypeInv, TypeOK, MatchRow
<1>3. PICK s \in GateStates, m \in MatchStatus \cup {"none"} :
        /\ gate' = [gate EXCEPT ![r] = s] /\ gateRow' = [gateRow EXCEPT ![r] = m]
        /\ gate[r] \notin {"active", "skipped"}
        /\ m = "DONE" => m = gateRow[r] \/ row.status = "DONE"
        /\ s = "skipped" => gateRow[r] = "DONE" /\ RoundRowAt(r).status = "none"
        /\ s = "failed" => RoundRowAt(r).status = "ENDED"
  <2>1. CASE StartGate(r)
    <3>1. gateRow' = [gateRow EXCEPT ![r] = gateRow[r]]
      BY <1>2, <2>1 DEF StartGate
    <3> QED
      BY <1>2, <2>1, <3>1 DEF StartGate, GateStates
  <2>2. CASE GateReadsMatch(r)
    BY <1>2, <2>2 DEF GateReadsMatch, GateStates
  <2>3. CASE GateReadsRound(r)
    <3>1. GateVerdict(gateRow[r], RoundRowAt(r)) \in {"active", "failed", "skipped", "readMatch"}
      BY DEF GateVerdict
    <3>2. /\ GateVerdict(gateRow[r], RoundRowAt(r)) = "skipped" =>
               gateRow[r] = "DONE" /\ RoundRowAt(r).status = "none"
          /\ GateVerdict(gateRow[r], RoundRowAt(r)) = "failed" =>
               RoundRowAt(r).status = "ENDED"
      BY DEF GateVerdict
    <3> QED
      BY <1>2, <2>3, <3>1, <3>2 DEF GateReadsRound, GateStates
  <2>4. CASE BreakGate(r)
    BY <1>2, <2>4 DEF BreakGate, GateStates
  <2> QED
    BY <2>1, <2>2, <2>3, <2>4 DEF GateStep
<1>4. GateTypes'
  BY <1>1, <1>2, <1>3 DEF GateInv, GateTypes
<1>5. RoundRowAt(r).status = "none" => RoundRowAt(r) = NoRound
  <2>1. CASE r \in RoundNos
    <3>1. PICK c \in Controllers : TRUE
      OBVIOUS
    <3>2. Total(snap) \in Int /\ Total(feed) \in Int /\ r \in Int
      BY <2>1, TotalsInRange DEF RoundNos
    <3>3. RowsFollow
      BY DEF IndInv, OrderInv
    <3> QED
      BY <2>1, <3>2, <3>3 DEF RoundRowAt, RowsFollow, Processed, Closed
  <2> QED
    BY <2>1 DEF RoundRowAt
<1>6. Skips'
  BY <1>1, <1>2, <1>3, <1>5 DEF GateInv, Skips, RoundRowAt
<1>7. KeepsUp'
  <2>1. SUFFICES ASSUME ~outrun
                 PROVE  /\ \A q \in GateNos : q <= Total(feed) => gate'[q] = "active"
                        /\ \A q \in GateNos : gate'[q] # "failed"
    BY <1>1 DEF KeepsUp, NoRoundMissed
  <2>2. /\ \A q \in GateNos : q <= Total(feed) => gate[q] = "active"
        /\ \A q \in GateNos : gate[q] # "failed"
    BY <2>1 DEF GateInv, KeepsUp, NoRoundMissed
  <2>3. ~(r <= Total(feed))
    BY <1>3, <2>2
  <2>4. s # "failed"
    BY <1>3, <2>3, EndedIsCounted DEF RoundRowAt, NoRound
  <2> QED
    BY <1>2, <1>3, <2>2, <2>3, <2>4
<1> QED
  BY <1>4, <1>6, <1>7 DEF GateInv

-----------------------------------------------------------------------------
(* The specification                                                       *)

\* A gate that breaks uses up a fault, which the scanner does not depend on.
LEMMA BreakOrder ==
  ASSUME IndInv, Stages, NEW r \in GateNos, BreakGate(r)
  PROVE  IndInv' /\ Stages'
<1>1. UNCHANGED <<feed, row, rounds, snap, workflow, ctlVars>>
  BY DEF BreakGate
<1>2. spent' \in [fault : 0..MaxFaults, loss : 0..MaxLosses, correction : 0..MaxCorrections]
  <2>1. /\ spent \in [fault : 0..MaxFaults, loss : 0..MaxLosses,
                       correction : 0..MaxCorrections]
        /\ spent.fault < MaxFaults
        /\ spent' = [spent EXCEPT !.fault = spent.fault + 1]
    BY DEF BreakGate, IndInv, TypeInv, TypeOK
  <2>2. spent.fault + 1 \in 0..MaxFaults
    BY <2>1
  <2>3. QED
    BY <2>1, <2>2
<1>3. TypeInv'
  BY <1>1, <1>2 DEF IndInv, TypeInv, TypeOK, ctlVars
<1>4. PICK c \in Controllers : TRUE
  OBVIOUS
<1>5. UNCHANGED <<feed, row, rounds, snap, pc, cur, prev, todo, phase, seenRound>>
  BY <1>1 DEF ctlVars
<1>6. OrderInv'
  <2>1. ScanFollows(c)'
    BY <1>5 DEF IndInv, OrderInv, ScanFollows, SnapshotOf, Processed, Closed, IsOpen, Playing
  <2>2. TodoFollows(c)' /\ SeenFollows(c)'
    BY <1>5 DEF IndInv, OrderInv, TodoFollows, SeenFollows, Pending, IsDue, Closed
  <2>3. StartFollows(c)'
    BY <1>5 DEF IndInv, OrderInv, StartFollows, Processed, Closed, IsOpen, Playing
  <2> QED
    BY <1>5, <2>1, <2>2, <2>3, LocalStep
<1>7. Stages'
  BY <1>5 DEF Stages, Behind, InHand, NothingYet
<1> QED
  BY <1>3, <1>6, <1>7 DEF IndInv

LEMMA NextStages ==
  ASSUME IndInv, Stages, [Next]_vars
  PROVE  Stages'
<1>1. CASE FeedNext
  BY <1>1, FeedStages
<1>2. ASSUME NEW c \in Controllers, Scan(c) \/ Fail(c) PROVE Stages'
  BY <1>2, ScanStages, FailStages
<1>3. CASE LoseSnapshot \/ UNCHANGED vars
  BY <1>3 DEF LoseSnapshot, vars, dbVars, ctlVars, Stages, Behind, InHand, NothingYet
<1> QED
  BY <1>1, <1>2, <1>3 DEF Next

LEMMA InitAll == Ordered /\ GateInit => AllInv
<1> SUFFICES ASSUME Ordered, GateInit PROVE AllInv
  OBVIOUS
<1>1. Init /\ IndInv /\ Stages
  BY InitType, InitOrder, InitStages DEF GateInit, IndInv
<1>2. GateTypes /\ Skips
  BY DEF GateInit, GateTypes, GateStates, Skips
<1>3. KeepsUp
  <2>1. Total(feed) = 0 /\ \A r \in GateNos : ~(r <= 0)
    BY <1>1 DEF Init, NoFeed, Total, GateNos
  <2> QED
    BY <2>1 DEF GateInit, KeepsUp, NoRoundMissed
<1> QED
  BY <1>1, <1>2, <1>3 DEF AllInv, GateInv

LEMMA NextAll ==
  ASSUME AllInv, [GateNext]_allVars
  PROVE  AllInv'
<1>1. CASE FeedStep
  <2>1. FeedNext
    BY <1>1 DEF FeedStep
  <2>2. [Next]_vars
    BY <2>1 DEF Next
  <2> QED
    BY <1>1, <2>2, NextOrder, NextStages, FeedGates DEF AllInv
<1>2. CASE ScanStep /\ UNCHANGED gateVars
  <2>1. [Next]_vars
    BY <1>2 DEF ScanStep, Next
  <2>2. UNCHANGED feed
    BY <1>2 DEF ScanStep, Scan, FetchSchedule, LoadSnapshot, UpsertMatch, EnsureMatchWorkflow,
       ReconcileRounds, QueryRound, EndRound, RoundsEnded, QueryCompleted, QueryStart,
       StartRound, ConvergeRounds, ConvergeRow, ConvergeSave, SaveSnapshot, Fail, LoseSnapshot
  <2> QED
    BY <1>2, <2>1, <2>2, NextOrder, NextStages, ScanGates DEF AllInv
<1>3. ASSUME NEW r \in GateNos, GateStep(r) PROVE AllInv'
  <2>1. UNCHANGED vars
    BY <1>3 DEF GateStep, StartGate, GateReadsMatch, GateReadsRound
  <2> QED
    BY <1>3, <2>1, NextOrder, NextStages, PollGates DEF AllInv
<1>4. ASSUME NEW r \in GateNos, BreakGate(r) PROVE AllInv'
  BY <1>4, BreakOrder, PollGates DEF AllInv
<1>5. CASE UNCHANGED allVars
  <2>1. UNCHANGED vars /\ UNCHANGED gateVars /\ UNCHANGED feed
    BY <1>5 DEF allVars, vars
  <2> QED
    BY <2>1, NextOrder, NextStages, ScanGates DEF AllInv
<1> QED
  BY <1>1, <1>2, <1>3, <1>4, <1>5 DEF GateNext

THEOREM GateInvariant == Ordered /\ GateSpec => []AllInv
BY InitAll, NextAll, PTL DEF GateSpec

(***************************************************************************)
(* A round whose gate reported match-done is never played, though the gate *)
(* reads the match and the round at different moments.                     *)
(***************************************************************************)
THEOREM SkippedIsOver == Ordered /\ GateSpec => []SkippedNeverPlayed
<1>1. AllInv => SkippedNeverPlayed
  BY DEF AllInv, GateInv, Skips, SkippedNeverPlayed
<1> QED
  BY <1>1, GateInvariant, PTL

(***************************************************************************)
(* A gate that keeps up with the schedule never finds its round ENDED.     *)
(***************************************************************************)
THEOREM GatesMissNoRound == Ordered /\ GateSpec => []NoRoundMissed
<1>1. AllInv => NoRoundMissed
  BY DEF AllInv, GateInv, KeepsUp, NoRoundMissed
<1> QED
  BY <1>1, GateInvariant, PTL

-----------------------------------------------------------------------------
(* Induction and recursion over the numbers up to a bound, with the        *)
(* property given as a set and the step as a function                      *)

LEMMA LeastNumber ==
  ASSUME NEW T \in SUBSET Nat, T # {}
  PROVE  \E n \in T : \A k \in T : n <= k
<1>1. PICK n \in T : \A k \in T : ~(<<k, n>> \in OpToRel(<, Nat))
  BY NatLessThanWellFounded, WFMin
<1>2. ASSUME NEW k \in T PROVE n <= k
  <2>1. ~(k < n)
    BY <1>1 DEF OpToRel
  <2>2. QED
    BY <2>1
<1>3. QED
  BY <1>2

LEMMA SetInduction ==
  ASSUME NEW N \in Nat, NEW T, 0 \in T,
         \A n \in 1..N : n - 1 \in T => n \in T
  PROVE  0..N \subseteq T
<1> SUFFICES ASSUME NEW x \in 0..N, x \notin T PROVE FALSE
  OBVIOUS
<1> DEFINE rest == {n \in 0..N : n \notin T}
<1>1. rest \in SUBSET Nat /\ rest # {}
  OBVIOUS
<1>2. PICK n \in rest : \A k \in rest : n <= k
  BY <1>1, LeastNumber
<1>3. n \in 1..N /\ n - 1 \in 0..N
  BY <1>2
<1>4. n - 1 \notin rest
  BY <1>2, <1>3
<1>5. QED
  BY <1>2, <1>3, <1>4

\* A loop that takes the steps 1, ..., N from s0: f has its result after each.
IsLoop(f, N, S, s0, step) ==
  f \in [0..N -> S] /\ f[0] = s0 /\ \A k \in 1..N : f[k] = step[k][f[k - 1]]

LEMMA LoopRuns ==
  ASSUME NEW N \in Nat, NEW S, NEW s0 \in S, NEW step \in [1..N -> [S -> S]]
  PROVE  \E f : IsLoop(f, N, S, s0, step)
<1> DEFINE Runs(f, n) == f[0] = s0 /\ \A k \in 1..n : f[k] = step[k][f[k - 1]]
           T == {n \in 0..N : \E f \in [0..n -> S] : Runs(f, n)}
<1>1. 0 \in T
  <2> DEFINE f == [k \in 0..0 |-> s0]
  <2>1. f \in [0..0 -> S] /\ Runs(f, 0)
    OBVIOUS
  <2> HIDE DEF f, Runs
  <2>2. \E h \in [0..0 -> S] : Runs(h, 0)
    BY <2>1
  <2>3. QED
    BY <2>2
<1>2. ASSUME NEW n \in 1..N, n - 1 \in T PROVE n \in T
  <2>1. PICK f \in [0..(n - 1) -> S] : Runs(f, n - 1)
    BY <1>2
  <2> DEFINE g == [k \in 0..n |-> IF k = n THEN step[n][f[n - 1]] ELSE f[k]]
  <2>2. n - 1 \in 0..(n - 1) /\ n \in 0..n /\ n # 0
    OBVIOUS
  <2>3. step[n][f[n - 1]] \in S
    BY <2>2
  <2>4. \A k \in 0..n : k # n => k \in 0..(n - 1)
    OBVIOUS
  <2>5. g \in [0..n -> S]
    BY <2>3, <2>4
  <2>6. \A k \in 0..(n - 1) : g[k] = f[k]
    OBVIOUS
  <2>7. ASSUME NEW k \in 1..n PROVE g[k] = step[k][g[k - 1]]
    <3>1. k - 1 \in 0..(n - 1)
      OBVIOUS
    <3>2. g[k - 1] = f[k - 1]
      BY <2>6, <3>1
    <3>3. CASE k = n
      BY <3>2, <3>3
    <3>4. CASE k # n
      <4>1. k \in 1..(n - 1)
        BY <3>4
      <4>2. f[k] = step[k][f[k - 1]]
        BY <2>1, <4>1
      <4>3. g[k] = f[k]
        BY <4>1, <2>6
      <4>4. QED
        BY <3>2, <4>2, <4>3
    <3>5. QED
      BY <3>3, <3>4
  <2>8. g[0] = s0
    BY <2>1, <2>2, <2>6
  <2>9. Runs(g, n)
    BY <2>7, <2>8
  <2> HIDE DEF g, Runs
  <2>10. \E h \in [0..n -> S] : Runs(h, n)
    BY <2>5, <2>9
  <2>11. QED
    BY <2>10
<1> HIDE DEF T, Runs
<1>3. 0..N \subseteq T
  BY <1>1, <1>2, SetInduction
<1>4. N \in T
  BY <1>3
<1>5. QED
  BY <1>4 DEF T, Runs, IsLoop

-----------------------------------------------------------------------------
(* authoritativeWinners: its two loops                                     *)

IsScore(score) == score["red"] \in Nat /\ score["blue"] \in Nat

Slots(score) == 1..Total(score)

\* The locals of the function have their types.
Done(score) ==
  [out      : [Slots(score) -> Winner \cup {NoWinner}],
   used     : SUBSET Slots(score),
   credited : [Side -> Nat]]

LEMMA ScoreParts ==
  ASSUME NEW score, IsScore(score)
  PROVE  /\ Total(score) \in Nat /\ Total(score) = score["red"] + score["blue"]
         /\ score.red = score["red"] /\ score.blue = score["blue"]
         /\ \A side \in Side : score[side] \in Nat
  BY DEF IsScore, Total, Side

LEMMA SlotsFinite ==
  ASSUME NEW score, IsScore(score)
  PROVE  IsFiniteSet(Slots(score)) /\ Cardinality(Slots(score)) = Total(score)
<1>1. Total(score) \in Nat
  BY ScoreParts
<1>2. QED
  BY <1>1, FS_Interval DEF Slots

LEMMA UntouchedType ==
  ASSUME NEW score, IsScore(score)
  PROVE  Untouched(score) \in Done(score)
  BY DEF Untouched, Done, Slots

\* What the two kinds of step do to the locals.
LEMMA CreditParts ==
  ASSUME NEW score, NEW done \in Done(score), NEW n \in Slots(score), NEW side \in Side
  PROVE  /\ Credit(done, n, side) \in Done(score)
         /\ Credit(done, n, side).used = done.used
         /\ \A i \in Slots(score) :
              Credit(done, n, side).out[i] = IF i = n THEN side ELSE done.out[i]
         /\ \A s \in Side :
              Credit(done, n, side).credited[s] =
                done.credited[s] + (IF s = side THEN 1 ELSE 0)
<1>1. /\ [done.out EXCEPT ![n] = side] \in [Slots(score) -> Winner \cup {NoWinner}]
      /\ [done.credited EXCEPT ![side] = done.credited[side] + 1] \in [Side -> Nat]
  BY DEF Done, Winner
<1>2. /\ Credit(done, n, side) \in Done(score)
      /\ Credit(done, n, side).used = done.used
      /\ Credit(done, n, side).out = [done.out EXCEPT ![n] = side]
      /\ Credit(done, n, side).credited =
           [done.credited EXCEPT ![side] = done.credited[side] + 1]
  BY <1>1 DEF Credit, Done
<1>3. /\ done.out \in [Slots(score) -> Winner \cup {NoWinner}]
      /\ done.credited \in [Side -> Nat]
  BY DEF Done
<1>4. ASSUME NEW s \in Side
      PROVE  Credit(done, n, side).credited[s] = done.credited[s] + (IF s = side THEN 1 ELSE 0)
  BY <1>2, <1>3
<1>5. QED
  BY <1>2, <1>3, <1>4

LEMMA KeepParts ==
  ASSUME NEW score, NEW done \in Done(score), NEW n \in Slots(score), NEW w
  PROVE  /\ Keep(done, score, n, w) \in Done(score)
         /\ Accepts(done, score, w) =>
              /\ Keep(done, score, n, w).used = done.used \cup {n}
              /\ \A i \in Slots(score) :
                   Keep(done, score, n, w).out[i] = IF i = n THEN w ELSE done.out[i]
              /\ \A side \in Side :
                   Keep(done, score, n, w).credited[side] =
                     done.credited[side] + (IF side = w THEN 1 ELSE 0)
         /\ ~Accepts(done, score, w) => Keep(done, score, n, w) = done
<1>1. CASE Accepts(done, score, w)
  <2>1. w \in Side
    BY <1>1 DEF Accepts
  <2> DEFINE c == Credit(done, n, w)
  <2>2. Keep(done, score, n, w) = [c EXCEPT !.used = c.used \cup {n}]
    BY <1>1 DEF Keep
  <2>3. /\ c \in Done(score) /\ c.used = done.used
        /\ \A i \in Slots(score) : c.out[i] = IF i = n THEN w ELSE done.out[i]
        /\ \A s \in Side : c.credited[s] = done.credited[s] + (IF s = w THEN 1 ELSE 0)
    BY <2>1, CreditParts
  <2>4. c.used \cup {n} \in SUBSET Slots(score)
    BY <2>3 DEF Done
  <2> HIDE DEF c
  <2>5. /\ [c EXCEPT !.used = c.used \cup {n}] \in Done(score)
        /\ [c EXCEPT !.used = c.used \cup {n}].used = c.used \cup {n}
        /\ [c EXCEPT !.used = c.used \cup {n}].out = c.out
        /\ [c EXCEPT !.used = c.used \cup {n}].credited = c.credited
    BY <2>3, <2>4 DEF Done
  <2>6. QED
    BY <1>1, <2>2, <2>3, <2>5
<1>2. CASE ~Accepts(done, score, w)
  BY <1>2 DEF Keep
<1>3. QED
  BY <1>1, <1>2

\* The slot n gets the winner w in the second loop, and nothing else changes.
Gives(done, next, score, n, w) ==
  /\ next.used = done.used
  /\ \A i \in Slots(score) : next.out[i] = IF i = n THEN w ELSE done.out[i]
  /\ \A side \in Side :
       next.credited[side] = done.credited[side] + (IF side = w THEN 1 ELSE 0)

LEMMA FillParts ==
  ASSUME NEW score, NEW done \in Done(score), NEW n \in Slots(score)
  PROVE  /\ Fill(done, score, n) \in Done(score)
         /\ n \in done.used => Fill(done, score, n) = done
         /\ n \notin done.used /\ done.credited["blue"] < score["blue"] =>
              Gives(done, Fill(done, score, n), score, n, "blue")
         /\ n \notin done.used /\ ~(done.credited["blue"] < score["blue"])
              /\ done.credited["red"] < score["red"] =>
              Gives(done, Fill(done, score, n), score, n, "red")
         /\ n \notin done.used /\ ~(done.credited["blue"] < score["blue"])
              /\ ~(done.credited["red"] < score["red"]) =>
              Gives(done, Fill(done, score, n), score, n, "draw")
<1>1. "red" \in Side /\ "blue" \in Side
  BY DEF Side
<1>2. /\ Accepts(done, score, "blue") <=> done.credited["blue"] < score["blue"]
      /\ Accepts(done, score, "red") <=> done.credited["red"] < score["red"]
  BY <1>1 DEF Accepts
<1>3. \A side \in Side : /\ Credit(done, n, side) \in Done(score)
                         /\ Gives(done, Credit(done, n, side), score, n, side)
  BY CreditParts DEF Gives
<1> DEFINE drawn == [done EXCEPT !.out[n] = "draw"]
<1>4. drawn \in Done(score) /\ Gives(done, drawn, score, n, "draw")
  <2>1. /\ [done.out EXCEPT ![n] = "draw"] \in [Slots(score) -> Winner \cup {NoWinner}]
        /\ done.out \in [Slots(score) -> Winner \cup {NoWinner}]
        /\ done.credited \in [Side -> Nat]
    BY DEF Done, Winner
  <2>2. /\ drawn \in Done(score) /\ drawn.used = done.used
        /\ drawn.out = [done.out EXCEPT ![n] = "draw"] /\ drawn.credited = done.credited
    BY <2>1 DEF Done
  <2> HIDE DEF drawn
  <2>3. \A side \in Side : side # "draw" /\ done.credited[side] + 0 = done.credited[side]
    BY <2>1 DEF Side
  <2>4. QED
    BY <2>1, <2>2, <2>3 DEF Gives
<1> HIDE DEF drawn
<1>5. Fill(done, score, n) =
        IF n \in done.used THEN done
        ELSE IF Accepts(done, score, "blue") THEN Credit(done, n, "blue")
        ELSE IF Accepts(done, score, "red") THEN Credit(done, n, "red")
        ELSE drawn
  BY DEF Fill, drawn
<1>6. QED
  BY <1>1, <1>2, <1>3, <1>4, <1>5

\* The loops, step by step.
LEMMA KeepLoop ==
  ASSUME NEW score, IsScore(score), NEW recorded
  PROVE  /\ KeptRounds(recorded, score) \in [0..Total(score) -> Done(score)]
         /\ KeptRounds(recorded, score)[0] = Untouched(score)
         /\ \A n \in 1..Total(score) :
              KeptRounds(recorded, score)[n] =
                Keep(KeptRounds(recorded, score)[n - 1], score, n, recorded[n])
<1> DEFINE N == Total(score)
           step == [k \in 1..N |-> [done \in Done(score) |-> Keep(done, score, k, recorded[k])]]
           Eqn(f) == f = [n \in 0..N |-> IF n = 0 THEN Untouched(score)
                                         ELSE Keep(f[n - 1], score, n, recorded[n])]
<1>1. N \in Nat
  BY ScoreParts
<1>2. step \in [1..N -> [Done(score) -> Done(score)]]
  BY KeepParts DEF Slots
<1> HIDE DEF N
<1>3. PICK f \in [0..N -> Done(score)] :
         f[0] = Untouched(score) /\ \A k \in 1..N : f[k] = step[k][f[k - 1]]
  <2> HIDE DEF step
  <2>1. Untouched(score) \in Done(score)
    BY UntouchedType
  <2>2. \E f : IsLoop(f, N, Done(score), Untouched(score), step)
    BY <1>1, <1>2, <2>1, LoopRuns
  <2>3. QED
    BY <2>2 DEF IsLoop
<1>4. \A k \in 1..N : k - 1 \in 0..N
  BY <1>1
<1>5. \A k \in 1..N : f[k] = Keep(f[k - 1], score, k, recorded[k])
  BY <1>3, <1>4
<1>6. Eqn(f)
  BY <1>1, <1>3, <1>5
<1> HIDE DEF Eqn
<1>7. KeptRounds(recorded, score) = CHOOSE g : Eqn(g)
  BY DEF KeptRounds, Eqn, N
<1> DEFINE g == CHOOSE h : Eqn(h)
<1>8. Eqn(g)
  BY <1>6
<1> HIDE DEF g
<1>9. /\ DOMAIN g = 0..N /\ g = [n \in 0..N |-> g[n]]
      /\ g[0] = Untouched(score)
      /\ \A n \in 1..N : g[n] = Keep(g[n - 1], score, n, recorded[n])
  <2>1. g = [n \in 0..N |-> IF n = 0 THEN Untouched(score)
                            ELSE Keep(g[n - 1], score, n, recorded[n])]
    BY <1>8 DEF Eqn
  <2>2. 0 \in 0..N /\ \A n \in 1..N : n \in 0..N /\ n # 0
    BY <1>1
  <2>3. /\ g[0] = Untouched(score)
        /\ \A n \in 1..N : g[n] = Keep(g[n - 1], score, n, recorded[n])
    BY <2>1, <2>2
  <2>4. DOMAIN g = 0..N /\ g = [n \in 0..N |-> g[n]]
    BY <2>1
  <2>5. QED
    BY <2>3, <2>4
<1> DEFINE T == {n \in 0..N : g[n] \in Done(score)}
<1>10. 0 \in T
  BY <1>1, <1>9, UntouchedType
<1>11. ASSUME NEW n \in 1..N, n - 1 \in T PROVE n \in T
  <2>1. n \in Slots(score) /\ n \in 0..N /\ g[n - 1] \in Done(score)
    BY <1>1, <1>11 DEF Slots, N
  <2>2. Keep(g[n - 1], score, n, recorded[n]) \in Done(score)
    BY <2>1, KeepParts
  <2>3. QED
    BY <1>9, <2>1, <2>2
<1> HIDE DEF T
<1>12. 0..N \subseteq T
  BY <1>1, <1>10, <1>11, SetInduction
<1>13. g \in [0..N -> Done(score)]
  BY <1>9, <1>12 DEF T
<1>14. QED
  BY <1>7, <1>9, <1>13 DEF g, N

LEMMA FillLoop ==
  ASSUME NEW score, IsScore(score), NEW recorded
  PROVE  /\ FilledSlots(recorded, score) \in [0..Total(score) -> Done(score)]
         /\ FilledSlots(recorded, score)[0] = KeptRounds(recorded, score)[Total(score)]
         /\ \A n \in 1..Total(score) :
              FilledSlots(recorded, score)[n] =
                Fill(FilledSlots(recorded, score)[n - 1], score, Total(score) - n + 1)
<1> DEFINE N == Total(score)
           s0 == KeptRounds(recorded, score)[N]
           step == [k \in 1..N |-> [done \in Done(score) |-> Fill(done, score, N - k + 1)]]
           Eqn(f) == f = [n \in 0..N |-> IF n = 0 THEN s0
                                         ELSE Fill(f[n - 1], score, N - n + 1)]
<1>1. N \in Nat /\ s0 \in Done(score)
  BY ScoreParts, KeepLoop
<1>0. \A k \in 1..N : N - k + 1 \in Slots(score)
  BY <1>1 DEF Slots
<1>2. step \in [1..N -> [Done(score) -> Done(score)]]
  BY <1>0, FillParts
<1>7. FilledSlots(recorded, score) = CHOOSE g : Eqn(g)
  BY DEF FilledSlots
<1> HIDE DEF N, s0
<1>3. PICK f \in [0..N -> Done(score)] :
         f[0] = s0 /\ \A k \in 1..N : f[k] = step[k][f[k - 1]]
  <2> HIDE DEF step
  <2>1. \E f : IsLoop(f, N, Done(score), s0, step)
    BY <1>1, <1>2, LoopRuns
  <2>2. QED
    BY <2>1 DEF IsLoop
<1>4. \A k \in 1..N : k - 1 \in 0..N
  BY <1>1
<1>5. \A k \in 1..N : f[k] = Fill(f[k - 1], score, N - k + 1)
  BY <1>3, <1>4
<1>6. Eqn(f)
  BY <1>1, <1>3, <1>5
<1> HIDE DEF Eqn
<1> DEFINE g == CHOOSE h : Eqn(h)
<1>8. Eqn(g)
  BY <1>6
<1> HIDE DEF g
<1>9. /\ DOMAIN g = 0..N /\ g = [n \in 0..N |-> g[n]]
      /\ g[0] = s0
      /\ \A n \in 1..N : g[n] = Fill(g[n - 1], score, N - n + 1)
  <2>1. g = [n \in 0..N |-> IF n = 0 THEN s0 ELSE Fill(g[n - 1], score, N - n + 1)]
    BY <1>8 DEF Eqn
  <2>2. 0 \in 0..N /\ \A n \in 1..N : n \in 0..N /\ n # 0
    BY <1>1
  <2>3. /\ g[0] = s0
        /\ \A n \in 1..N : g[n] = Fill(g[n - 1], score, N - n + 1)
    BY <2>1, <2>2
  <2>4. DOMAIN g = 0..N /\ g = [n \in 0..N |-> g[n]]
    BY <2>1
  <2>5. QED
    BY <2>3, <2>4
<1> DEFINE T == {n \in 0..N : g[n] \in Done(score)}
<1>10. 0 \in T
  BY <1>1, <1>9
<1>11. ASSUME NEW n \in 1..N, n - 1 \in T PROVE n \in T
  <2>1. N - n + 1 \in Slots(score) /\ n \in 0..N /\ g[n - 1] \in Done(score)
    BY <1>0, <1>1, <1>11
  <2>2. Fill(g[n - 1], score, N - n + 1) \in Done(score)
    BY <2>1, FillParts
  <2>3. QED
    BY <1>9, <2>1, <2>2
<1> HIDE DEF T
<1>12. 0..N \subseteq T
  BY <1>1, <1>10, <1>11, SetInduction
<1>13. g \in [0..N -> Done(score)]
  BY <1>9, <1>12 DEF T
<1>14. QED
  BY <1>7, <1>9, <1>13 DEF g, N, s0

-----------------------------------------------------------------------------
(* The rounds of one side among the first n                                *)

LEMMA TallyStep ==
  ASSUME NEW winners, NEW side
  PROVE  /\ Tally(winners, 0, side) = 0
         /\ \A n \in Nat : Tally(winners, n, side) \in Nat
         /\ \A n \in Nat \ {0} :
              Tally(winners, n, side) =
                Tally(winners, n - 1, side) + (IF winners[n] = side THEN 1 ELSE 0)
<1> DEFINE Of(n) == {j \in 1..n : winners[j] = side}
<1>1. Of(0) = {}
  OBVIOUS
<1>2. \A n \in Nat : IsFiniteSet(Of(n))
  <2>1. TAKE n \in Nat
  <2>2. IsFiniteSet(1..n) /\ Of(n) \in SUBSET (1..n)
    BY FS_Interval
  <2>3. QED
    BY <2>2, FS_Subset
<1>3. ASSUME NEW n \in Nat \ {0}
      PROVE  Cardinality(Of(n)) = Cardinality(Of(n - 1)) + (IF winners[n] = side THEN 1 ELSE 0)
  <2>1. n - 1 \in Nat /\ n \notin Of(n - 1) /\ 1..n = 1..(n - 1) \cup {n}
    OBVIOUS
  <2>2. IsFiniteSet(Of(n - 1)) /\ Cardinality(Of(n - 1)) \in Nat
    BY <1>2, <2>1, FS_CardinalityType
  <2>3. CASE winners[n] = side
    <3>1. Of(n) = Of(n - 1) \cup {n}
      BY <2>1, <2>3
    <3>2. QED
      BY <2>1, <2>2, <2>3, <3>1, FS_AddElement
  <2>4. CASE winners[n] # side
    <3>1. Of(n) = Of(n - 1)
      BY <2>1, <2>4
    <3> HIDE DEF Of
    <3>2. QED
      BY <2>2, <2>4, <3>1
  <2>5. QED
    BY <2>3, <2>4
<1>4. QED
  BY <1>1, <1>2, <1>3, FS_EmptySet, FS_CardinalityType DEF Tally

LEMMA TallyGrows ==
  ASSUME NEW winners, NEW side, NEW n \in Nat, NEW i \in 1..n
  PROVE  Tally(winners, i, side) <= Tally(winners, n, side)
<1>1. IsFiniteSet(1..n)
  BY FS_Interval
<1>2. {j \in 1..n : winners[j] = side} \in SUBSET (1..n)
  OBVIOUS
<1>3. {j \in 1..i : winners[j] = side} \in SUBSET {j \in 1..n : winners[j] = side}
  OBVIOUS
<1>4. IsFiniteSet({j \in 1..n : winners[j] = side})
  BY <1>1, <1>2, FS_Subset
<1>5. QED
  BY <1>3, <1>4, FS_Subset DEF Tally

-----------------------------------------------------------------------------
(* The first loop keeps what AuthoritativeWinners keeps                    *)

Kept(recorded, score, n, side) == {i \in 1..n : Keeps(recorded, i, side, score[side])}

LEMMA KeptMeans ==
  ASSUME NEW recorded, NEW score, NEW n, NEW side, NEW i
  PROVE  i \in Kept(recorded, score, n, side) <=>
           i \in 1..n /\ recorded[i] = side /\ Tally(recorded, i, side) <= score[side]
  BY DEF Kept, Keeps, Tally

\* A side is credited with its rounds so far, but with no more than its wins.
LEMMA KeptStep ==
  ASSUME NEW recorded, NEW score, NEW side, score[side] \in Nat
  PROVE  /\ Kept(recorded, score, 0, side) = {}
         /\ \A n \in Nat : /\ IsFiniteSet(Kept(recorded, score, n, side))
                           /\ Cardinality(Kept(recorded, score, n, side)) \in Nat
         /\ \A n \in Nat \ {0} :
              Kept(recorded, score, n, side) =
                IF recorded[n] = side /\ Tally(recorded, n - 1, side) < score[side]
                THEN Kept(recorded, score, n - 1, side) \cup {n}
                ELSE Kept(recorded, score, n - 1, side)
<1>1. Kept(recorded, score, 0, side) = {}
  BY DEF Kept
<1>2. ASSUME NEW n \in Nat
      PROVE  /\ IsFiniteSet(Kept(recorded, score, n, side))
             /\ Cardinality(Kept(recorded, score, n, side)) \in Nat
  <2>1. IsFiniteSet(1..n) /\ Kept(recorded, score, n, side) \in SUBSET (1..n)
    BY FS_Interval DEF Kept
  <2>2. QED
    BY <2>1, FS_Subset, FS_CardinalityType
<1>3. ASSUME NEW n \in Nat \ {0}
      PROVE  Kept(recorded, score, n, side) =
               IF recorded[n] = side /\ Tally(recorded, n - 1, side) < score[side]
               THEN Kept(recorded, score, n - 1, side) \cup {n}
               ELSE Kept(recorded, score, n - 1, side)
  <2>1. 1..n = 1..(n - 1) \cup {n} /\ n - 1 \in Nat
    OBVIOUS
  <2>2. Tally(recorded, n - 1, side) \in Nat
    BY <2>1, TallyStep
  <2>3. recorded[n] = side => Tally(recorded, n, side) = Tally(recorded, n - 1, side) + 1
    BY <2>2, TallyStep
  <2>4. n \in Kept(recorded, score, n, side) <=>
          recorded[n] = side /\ Tally(recorded, n - 1, side) < score[side]
    BY <2>2, <2>3, KeptMeans
  <2>5. \A i : i \in 1..(n - 1) =>
          (i \in Kept(recorded, score, n, side) <=> i \in Kept(recorded, score, n - 1, side))
    BY <2>1, KeptMeans
  <2>6. /\ Kept(recorded, score, n, side) \subseteq 1..n
        /\ Kept(recorded, score, n - 1, side) \subseteq 1..(n - 1)
    BY DEF Kept
  <2>7. QED
    BY <2>1, <2>4, <2>5, <2>6
<1>4. QED
  BY <1>1, <1>2, <1>3

KeepInv(recorded, score, n, done) ==
  /\ done.used = Kept(recorded, score, n, "red") \cup Kept(recorded, score, n, "blue")
  /\ \A i \in Slots(score) :
       done.out[i] = IF i \in done.used THEN recorded[i] ELSE NoWinner
  /\ \A side \in Side :
       /\ done.credited[side] = Cardinality(Kept(recorded, score, n, side))
       /\ done.credited[side] <= score[side]
       /\ done.credited[side] <= Tally(recorded, n, side)
       /\ \/ done.credited[side] = score[side]
          \/ done.credited[side] = Tally(recorded, n, side)

LEMMA KeepInvStart ==
  ASSUME NEW recorded, NEW score, IsScore(score)
  PROVE  KeepInv(recorded, score, 0, Untouched(score))
<1>1. \A side \in Side : Kept(recorded, score, 0, side) = {}
  BY ScoreParts, KeptStep
<1>2. \A side \in Side : Tally(recorded, 0, side) = 0 /\ score[side] \in Nat
  BY ScoreParts, TallyStep
<1>3. /\ Untouched(score).used = {}
      /\ \A i \in Slots(score) : Untouched(score).out[i] = NoWinner
      /\ \A side \in Side : Untouched(score).credited[side] = 0
  BY DEF Untouched, Slots
<1>4. "red" \in Side /\ "blue" \in Side
  BY DEF Side
<1>5. QED
  BY <1>1, <1>2, <1>3, <1>4, FS_EmptySet DEF KeepInv

LEMMA KeepInvStep ==
  ASSUME NEW recorded, NEW score, IsScore(score), NEW n \in Slots(score),
         NEW done \in Done(score), KeepInv(recorded, score, n - 1, done)
  PROVE  KeepInv(recorded, score, n, Keep(done, score, n, recorded[n]))
<1> DEFINE w == recorded[n]
           next == Keep(done, score, n, w)
           before(side) == Kept(recorded, score, n - 1, side)
           after(side) == Kept(recorded, score, n, side)
<1>1. n \in Nat \ {0} /\ n - 1 \in Nat
  BY ScoreParts DEF Slots
<1>2. ASSUME NEW side \in Side
      PROVE  /\ score[side] \in Nat /\ Tally(recorded, n - 1, side) \in Nat
             /\ IsFiniteSet(before(side)) /\ n \notin before(side)
             /\ done.credited[side] = Cardinality(before(side))
             /\ done.credited[side] \in Nat
             /\ done.credited[side] < score[side]
                  <=> Tally(recorded, n - 1, side) < score[side]
             /\ after(side) = IF w = side /\ done.credited[side] < score[side]
                              THEN before(side) \cup {n} ELSE before(side)
             /\ Tally(recorded, n, side) =
                  Tally(recorded, n - 1, side) + (IF w = side THEN 1 ELSE 0)
  <2>1. score[side] \in Nat
    BY ScoreParts
  <2>2. /\ Tally(recorded, n - 1, side) \in Nat
        /\ Tally(recorded, n, side) =
             Tally(recorded, n - 1, side) + (IF w = side THEN 1 ELSE 0)
    BY <1>1, TallyStep
  <2>3. IsFiniteSet(before(side)) /\ n \notin before(side)
    <3>1. IsFiniteSet(Kept(recorded, score, n - 1, side))
      BY <1>1, <2>1, KeptStep
    <3>2. n \notin 1..(n - 1)
      BY <1>1
    <3>3. n \notin Kept(recorded, score, n - 1, side)
      BY <3>2, KeptMeans
    <3>4. QED
      BY <3>1, <3>3
  <2>4. /\ done.credited[side] = Cardinality(before(side)) /\ done.credited[side] \in Nat
        /\ done.credited[side] <= score[side]
        /\ done.credited[side] <= Tally(recorded, n - 1, side)
        /\ \/ done.credited[side] = score[side]
           \/ done.credited[side] = Tally(recorded, n - 1, side)
    BY DEF KeepInv, Done
  <2>5. done.credited[side] < score[side] <=> Tally(recorded, n - 1, side) < score[side]
    BY <2>1, <2>2, <2>4
  <2>6. after(side) = IF w = side /\ done.credited[side] < score[side]
                      THEN before(side) \cup {n} ELSE before(side)
    <3>1. Kept(recorded, score, n, side) =
            IF recorded[n] = side /\ Tally(recorded, n - 1, side) < score[side]
            THEN Kept(recorded, score, n - 1, side) \cup {n}
            ELSE Kept(recorded, score, n - 1, side)
      BY <1>1, <2>1, KeptStep
    <3>2. QED
      BY <2>5, <3>1
  <2>7. QED
    BY <2>1, <2>2, <2>3, <2>4, <2>5, <2>6
<1>3. "red" \in Side /\ "blue" \in Side /\ "red" # "blue" /\ \A x \in Side : x = "red" \/ x = "blue"
  BY DEF Side
<1>4. /\ Accepts(done, score, w) =>
           /\ next.used = done.used \cup {n}
           /\ \A i \in Slots(score) : next.out[i] = IF i = n THEN w ELSE done.out[i]
           /\ \A side \in Side :
                next.credited[side] = done.credited[side] + (IF side = w THEN 1 ELSE 0)
      /\ ~Accepts(done, score, w) => next = done
  <2> HIDE DEF w
  <2>1. QED
    BY KeepParts
<1>5. CASE Accepts(done, score, w)
  <2>1. w \in Side /\ done.credited[w] < score[w]
    BY <1>5 DEF Accepts
  <2>2. /\ next.used = done.used \cup {n}
        /\ \A i \in Slots(score) : next.out[i] = IF i = n THEN w ELSE done.out[i]
        /\ \A side \in Side :
             next.credited[side] = done.credited[side] + (IF side = w THEN 1 ELSE 0)
    BY <1>4, <1>5
  <2> HIDE DEF next, w
  <2>3. next.used = after("red") \cup after("blue")
    <3> HIDE DEF before, after
    <3>1. done.used = before("red") \cup before("blue")
      BY DEF KeepInv, before
    <3>2. after(w) = before(w) \cup {n} /\ \A x \in Side : x # w => after(x) = before(x)
      BY <1>2, <2>1
    <3>3. w = "red" \/ w = "blue"
      BY <1>3, <2>1
    <3>4. QED
      BY <1>3, <2>2, <3>1, <3>2, <3>3
  <2>4. ASSUME NEW i \in Slots(score)
        PROVE  next.out[i] = IF i \in next.used THEN recorded[i] ELSE NoWinner
    <3>1. done.out \in [Slots(score) -> Winner \cup {NoWinner}]
      BY DEF Done
    <3>2. done.out[i] = IF i \in done.used THEN recorded[i] ELSE NoWinner
      BY DEF KeepInv
    <3>3. CASE i = n
      BY <2>2, <3>1, <3>3 DEF w
    <3>4. CASE i # n
      BY <2>2, <3>1, <3>2, <3>4
    <3>5. QED
      BY <3>3, <3>4
  <2>5. ASSUME NEW side \in Side
        PROVE  /\ next.credited[side] = Cardinality(after(side))
               /\ next.credited[side] <= score[side]
               /\ next.credited[side] <= Tally(recorded, n, side)
               /\ \/ next.credited[side] = score[side]
                  \/ next.credited[side] = Tally(recorded, n, side)
    <3> HIDE DEF before, after
    <3>1. done.credited \in [Side -> Nat]
      BY DEF Done
    <3>2. /\ done.credited[side] <= score[side]
          /\ done.credited[side] <= Tally(recorded, n - 1, side)
          /\ \/ done.credited[side] = score[side]
             \/ done.credited[side] = Tally(recorded, n - 1, side)
      BY DEF KeepInv
    <3>3. CASE side = w
      <4>1. after(side) = before(side) \cup {n}
        BY <1>2, <2>1, <3>3
      <4>2. Cardinality(after(side)) = Cardinality(before(side)) + 1
        <5>1. IsFiniteSet(before(side)) /\ n \notin before(side)
          BY <1>2
        <5>2. Cardinality(before(side) \cup {n}) = Cardinality(before(side)) + 1
          BY <5>1, FS_AddElement
        <5>3. QED
          BY <4>1, <5>2
      <4>3. next.credited[side] = done.credited[side] + 1
        BY <2>2, <3>1, <3>3
      <4>4. Tally(recorded, n, side) = Tally(recorded, n - 1, side) + 1
        BY <1>2, <3>3
      <4>5. done.credited[side] = Cardinality(before(side)) /\ score[side] \in Nat
            /\ Tally(recorded, n - 1, side) \in Nat
            /\ done.credited[side] \in Nat /\ done.credited[side] < score[side]
        BY <1>2, <2>1, <3>3
      <4>6. QED
        BY <3>2, <4>2, <4>3, <4>4, <4>5
    <3>4. CASE side # w
      <4>1. after(side) = before(side)
        BY <1>2, <3>4
      <4>2. next.credited[side] = done.credited[side]
        BY <2>2, <3>1, <3>4
      <4>3. Tally(recorded, n, side) = Tally(recorded, n - 1, side)
        BY <1>2, <3>4
      <4>4. done.credited[side] = Cardinality(before(side))
        BY <1>2
      <4>5. QED
        BY <3>2, <4>1, <4>2, <4>3, <4>4
    <3>5. QED
      BY <3>3, <3>4
  <2>6. QED
    BY <2>3, <2>4, <2>5 DEF KeepInv, next, w
<1>6. CASE ~Accepts(done, score, w)
  <2>1. next = done
    BY <1>4, <1>6
  <2>2. w \in Side => ~(done.credited[w] < score[w])
    BY <1>6 DEF Accepts
  <2> HIDE DEF next
  <2>3. ASSUME NEW side \in Side PROVE after(side) = before(side)
    <3> HIDE DEF after, before, w
    <3>1. QED
      BY <1>2, <2>2
  <2>4. ASSUME NEW side \in Side
        PROVE  /\ next.credited[side] = Cardinality(after(side))
               /\ next.credited[side] <= score[side]
               /\ next.credited[side] <= Tally(recorded, n, side)
               /\ \/ next.credited[side] = score[side]
                  \/ next.credited[side] = Tally(recorded, n, side)
    <3> HIDE DEF after, before
    <3>1. /\ done.credited[side] <= score[side]
          /\ done.credited[side] <= Tally(recorded, n - 1, side)
          /\ \/ done.credited[side] = score[side]
             \/ done.credited[side] = Tally(recorded, n - 1, side)
      BY DEF KeepInv
    <3>2. /\ done.credited[side] = Cardinality(before(side)) /\ after(side) = before(side)
          /\ score[side] \in Nat /\ Tally(recorded, n - 1, side) \in Nat
          /\ done.credited[side] \in Nat
      BY <1>2, <2>3
    <3>3. CASE w = side
      <4>1. Tally(recorded, n, side) = Tally(recorded, n - 1, side) + 1
        BY <1>2, <3>3
      <4>2. ~(done.credited[side] < score[side])
        BY <2>2, <3>3
      <4>3. QED
        BY <2>1, <3>1, <3>2, <4>1, <4>2
    <3>4. CASE w # side
      <4>1. Tally(recorded, n, side) = Tally(recorded, n - 1, side)
        BY <1>2, <3>4
      <4>2. QED
        BY <2>1, <3>1, <3>2, <4>1
    <3>5. QED
      BY <3>3, <3>4
  <2>5. QED
    BY <1>3, <2>1, <2>3, <2>4 DEF KeepInv, next, w
<1>7. QED
  BY <1>5, <1>6

-----------------------------------------------------------------------------
(* The second loop fills the other slots as AuthoritativeWinners does      *)

FreeSlots(recorded, score) ==
  Slots(score) \ (Kept(recorded, score, Total(score), "red")
                    \cup Kept(recorded, score, Total(score), "blue"))

\* The wins of a side that no recorded round accounts for.
LeftOver(recorded, score, side) ==
  score[side] - Cardinality(Kept(recorded, score, Total(score), side))

\* How many free slots there are from slot i on.
FromTop(recorded, score, i) == Cardinality({j \in FreeSlots(recorded, score) : j >= i})

Filling(recorded, score, i) ==
  IF FromTop(recorded, score, i) <= LeftOver(recorded, score, "blue") THEN "blue"
  ELSE IF FromTop(recorded, score, i) <= LeftOver(recorded, score, "blue")
                                          + LeftOver(recorded, score, "red") THEN "red"
  ELSE "draw"

LEMMA ClosedForm ==
  ASSUME NEW recorded, NEW score, IsScore(score), DOMAIN recorded = Slots(score)
  PROVE  AuthoritativeWinners(recorded, score) =
           [i \in Slots(score) |-> IF i \in FreeSlots(recorded, score)
                                   THEN Filling(recorded, score, i) ELSE recorded[i]]
<1> DEFINE slots == 1..Total(score)
           known == slots \cap DOMAIN recorded
           keptRed == {i \in known : Keeps(recorded, i, "red", score.red)}
           keptBlue == {i \in known : Keeps(recorded, i, "blue", score.blue)}
           free == slots \ (keptRed \cup keptBlue)
           fromTop(i) == Cardinality({j \in free : j >= i})
           blueLeft == score.blue - Cardinality(keptBlue)
           redLeft == score.red - Cardinality(keptRed)
           entry(i) == CASE i \in keptRed                                  -> "red"
                         [] i \in keptBlue                                 -> "blue"
                         [] i \in free /\ fromTop(i) <= blueLeft           -> "blue"
                         [] i \in free /\ fromTop(i) > blueLeft
                                       /\ fromTop(i) <= blueLeft + redLeft -> "red"
                         [] OTHER                                          -> "draw"
<1>1. AuthoritativeWinners(recorded, score) = [i \in slots |-> entry(i)]
  BY DEF AuthoritativeWinners
<1>2. slots = Slots(score) /\ score.red = score["red"] /\ score.blue = score["blue"]
  BY DEF Slots
<1>3. /\ keptRed = Kept(recorded, score, Total(score), "red")
      /\ keptBlue = Kept(recorded, score, Total(score), "blue")
  BY <1>2 DEF Kept, Slots
<1>4. /\ free = FreeSlots(recorded, score)
      /\ blueLeft = LeftOver(recorded, score, "blue")
      /\ redLeft = LeftOver(recorded, score, "red")
  <2> HIDE DEF keptRed, keptBlue
  <2>1. QED
    BY <1>2, <1>3 DEF FreeSlots, LeftOver
<1>5. ASSUME NEW i \in Slots(score) PROVE fromTop(i) = FromTop(recorded, score, i)
  <2> HIDE DEF free
  <2>1. QED
    BY <1>4 DEF FromTop
<1>6. ASSUME NEW i \in Slots(score)
      PROVE  /\ i \in keptRed => recorded[i] = "red" /\ i \notin keptBlue
             /\ i \in keptBlue => recorded[i] = "blue" /\ i \notin keptRed
             /\ i \in free <=> i \notin keptRed /\ i \notin keptBlue
             /\ FromTop(recorded, score, i) \in Nat
             /\ blueLeft \in Int /\ redLeft \in Int
  <2>1. IsFiniteSet(Slots(score))
    BY SlotsFinite
  <2>2. {j \in FreeSlots(recorded, score) : j >= i} \in SUBSET Slots(score)
    BY DEF FreeSlots
  <2>3. FromTop(recorded, score, i) \in Nat
    BY <2>1, <2>2, FS_Subset, FS_CardinalityType DEF FromTop
  <2>4. /\ i \in keptRed => recorded[i] = "red"
        /\ i \in keptBlue => recorded[i] = "blue"
    BY DEF Keeps
  <2>5. blueLeft \in Int /\ redLeft \in Int
    <3>1. /\ Cardinality(Kept(recorded, score, Total(score), "red")) \in Nat
          /\ Cardinality(Kept(recorded, score, Total(score), "blue")) \in Nat
          /\ score["red"] \in Nat /\ score["blue"] \in Nat
      BY ScoreParts, KeptStep DEF Side
    <3> HIDE DEF keptRed, keptBlue
    <3>2. QED
      BY <1>2, <1>3, <3>1
  <2>6. i \in free <=> i \notin keptRed /\ i \notin keptBlue
    BY <1>2
  <2> HIDE DEF keptRed, keptBlue, free, blueLeft, redLeft
  <2>7. QED
    BY <2>3, <2>4, <2>5, <2>6
<1>7. ASSUME NEW i \in Slots(score)
      PROVE  entry(i) = IF i \in FreeSlots(recorded, score)
                        THEN Filling(recorded, score, i) ELSE recorded[i]
  <2> HIDE DEF keptRed, keptBlue, free, blueLeft, redLeft, fromTop
  <2>1. entry(i) = IF i \in keptRed THEN "red"
                   ELSE IF i \in keptBlue THEN "blue"
                   ELSE IF FromTop(recorded, score, i) <= blueLeft THEN "blue"
                   ELSE IF FromTop(recorded, score, i) <= blueLeft + redLeft THEN "red"
                   ELSE "draw"
    BY <1>5, <1>6
  <2> HIDE DEF entry
  <2>2. QED
    BY <1>4, <1>6, <2>1 DEF Filling
<1> HIDE DEF entry
<1>8. QED
  BY <1>1, <1>2, <1>7

-----------------------------------------------------------------------------
(* What the second loop starts from                                        *)

LEMMA KeepEnds ==
  ASSUME NEW recorded, NEW score, IsScore(score)
  PROVE  KeepInv(recorded, score, Total(score), KeptRounds(recorded, score)[Total(score)])
<1> DEFINE N == Total(score)
           g == KeptRounds(recorded, score)
           T == {n \in 0..N : KeepInv(recorded, score, n, g[n])}
<1>1. N \in Nat
  BY ScoreParts
<1>2. /\ g \in [0..N -> Done(score)]
      /\ g[0] = Untouched(score)
      /\ \A n \in 1..N : g[n] = Keep(g[n - 1], score, n, recorded[n])
  BY KeepLoop
<1>3. 0 \in T
  BY <1>1, <1>2, KeepInvStart
<1>4. ASSUME NEW n \in 1..N, n - 1 \in T PROVE n \in T
  <2>1. n \in Slots(score) /\ n \in 0..N /\ n - 1 \in 0..N
    BY <1>1 DEF Slots
  <2> HIDE DEF g, N
  <2>2. g[n - 1] \in Done(score) /\ KeepInv(recorded, score, n - 1, g[n - 1])
    BY <1>2, <1>4, <2>1
  <2>3. KeepInv(recorded, score, n, Keep(g[n - 1], score, n, recorded[n]))
    BY <2>1, <2>2, KeepInvStep
  <2>4. QED
    BY <1>2, <2>1, <2>3
<1> HIDE DEF T, N
<1>5. 0..N \subseteq T
  BY <1>1, <1>3, <1>4, SetInduction
<1>6. N \in T
  BY <1>1, <1>5
<1>7. QED
  BY <1>6 DEF T, N

\* The kept rounds are those of the two sides, and each side has wins left over.
LEMMA LeftOvers ==
  ASSUME NEW recorded, NEW score, IsScore(score), NEW side \in Side
  PROVE  /\ LeftOver(recorded, score, side) \in Nat
         /\ Cardinality(Kept(recorded, score, Total(score), side)) \in Nat
         /\ score[side] = LeftOver(recorded, score, side)
                            + Cardinality(Kept(recorded, score, Total(score), side))
<1> DEFINE kept == Cardinality(Kept(recorded, score, Total(score), side))
           done == KeptRounds(recorded, score)[Total(score)]
<1>1. score[side] \in Nat /\ kept \in Nat
  BY ScoreParts, KeptStep
<1>2. done.credited[side] = kept /\ done.credited[side] <= score[side]
  BY KeepEnds DEF KeepInv
<1> HIDE DEF kept, done
<1>3. kept <= score[side]
  BY <1>2
<1>4. QED
  BY <1>1, <1>3 DEF LeftOver, kept

LEMMA FromTopStep ==
  ASSUME NEW recorded, NEW score, IsScore(score)
  PROVE  /\ \A i : FromTop(recorded, score, i) \in Nat
         /\ FromTop(recorded, score, Total(score) + 1) = 0
         /\ FromTop(recorded, score, 1) = Cardinality(FreeSlots(recorded, score))
         /\ \A i \in Slots(score) :
              FromTop(recorded, score, i) =
                FromTop(recorded, score, i + 1)
                  + (IF i \in FreeSlots(recorded, score) THEN 1 ELSE 0)
<1> DEFINE free == FreeSlots(recorded, score)
           above(i) == {j \in free : j >= i}
<1>1. Total(score) \in Nat
  BY ScoreParts
<1>2. free \subseteq Slots(score) /\ IsFiniteSet(Slots(score))
  BY SlotsFinite DEF FreeSlots
<1> HIDE DEF free
<1>3. ASSUME NEW i PROVE IsFiniteSet(above(i)) /\ Cardinality(above(i)) \in Nat
  <2>1. above(i) \in SUBSET Slots(score)
    BY <1>2
  <2>2. QED
    BY <1>2, <2>1, FS_Subset, FS_CardinalityType
<1>0. \A j \in free : j \in Int /\ j >= 1 /\ ~(j >= Total(score) + 1)
  BY <1>1, <1>2 DEF Slots
<1>4. above(Total(score) + 1) = {}
  BY <1>0
<1>5. above(1) = free
  BY <1>0
<1>6. ASSUME NEW i \in Slots(score)
      PROVE  Cardinality(above(i)) =
               Cardinality(above(i + 1)) + (IF i \in free THEN 1 ELSE 0)
  <2>1. i \in Int /\ \A j \in free : j \in Int
    BY <1>1, <1>2 DEF Slots
  <2>2. i \notin above(i + 1)
    BY <2>1
  <2>3. CASE i \in free
    <3>0. \A j \in free : j >= i <=> j = i \/ j >= i + 1
      BY <2>1
    <3>1. above(i) = above(i + 1) \cup {i}
      BY <2>1, <2>3, <3>0
    <3> HIDE DEF above
    <3>2. QED
      BY <1>3, <2>2, <2>3, <3>1, FS_AddElement
  <2>4. CASE i \notin free
    <3>1. above(i) = above(i + 1)
      BY <2>1, <2>4
    <3>2. Cardinality(above(i + 1)) \in Nat
      BY <1>3
    <3> HIDE DEF above
    <3>3. QED
      BY <2>4, <3>1, <3>2
  <2>5. QED
    BY <2>3, <2>4
<1>7. \A i : FromTop(recorded, score, i) = Cardinality(above(i))
  BY DEF FromTop, free
<1> HIDE DEF above
<1>8. QED
  BY <1>3, <1>4, <1>5, <1>6, <1>7, FS_EmptySet DEF free

\* There are as many free slots as wins left over, so that no slot is a draw.
LEMMA FreeFitsLeftOver ==
  ASSUME NEW recorded, NEW score, IsScore(score)
  PROVE  Cardinality(FreeSlots(recorded, score)) =
           LeftOver(recorded, score, "blue") + LeftOver(recorded, score, "red")
<1> DEFINE red == Kept(recorded, score, Total(score), "red")
           blue == Kept(recorded, score, Total(score), "blue")
           kept == red \cup blue
           slots == Slots(score)
<1>1. Total(score) \in Nat /\ Total(score) = score["red"] + score["blue"]
  BY ScoreParts
<1>2. "red" \in Side /\ "blue" \in Side /\ score["red"] \in Nat /\ score["blue"] \in Nat
  BY ScoreParts DEF Side
<1>3. IsFiniteSet(red) /\ IsFiniteSet(blue)
  BY <1>1, <1>2, KeptStep
<1>4. red \cap blue = {} /\ kept \subseteq slots
  <2>1. \A i : /\ i \in red => recorded[i] = "red" /\ i \in slots
               /\ i \in blue => recorded[i] = "blue" /\ i \in slots
    BY KeptMeans DEF Slots
  <2>2. QED
    BY <2>1
<1>5. IsFiniteSet(slots) /\ Cardinality(slots) = Total(score)
  BY SlotsFinite
<1> HIDE DEF red, blue, slots
<1>6. IsFiniteSet(kept) /\ Cardinality(kept) = Cardinality(red) + Cardinality(blue)
  <2>1. IsFiniteSet(kept) /\ Cardinality(kept) =
          Cardinality(red) + Cardinality(blue) - Cardinality(red \cap blue)
    BY <1>3, FS_Union
  <2>2. Cardinality(red \cap blue) = 0
    BY <1>4, FS_EmptySet
  <2>3. Cardinality(red) \in Nat /\ Cardinality(blue) \in Nat
    BY <1>3, FS_CardinalityType
  <2> HIDE DEF kept
  <2>4. QED
    BY <2>1, <2>2, <2>3
<1>7. Cardinality(slots \ kept) = Total(score) - Cardinality(kept)
  <2>1. slots \cap kept = kept
    BY <1>4
  <2> HIDE DEF kept
  <2>2. Cardinality(slots \ kept) = Cardinality(slots) - Cardinality(slots \cap kept)
    BY <1>5, FS_Difference
  <2>3. QED
    BY <1>5, <2>1, <2>2
<1>8. FreeSlots(recorded, score) = slots \ kept
  BY DEF FreeSlots, slots, red, blue
<1>9. /\ score["red"] = LeftOver(recorded, score, "red") + Cardinality(red)
      /\ score["blue"] = LeftOver(recorded, score, "blue") + Cardinality(blue)
      /\ LeftOver(recorded, score, "red") \in Nat /\ LeftOver(recorded, score, "blue") \in Nat
      /\ Cardinality(red) \in Nat /\ Cardinality(blue) \in Nat
  BY <1>2, LeftOvers DEF red, blue
<1> HIDE DEF kept
<1>10. QED
  BY <1>1, <1>6, <1>7, <1>8, <1>9

-----------------------------------------------------------------------------
(* The second loop                                                         *)

\* The slots from top on are settled, and each side is credited with its wins.
FillInv(recorded, score, top, done) ==
  /\ done.used = Slots(score) \ FreeSlots(recorded, score)
  /\ \A i \in Slots(score) :
       done.out[i] = IF i \notin FreeSlots(recorded, score) THEN recorded[i]
                     ELSE IF i >= top THEN Filling(recorded, score, i) ELSE NoWinner
  /\ done.credited["blue"] =
       score["blue"] - LeftOver(recorded, score, "blue")
         + AtMost(FromTop(recorded, score, top), LeftOver(recorded, score, "blue"))
  /\ done.credited["red"] =
       score["red"] - LeftOver(recorded, score, "red")
         + AtMost(NonNegative(FromTop(recorded, score, top)
                                - LeftOver(recorded, score, "blue")),
                  LeftOver(recorded, score, "red"))
  /\ \A side \in Side :
       Cardinality({i \in Slots(score) : done.out[i] = side}) = done.credited[side]

LEMMA FillInvStart ==
  ASSUME NEW recorded, NEW score, IsScore(score),
         NEW done \in Done(score), KeepInv(recorded, score, Total(score), done)
  PROVE  FillInv(recorded, score, Total(score) + 1, done)
<1> DEFINE kept(side) == Kept(recorded, score, Total(score), side)
<1>1. Total(score) \in Nat /\ \A i \in Slots(score) : ~(i >= Total(score) + 1)
  BY ScoreParts DEF Slots
<1>2. "red" \in Side /\ "blue" \in Side /\ \A s \in Side : s = "red" \/ s = "blue"
  BY DEF Side
<1>3. /\ done.used = kept("red") \cup kept("blue")
      /\ \A i \in Slots(score) :
           done.out[i] = IF i \in done.used THEN recorded[i] ELSE NoWinner
      /\ \A side \in Side : done.credited[side] = Cardinality(kept(side))
  BY DEF KeepInv
<1>4. \A side \in Side : \A i : i \in kept(side) <=>
        i \in Slots(score) /\ recorded[i] = side /\ Tally(recorded, i, side) <= score[side]
  BY KeptMeans DEF Slots
<1>5. done.used = Slots(score) \ FreeSlots(recorded, score)
  <2>1. FreeSlots(recorded, score) = Slots(score) \ (kept("red") \cup kept("blue"))
    BY DEF FreeSlots
  <2>2. kept("red") \subseteq Slots(score) /\ kept("blue") \subseteq Slots(score)
    BY <1>2, <1>4
  <2> HIDE DEF kept
  <2>3. QED
    BY <1>3, <2>1, <2>2
<1>6. ASSUME NEW i \in Slots(score)
      PROVE  done.out[i] = IF i \notin FreeSlots(recorded, score) THEN recorded[i]
                           ELSE IF i >= Total(score) + 1
                           THEN Filling(recorded, score, i) ELSE NoWinner
  BY <1>1, <1>3, <1>5
<1>7. /\ FromTop(recorded, score, Total(score) + 1) = 0
      /\ \A side \in Side : /\ LeftOver(recorded, score, side) \in Nat
                            /\ Cardinality(kept(side)) \in Nat
                            /\ score[side] = LeftOver(recorded, score, side)
                                               + Cardinality(kept(side))
  BY FromTopStep, LeftOvers
<1>8. ASSUME NEW side \in Side
      PROVE  {i \in Slots(score) : done.out[i] = side} = kept(side)
  <2>1. side # NoWinner
    BY DEF Side, NoWinner
  <2>2. \A i \in Slots(score) : i \in done.used <=> i \in kept("red") \/ i \in kept("blue")
    BY <1>3
  <2>3. ASSUME NEW i \in Slots(score)
        PROVE  done.out[i] = side <=> i \in kept(side)
    <3>1. done.out[i] = IF i \in done.used THEN recorded[i] ELSE NoWinner
      BY <1>3
    <3>2. /\ i \in kept("red") => recorded[i] = "red"
          /\ i \in kept("blue") => recorded[i] = "blue"
          /\ i \in kept(side) => recorded[i] = side
      BY <1>2, <1>4
    <3> HIDE DEF kept
    <3>3. QED
      BY <1>2, <2>1, <2>2, <3>1, <3>2
  <2>4. kept(side) \subseteq Slots(score)
    BY <1>4
  <2> HIDE DEF kept
  <2>5. QED
    BY <2>3, <2>4
<1> HIDE DEF kept
<1>9. \A side \in Side :
        Cardinality({i \in Slots(score) : done.out[i] = side}) = done.credited[side]
  BY <1>3, <1>8
<1>10. /\ done.credited["blue"] =
            score["blue"] - LeftOver(recorded, score, "blue")
              + AtMost(0, LeftOver(recorded, score, "blue"))
       /\ done.credited["red"] =
            score["red"] - LeftOver(recorded, score, "red")
              + AtMost(NonNegative(0 - LeftOver(recorded, score, "blue")),
                       LeftOver(recorded, score, "red"))
  BY <1>2, <1>3, <1>7 DEF AtMost, NonNegative
<1>11. QED
  BY <1>5, <1>6, <1>7, <1>9, <1>10 DEF FillInv

\* The credit of the sides when the slots from top on have been filled, and the
\* side that the next free slot below goes to.
LEMMA FillCredit ==
  ASSUME NEW f \in Nat, NEW blueLeft \in Nat, NEW redLeft \in Nat,
         f < blueLeft + redLeft
  PROVE  /\ AtMost(f, blueLeft) < blueLeft <=> f + 1 <= blueLeft
         /\ f + 1 <= blueLeft =>
              /\ AtMost(f + 1, blueLeft) = AtMost(f, blueLeft) + 1
              /\ AtMost(NonNegative(f + 1 - blueLeft), redLeft)
                   = AtMost(NonNegative(f - blueLeft), redLeft)
         /\ ~(f + 1 <= blueLeft) =>
              /\ AtMost(f + 1, blueLeft) = AtMost(f, blueLeft)
              /\ AtMost(NonNegative(f - blueLeft), redLeft) < redLeft
              /\ AtMost(NonNegative(f + 1 - blueLeft), redLeft)
                   = AtMost(NonNegative(f - blueLeft), redLeft) + 1
  BY DEF AtMost, NonNegative

LEMMA FillInvStep ==
  ASSUME NEW recorded, NEW score, IsScore(score), NEW n \in Slots(score),
         NEW done \in Done(score), FillInv(recorded, score, n + 1, done)
  PROVE  FillInv(recorded, score, n, Fill(done, score, n))
<1> DEFINE next == Fill(done, score, n)
           free == FreeSlots(recorded, score)
           blueLeft == LeftOver(recorded, score, "blue")
           redLeft == LeftOver(recorded, score, "red")
           f == FromTop(recorded, score, n + 1)
           g == FromTop(recorded, score, n)
<1>1. /\ Total(score) \in Nat /\ score["red"] \in Nat /\ score["blue"] \in Nat
      /\ n \in Nat /\ n + 1 \in Nat
      /\ \A i \in Slots(score) : i \in Nat /\ (i >= n <=> i = n \/ i >= n + 1)
  BY ScoreParts DEF Slots, Side
<1>2. "red" \in Side /\ "blue" \in Side /\ "draw" \notin Side
      /\ \A s \in Side : s = "red" \/ s = "blue"
  BY DEF Side
<1>3. blueLeft \in Nat /\ redLeft \in Nat
  BY <1>2, LeftOvers
<1>4. /\ f \in Nat /\ g \in Nat /\ g = f + (IF n \in free THEN 1 ELSE 0)
  BY FromTopStep
<1>5. /\ done.used = Slots(score) \ free
      /\ \A i \in Slots(score) :
           done.out[i] = IF i \notin free THEN recorded[i]
                         ELSE IF i >= n + 1 THEN Filling(recorded, score, i) ELSE NoWinner
      /\ done.credited["blue"] = score["blue"] - blueLeft + AtMost(f, blueLeft)
      /\ done.credited["red"] =
           score["red"] - redLeft + AtMost(NonNegative(f - blueLeft), redLeft)
      /\ \A side \in Side :
           Cardinality({i \in Slots(score) : done.out[i] = side}) = done.credited[side]
  BY DEF FillInv
<1>6. Filling(recorded, score, n) =
        IF g <= blueLeft THEN "blue" ELSE IF g <= blueLeft + redLeft THEN "red" ELSE "draw"
  BY DEF Filling
<1>7. g <= blueLeft + redLeft
  <2>1. {j \in free : j >= n} \in SUBSET free
    OBVIOUS
  <2>2. IsFiniteSet(free)
    <3>1. free \in SUBSET Slots(score) /\ IsFiniteSet(Slots(score))
      BY SlotsFinite DEF FreeSlots
    <3>2. QED
      BY <3>1, FS_Subset
  <2>3. Cardinality({j \in free : j >= n}) <= Cardinality(free)
    BY <2>1, <2>2, FS_Subset
  <2>4. Cardinality(free) = blueLeft + redLeft
    BY FreeFitsLeftOver
  <2>5. g = Cardinality({j \in free : j >= n})
    BY DEF FromTop
  <2> HIDE DEF g, free, blueLeft, redLeft
  <2>6. QED
    BY <2>3, <2>4, <2>5
<1>8. CASE n \notin free
  <2>1. next = done
    BY <1>5, <1>8, FillParts
  <2>2. g = f
    BY <1>4, <1>8
  <2>3. ASSUME NEW i \in Slots(score)
        PROVE  done.out[i] = IF i \notin free THEN recorded[i]
                             ELSE IF i >= n THEN Filling(recorded, score, i) ELSE NoWinner
    BY <1>1, <1>5, <1>8
  <2> HIDE DEF next, f, g, free, blueLeft, redLeft
  <2>4. FillInv(recorded, score, n, done)
    BY <1>5, <2>2, <2>3 DEF FillInv, f, g, free, blueLeft, redLeft
  <2>5. QED
    BY <2>1, <2>4 DEF next
<1>9. CASE n \in free
  <2> DEFINE w == IF f + 1 <= blueLeft THEN "blue" ELSE "red"
             won(side) == {i \in Slots(score) : done.out[i] = side}
  <2>1. g = f + 1 /\ f < blueLeft + redLeft
    <3> HIDE DEF f, g, free, blueLeft, redLeft
    <3>1. QED
      BY <1>3, <1>4, <1>7, <1>9
  <2>2. n \notin done.used
    BY <1>5, <1>9
  <2>3. w \in Side /\ Filling(recorded, score, n) = w
    <3> HIDE DEF f, g, free, blueLeft, redLeft
    <3>1. QED
      BY <1>2, <1>6, <1>7, <2>1
  <2> HIDE DEF free, f, g, blueLeft, redLeft
  <2>4. /\ AtMost(f, blueLeft) < blueLeft <=> f + 1 <= blueLeft
        /\ f + 1 <= blueLeft =>
             /\ AtMost(f + 1, blueLeft) = AtMost(f, blueLeft) + 1
             /\ AtMost(NonNegative(f + 1 - blueLeft), redLeft)
                  = AtMost(NonNegative(f - blueLeft), redLeft)
        /\ ~(f + 1 <= blueLeft) =>
             /\ AtMost(f + 1, blueLeft) = AtMost(f, blueLeft)
             /\ AtMost(NonNegative(f - blueLeft), redLeft) < redLeft
             /\ AtMost(NonNegative(f + 1 - blueLeft), redLeft)
                  = AtMost(NonNegative(f - blueLeft), redLeft) + 1
    BY <1>3, <1>4, <2>1, FillCredit
  <2>5. /\ AtMost(f, blueLeft) \in Int
        /\ AtMost(NonNegative(f - blueLeft), redLeft) \in Int
    BY <1>3, <1>4 DEF AtMost, NonNegative
  <2>6. /\ done.credited["blue"] < score["blue"] <=> f + 1 <= blueLeft
        /\ ~(f + 1 <= blueLeft) => done.credited["red"] < score["red"]
    BY <1>1, <1>3, <1>5, <2>4, <2>5
  <2>7. Gives(done, next, score, n, w)
    BY <2>2, <2>6, FillParts
  <2>8. next \in Done(score)
    BY FillParts
  <2> HIDE DEF next, w
  <2>9. /\ next.used = done.used
        /\ \A i \in Slots(score) : next.out[i] = IF i = n THEN w ELSE done.out[i]
        /\ \A side \in Side :
             next.credited[side] = done.credited[side] + (IF side = w THEN 1 ELSE 0)
    BY <2>7 DEF Gives
  <2>10. ASSUME NEW i \in Slots(score)
         PROVE  next.out[i] = IF i \notin free THEN recorded[i]
                              ELSE IF i >= n THEN Filling(recorded, score, i) ELSE NoWinner
    <3>1. done.out[i] = IF i \notin free THEN recorded[i]
                        ELSE IF i >= n + 1 THEN Filling(recorded, score, i) ELSE NoWinner
      BY <1>5
    <3>2. next.out[i] = IF i = n THEN w ELSE done.out[i]
      BY <2>9
    <3>3. i >= n <=> i = n \/ i >= n + 1
      BY <1>1
    <3>4. QED
      BY <1>9, <2>3, <3>1, <3>2, <3>3
  <2>11. /\ next.credited["blue"] = score["blue"] - blueLeft + AtMost(g, blueLeft)
         /\ next.credited["red"] =
              score["red"] - redLeft + AtMost(NonNegative(g - blueLeft), redLeft)
    <3>1. /\ next.credited["blue"] =
               done.credited["blue"] + (IF f + 1 <= blueLeft THEN 1 ELSE 0)
          /\ next.credited["red"] =
               done.credited["red"] + (IF f + 1 <= blueLeft THEN 0 ELSE 1)
      BY <1>2, <2>9 DEF w
    <3>2. /\ AtMost(g, blueLeft) = AtMost(f + 1, blueLeft)
          /\ AtMost(NonNegative(g - blueLeft), redLeft)
               = AtMost(NonNegative(f + 1 - blueLeft), redLeft)
      BY <1>3, <1>4, <2>1
    <3>3. /\ done.credited["blue"] = score["blue"] - blueLeft + AtMost(f, blueLeft)
          /\ done.credited["red"] =
               score["red"] - redLeft + AtMost(NonNegative(f - blueLeft), redLeft)
      BY <1>5
    <3>4. CASE f + 1 <= blueLeft
      BY <1>1, <1>3, <2>4, <2>5, <3>1, <3>2, <3>3, <3>4
    <3>5. CASE ~(f + 1 <= blueLeft)
      BY <1>1, <1>3, <2>4, <2>5, <3>1, <3>2, <3>3, <3>5
    <3>6. QED
      BY <3>4, <3>5
  <2>12. ASSUME NEW side \in Side
         PROVE  Cardinality({i \in Slots(score) : next.out[i] = side}) = next.credited[side]
    <3>1. side # NoWinner /\ done.out[n] = NoWinner
      <4>1. ~(n >= n + 1)
        BY <1>1
      <4>2. QED
        BY <1>5, <1>9, <4>1 DEF Side, NoWinner
    <3>2. n \notin won(side)
      BY <3>1
    <3>3. IsFiniteSet(won(side)) /\ Cardinality(won(side)) = done.credited[side]
          /\ done.credited[side] \in Nat
      <4>0. won(side) \in SUBSET Slots(score) /\ Cardinality(won(side)) = done.credited[side]
        BY <1>5
      <4>1. IsFiniteSet(Slots(score))
        BY SlotsFinite
      <4> HIDE DEF won
      <4>2. IsFiniteSet(won(side))
        BY <4>0, <4>1, FS_Subset
      <4>3. done.credited[side] \in Nat
        BY DEF Done
      <4>4. QED
        BY <4>0, <4>2, <4>3
    <3>4. CASE side = w
      <4>1. {i \in Slots(score) : next.out[i] = side} = won(side) \cup {n}
        BY <2>9, <3>4
      <4> HIDE DEF won
      <4>2. Cardinality(won(side) \cup {n}) = done.credited[side] + 1
        BY <3>2, <3>3, FS_AddElement
      <4>3. QED
        BY <2>9, <3>4, <4>1, <4>2
    <3>5. CASE side # w
      <4>1. {i \in Slots(score) : next.out[i] = side} = won(side)
        BY <2>9, <3>1, <3>5
      <4>2. next.credited[side] = done.credited[side]
        BY <2>9, <3>3, <3>5
      <4> HIDE DEF won
      <4>3. QED
        BY <3>3, <4>1, <4>2
    <3>6. QED
      BY <3>4, <3>5
  <2>13. FillInv(recorded, score, n, next)
    BY <1>5, <2>9, <2>10, <2>11, <2>12 DEF FillInv, f, g, free, blueLeft, redLeft
  <2>14. QED
    BY <2>13 DEF next
<1>10. QED
  BY <1>8, <1>9

LEMMA FillEnds ==
  ASSUME NEW recorded, NEW score, IsScore(score)
  PROVE  /\ FilledSlots(recorded, score)[Total(score)] \in Done(score)
         /\ FillInv(recorded, score, 1, FilledSlots(recorded, score)[Total(score)])
<1> DEFINE N == Total(score)
           g == FilledSlots(recorded, score)
           T == {k \in 0..N : FillInv(recorded, score, N - k + 1, g[k])}
<1>1. N \in Nat
  BY ScoreParts
<1>2. /\ g \in [0..N -> Done(score)]
      /\ g[0] = KeptRounds(recorded, score)[N]
      /\ \A k \in 1..N : g[k] = Fill(g[k - 1], score, N - k + 1)
  BY FillLoop
<1>3. 0 \in T
  <2>1. g[0] \in Done(score)
    BY <1>1, <1>2
  <2>2. KeepInv(recorded, score, N, g[0])
    BY <1>2, KeepEnds
  <2>3. FillInv(recorded, score, N + 1, g[0])
    BY <2>1, <2>2, FillInvStart
  <2> HIDE DEF N, g
  <2>4. N - 0 + 1 = N + 1 /\ 0 \in 0..N
    BY <1>1
  <2>5. QED
    BY <2>3, <2>4
<1>4. ASSUME NEW k \in 1..N, k - 1 \in T PROVE k \in T
  <2>1. N - k + 1 \in Slots(score)
    BY <1>1 DEF Slots
  <2> HIDE DEF g, N
  <2>2. k \in 0..N /\ k - 1 \in 0..N /\ N - (k - 1) + 1 = (N - k + 1) + 1
    BY <1>1
  <2>3. g[k - 1] \in Done(score) /\ FillInv(recorded, score, (N - k + 1) + 1, g[k - 1])
    BY <1>2, <1>4, <2>2
  <2>4. FillInv(recorded, score, N - k + 1, Fill(g[k - 1], score, N - k + 1))
    BY <2>1, <2>3, FillInvStep
  <2>5. QED
    BY <1>2, <2>2, <2>4
<1> HIDE DEF T, N, g
<1>5. 0..N \subseteq T
  BY <1>1, <1>3, <1>4, SetInduction
<1>6. N \in T /\ N \in 0..N /\ N - N + 1 = 1
  BY <1>1, <1>5
<1>7. FillInv(recorded, score, 1, g[N]) /\ g[N] \in Done(score)
  BY <1>2, <1>6 DEF T
<1>8. QED
  BY <1>7 DEF N, g

\* For every table of recorded rounds and every score: the loops compute the
\* closed form, which splits the rounds as the score does and leaves a table alone
\* that does so already.
LEMMA LoopsFill ==
  ASSUME NEW recorded, NEW score, IsScore(score),
         recorded = [i \in Slots(score) |-> recorded[i]]
  PROVE  /\ LoopedWinners(recorded, score) = AuthoritativeWinners(recorded, score)
         /\ Splits(LoopedWinners(recorded, score), score)
         /\ Splits(recorded, score) => LoopedWinners(recorded, score) = recorded
<1> DEFINE done == FilledSlots(recorded, score)[Total(score)]
           free == FreeSlots(recorded, score)
           blueLeft == LeftOver(recorded, score, "blue")
           redLeft == LeftOver(recorded, score, "red")
<1>1. done \in Done(score) /\ FillInv(recorded, score, 1, done)
  BY FillEnds
<1>2. LoopedWinners(recorded, score) = done.out
  BY DEF LoopedWinners
<1> HIDE DEF done
<1>3. /\ Total(score) \in Nat /\ score["red"] \in Nat /\ score["blue"] \in Nat
      /\ \A i \in Slots(score) : i >= 1
      /\ "red" \in Side /\ "blue" \in Side /\ \A s \in Side : s = "red" \/ s = "blue"
  BY ScoreParts DEF Slots, Side
<1>4. done.out = [i \in Slots(score) |-> done.out[i]]
  BY <1>1 DEF Done
<1>5. \A i \in Slots(score) :
        done.out[i] = IF i \in free THEN Filling(recorded, score, i) ELSE recorded[i]
  BY <1>1, <1>3 DEF FillInv
<1>6. done.out = AuthoritativeWinners(recorded, score)
  <2> HIDE DEF free
  <2>1. DOMAIN recorded = Slots(score)
    OBVIOUS
  <2>2. AuthoritativeWinners(recorded, score) =
          [i \in Slots(score) |-> IF i \in free
                                  THEN Filling(recorded, score, i) ELSE recorded[i]]
    BY <2>1, ClosedForm DEF free
  <2>3. QED
    BY <1>4, <1>5, <2>2
<1>7. /\ blueLeft \in Nat /\ redLeft \in Nat /\ Cardinality(free) = blueLeft + redLeft
      /\ FromTop(recorded, score, 1) = Cardinality(free)
  BY <1>3, LeftOvers, FreeFitsLeftOver, FromTopStep
<1>8. Splits(done.out, score)
  <2>1. /\ done.credited["blue"] =
             score["blue"] - blueLeft + AtMost(Cardinality(free), blueLeft)
        /\ done.credited["red"] =
             score["red"] - redLeft + AtMost(NonNegative(Cardinality(free) - blueLeft), redLeft)
        /\ \A side \in Side :
             Cardinality({i \in Slots(score) : done.out[i] = side}) = done.credited[side]
    BY <1>1, <1>7 DEF FillInv
  <2>2. DOMAIN done.out = Slots(score)
    BY <1>4
  <2> HIDE DEF free, blueLeft, redLeft
  <2>3. /\ AtMost(Cardinality(free), blueLeft) = blueLeft
        /\ AtMost(NonNegative(Cardinality(free) - blueLeft), redLeft) = redLeft
    BY <1>7 DEF AtMost, NonNegative
  <2>4. done.credited["blue"] = score["blue"] /\ done.credited["red"] = score["red"]
    BY <1>3, <1>7, <2>1, <2>3
  <2>5. \A side \in Side :
          Cardinality({i \in Slots(score) : done.out[i] = side}) = score[side]
    BY <1>3, <2>1, <2>4
  <2>6. QED
    BY <2>2, <2>5 DEF Splits, WonBy
<1>9. ASSUME Splits(recorded, score) PROVE done.out = recorded
  <2>1. DOMAIN recorded = 1..Total(score)
    BY DEF Slots
  <2>2. \A side \in Side : Tally(recorded, Total(score), side) = score[side]
    BY <1>9, <2>1 DEF Splits, WonBy, Tally
  <2>3. ASSUME NEW side \in Side PROVE LeftOver(recorded, score, side) = 0
    <3>1. \A i \in 1..Total(score) : Tally(recorded, i, side) <= score[side]
      BY <1>3, <2>2, TallyGrows
    <3>2. \A i : i \in Kept(recorded, score, Total(score), side) <=>
                   i \in 1..Total(score) /\ recorded[i] = side
      BY <3>1, KeptMeans
    <3>3. Kept(recorded, score, Total(score), side) \subseteq 1..Total(score)
      BY DEF Kept
    <3>4. Kept(recorded, score, Total(score), side) =
            {i \in 1..Total(score) : recorded[i] = side}
      BY <3>2, <3>3
    <3>5. Cardinality(Kept(recorded, score, Total(score), side)) = score[side]
      BY <2>2, <3>4 DEF Tally
    <3>6. QED
      BY <1>3, <3>5 DEF LeftOver
  <2>4. Cardinality(free) = 0
    BY <1>3, <1>7, <2>3
  <2>5. free = {}
    <3>1. IsFiniteSet(Slots(score))
      BY SlotsFinite
    <3>2. free \in SUBSET Slots(score)
      BY DEF FreeSlots
    <3> HIDE DEF free
    <3>3. IsFiniteSet(free)
      BY <3>1, <3>2, FS_Subset
    <3>4. QED
      BY <2>4, <3>3, FS_EmptySet
  <2> HIDE DEF free
  <2>6. \A i \in Slots(score) : done.out[i] = recorded[i]
    BY <1>5, <2>5
  <2>7. QED
    BY <1>4, <2>6
<1>10. QED
  BY <1>2, <1>6, <1>8, <1>9

(***************************************************************************)
(* Whatever rows the scanner has recorded and whatever final score comes,  *)
(* the loops of authoritativeWinners compute AuthoritativeWinners, split   *)
(* the rounds as the score does and leave a finished table alone.          *)
(***************************************************************************)
THEOREM WinnersFillTheScore == HistorySpec => []FillsTheScore
<1>1. ASSUME NEW score \in [Side -> 0..GameLimit] PROVE IsScore(score)
  BY DEF IsScore, Side
<1>2. FillsTheScore
  <2> SUFFICES ASSUME NEW score \in [Side -> 0..GameLimit]
               PROVE  LET recorded == Recorded(Total(score))
                          table    == LoopedWinners(recorded, score)
                      IN  /\ table = AuthoritativeWinners(recorded, score)
                          /\ Splits(table, score)
                          /\ Splits(recorded, score) => table = recorded
    BY DEF FillsTheScore
  <2> DEFINE recorded == Recorded(Total(score))
  <2>1. recorded = [i \in Slots(score) |-> recorded[i]]
    BY DEF Recorded, Slots
  <2>2. IsScore(score)
    BY <1>1
  <2> HIDE DEF recorded
  <2>3. /\ LoopedWinners(recorded, score) = AuthoritativeWinners(recorded, score)
        /\ Splits(LoopedWinners(recorded, score), score)
        /\ Splits(recorded, score) => LoopedWinners(recorded, score) = recorded
    BY <2>1, <2>2, LoopsFill
  <2>4. QED
    BY <2>3 DEF recorded
<1>3. QED
  BY <1>2, PTL DEF HistorySpec

-----------------------------------------------------------------------------
(* The games that were played and the rows                                 *)

\* Another game changes no earlier count.
LEMMA TallyAppend ==
  ASSUME NEW p \in Seq(Side), NEW side \in Side
  PROVE  /\ \A n \in Nat : n <= Len(p) => \A s : Tally(Append(p, side), n, s) = Tally(p, n, s)
         /\ \A s : Tally(Append(p, side), Len(p) + 1, s)
                     = Tally(p, Len(p), s) + (IF s = side THEN 1 ELSE 0)
<1> DEFINE q == Append(p, side)
<1>1. /\ Len(p) \in Nat /\ q[Len(p) + 1] = side
      /\ \A j \in 1..Len(p) : q[j] = p[j]
  OBVIOUS
<1> HIDE DEF q
<1>2. ASSUME NEW n \in Nat, n <= Len(p), NEW s PROVE Tally(q, n, s) = Tally(p, n, s)
  <2>1. \A j \in 1..n : q[j] = p[j]
    BY <1>1, <1>2
  <2>2. {j \in 1..n : q[j] = s} = {j \in 1..n : p[j] = s}
    BY <2>1
  <2>3. QED
    BY <2>2 DEF Tally
<1>3. ASSUME NEW s
      PROVE  Tally(q, Len(p) + 1, s) = Tally(p, Len(p), s) + (IF s = side THEN 1 ELSE 0)
  <2> DEFINE m == Len(p) + 1
  <2>1. m \in Nat \ {0} /\ m - 1 = Len(p)
    BY <1>1
  <2> HIDE DEF m
  <2>2. Tally(q, m, s) = Tally(q, m - 1, s) + (IF q[m] = s THEN 1 ELSE 0)
    BY <2>1, TallyStep
  <2> USE DEF m
  <2>3. QED
    BY <1>1, <1>2, <2>2
<1>4. QED
  BY <1>2, <1>3 DEF q

\* While nothing is corrected, the entry that a scan works on counts the games too.
LEMMA HandIsTrue ==
  ASSUME IndInv, HistoryInv, spent.correction = 0, NEW c \in Controllers, pc[c] # "idle"
  PROVE  /\ Total(cur[c]) \in 0..Len(played)
         /\ cur[c].red = Tally(played, Total(cur[c]), "red")
         /\ cur[c].blue = Tally(played, Total(cur[c]), "blue")
<1>1. /\ feed["red"] = feed.red /\ feed["blue"] = feed.blue
      /\ snap["red"] = snap.red /\ snap["blue"] = snap.blue
      /\ "red" \in Side /\ "blue" \in Side
  BY DEF Side
<1>2. /\ Total(feed) = Len(played) /\ ScoreIsTrue(feed) /\ (snap.known => ScoreIsTrue(snap))
  BY DEF HistoryInv
<1>3. /\ Total(cur[c]) \in 0..GameLimit /\ Total(feed) \in 0..GameLimit /\ Total(snap) \in Int
  BY TotalsInRange
<1>4. CASE SnapshotOf(cur[c]) = SnapshotOf(feed) /\ Total(cur[c]) = Total(feed)
  <2>1. cur[c].red = feed.red /\ cur[c].blue = feed.blue
    BY <1>4, SameSnapshot
  <2>2. QED
    BY <1>1, <1>2, <1>3, <1>4, <2>1 DEF ScoreIsTrue
<1>5. CASE SnapshotOf(cur[c]) = snap /\ snap.known /\ Total(cur[c]) = Total(snap)
  <2>1. cur[c].red = snap.red /\ cur[c].blue = snap.blue
    BY <1>5, SnapshotParts
  <2>2. Total(snap) <= Total(feed)
    BY <1>3, <1>5 DEF IndInv, OrderInv, FeedFollows
  <2>3. QED
    BY <1>1, <1>2, <1>3, <1>5, <2>1, <2>2 DEF ScoreIsTrue
<1>6. QED
  BY <1>4, <1>5, OldOrNew

LEMMA InitHistory == HistoryInit => HistoryInv
<1> SUFFICES ASSUME HistoryInit PROVE HistoryInv
  OBVIOUS
<1>1. /\ feed = NoFeed /\ snap = NoSnap /\ played = <<>>
      /\ \A r \in RoundNos : rounds[r] = NoRound
      /\ \A c \in Controllers : pc[c] = "idle"
  BY DEF HistoryInit, Init
<1>2. Total(feed) = 0 /\ feed["red"] = 0 /\ feed["blue"] = 0
  BY <1>1 DEF NoFeed, Total
<1>3. ScoreIsTrue(feed)
  BY <1>2, TallyStep DEF ScoreIsTrue, Side
<1>4. ~snap.known
  BY <1>1 DEF NoSnap
<1>5. WinnersAreTrue
  BY <1>1 DEF WinnersAreTrue, RoundsIn, NoRound
<1>6. played \in Seq(Side) /\ Len(played) = 0
  BY <1>1
<1>7. QED
  BY <1>1, <1>2, <1>3, <1>4, <1>5, <1>6 DEF HistoryInv

\* A step of the schedule other than a game or a correction.
LEMMA SameScoreHistory ==
  ASSUME IndInv, HistoryInv, UNCHANGED <<dbVars, snap, ctlVars, spent, played>>,
         feed'.red = feed.red, feed'.blue = feed.blue
  PROVE  HistoryInv'
<1>1. Total(feed') = Total(feed) /\ feed'["red"] = feed["red"] /\ feed'["blue"] = feed["blue"]
  BY DEF Total
<1>2. UNCHANGED <<snap, pc, todo, rounds, spent, played>>
  BY DEF dbVars, ctlVars
<1>3. spent.correction = 0 => (ScoreIsTrue(feed) <=> ScoreIsTrue(feed)')
  BY <1>1, <1>2 DEF ScoreIsTrue, Side
<1>4. ScoreIsTrue(snap) <=> ScoreIsTrue(snap)'
  BY <1>2 DEF ScoreIsTrue
<1>5. WinnersAreTrue'
  BY <1>2 DEF HistoryInv, WinnersAreTrue, RoundsIn
<1>6. \A c \in Controllers : Pending(c)' = Pending(c)
  BY <1>2 DEF Pending
<1>7. QED
  BY <1>1, <1>2, <1>3, <1>4, <1>5, <1>6 DEF HistoryInv

LEMMA GameHistory ==
  ASSUME IndInv, HistoryInv, NEW side \in Side, PlayGame(side)
  PROVE  HistoryInv'
<1>1. /\ UNCHANGED <<snap, pc, todo, rounds, spent>> /\ played' = Append(played, side)
      /\ FeedGame(side)
  BY DEF PlayGame, FeedGame, dbVars, ctlVars
<1>2. /\ played \in Seq(Side) /\ Len(played) = Total(feed) /\ Len(played) \in Nat
  BY DEF HistoryInv
<1>3. /\ played' \in Seq(Side) /\ Len(played') = Len(played) + 1
      /\ DOMAIN played = 1..Len(played) /\ DOMAIN played' = 1..(Len(played) + 1)
      /\ \A r \in DOMAIN played : r \in DOMAIN played' /\ played'[r] = played[r]
  BY <1>1, <1>2
<1>4. Total(feed') = Total(feed) + 1
  BY <1>1, GameKeepsTotal DEF IndInv
<1>5. WinnersAreTrue'
  BY <1>1, <1>3 DEF HistoryInv, WinnersAreTrue, RoundsIn
<1>6. ASSUME spent.correction = 0 PROVE ScoreIsTrue(feed)'
  <2>1. \A s \in Side : feed'[s] = feed[s] + (IF s = side THEN 1 ELSE 0)
    <3>1. feed \in Feed
      BY DEF IndInv, TypeInv, TypeOK
    <3>2. \/ feed' = [feed EXCEPT ![side] = @ + 1]
          \/ feed' = [[feed EXCEPT ![side] = @ + 1] EXCEPT !.status = "DONE"]
      BY <1>1 DEF FeedGame
    <3>3. feed["red"] \in Int /\ feed["blue"] \in Int
      BY <3>1, FeedParts
    <3>4. CASE side = "red"
      <4>1. feed'["red"] = feed["red"] + 1 /\ feed'["blue"] = feed["blue"]
        BY <3>1, <3>2, <3>4 DEF Feed
      <4>2. QED
        BY <3>3, <3>4, <4>1 DEF Side
    <3>5. CASE side = "blue"
      <4>1. feed'["blue"] = feed["blue"] + 1 /\ feed'["red"] = feed["red"]
        BY <3>1, <3>2, <3>5 DEF Feed
      <4>2. QED
        BY <3>3, <3>5, <4>1 DEF Side
    <3>6. QED
      BY <3>4, <3>5 DEF Side
  <2>2. \A s \in Side : Tally(played, Total(feed), s) = feed[s]
    BY <1>6 DEF HistoryInv, ScoreIsTrue
  <2>3. \A s : Tally(played', Total(feed'), s)
                 = Tally(played, Total(feed), s) + (IF s = side THEN 1 ELSE 0)
    BY <1>1, <1>2, <1>4, TallyAppend
  <2>4. QED
    BY <2>1, <2>2, <2>3 DEF ScoreIsTrue
<1>7. ASSUME spent.correction = 0, snap.known PROVE ScoreIsTrue(snap)'
  <2>1. Total(snap) \in Nat /\ Total(snap) <= Len(played)
    <3>1. PICK c \in Controllers : TRUE
      OBVIOUS
    <3>2. Total(snap) \in 0..GameLimit /\ Total(feed) \in 0..GameLimit
      BY <1>7, <3>1, TotalsInRange
    <3>3. QED
      BY <1>2, <1>7, <3>2 DEF IndInv, OrderInv, FeedFollows
  <2>2. \A s : Tally(played', Total(snap), s) = Tally(played, Total(snap), s)
    BY <1>1, <1>2, <2>1, TallyAppend
  <2>3. QED
    BY <1>1, <1>7, <2>2 DEF HistoryInv, ScoreIsTrue
<1>8. ASSUME spent.correction = 0, NEW c \in Controllers, pc[c] \in {"queryRound", "endRound"},
             NEW r \in Pending(c)
      PROVE  r \in DOMAIN played' /\ todo[c][r] = played'[r]
  BY <1>3, <1>8 DEF HistoryInv
<1>9. \A c \in Controllers : Pending(c)' = Pending(c)
  BY <1>1 DEF Pending
<1>10. QED
  BY <1>1, <1>2, <1>3, <1>4, <1>5, <1>6, <1>7, <1>8, <1>9 DEF HistoryInv

LEMMA CorrectionHistory ==
  ASSUME IndInv, HistoryInv, NEW from \in Side, NEW to \in Side, FeedCorrection(from, to),
         UNCHANGED played
  PROVE  HistoryInv'
<1>1. Total(feed') = Total(feed)
  BY CorrectionKeepsTotal DEF IndInv
<1>2. spent'.correction # 0
  <2>1. spent \in [fault : 0..MaxFaults, loss : 0..MaxLosses, correction : 0..MaxCorrections]
    BY DEF IndInv, TypeInv, TypeOK
  <2>2. spent' = [spent EXCEPT !.correction = @ + 1]
    BY DEF FeedCorrection
  <2>3. QED
    BY <2>1, <2>2
<1>3. QED
  BY <1>1, <1>2 DEF HistoryInv, WinnersAreTrue

\* A step that writes neither rows nor snapshot: the rounds it leaves to be ended.
LEMMA LocalHistory ==
  ASSUME IndInv, HistoryInv, NEW c \in Controllers,
         UNCHANGED <<feed, rounds, snap, played>>,
         spent'.correction = spent.correction,
         spent.correction = 0 /\ pc'[c] \in {"queryRound", "endRound"} =>
           \A r \in Pending(c)' : r \in DOMAIN played /\ todo'[c][r] = played[r]
  PROVE  HistoryInv'
<1>1. \A d \in Controllers : d = c
  BY OnlyController DEF IndInv
<1>2. WinnersAreTrue'
  BY DEF HistoryInv, WinnersAreTrue, RoundsIn
<1>3. /\ ScoreIsTrue(feed) <=> ScoreIsTrue(feed)'
      /\ ScoreIsTrue(snap) <=> ScoreIsTrue(snap)'
  BY DEF ScoreIsTrue
<1>4. Total(feed') = Total(feed)
  BY DEF Total
<1>5. spent.correction = 0 => \A d \in Controllers :
        pc'[d] \in {"queryRound", "endRound"} =>
          \A r \in Pending(d)' : r \in DOMAIN played' /\ todo'[d][r] = played'[r]
  BY <1>1
<1>6. QED
  BY <1>2, <1>3, <1>4, <1>5 DEF HistoryInv

LEMMA QuietHistory ==
  ASSUME IndInv, HistoryInv, NEW c \in Controllers, UNCHANGED played,
         \/ FetchSchedule(c) \/ LoadSnapshot(c) \/ UpsertMatch(c)
         \/ EnsureMatchWorkflow(c) \/ RoundsEnded(c) \/ QueryStart(c)
         \/ ConvergeRounds(c) \/ ConvergeRow(c) \/ ConvergeSave(c) \/ Fail(c)
  PROVE  HistoryInv'
<1>1. pc \in [Controllers -> Pcs] /\ spent \in [fault : 0..MaxFaults, loss : 0..MaxLosses,
                                                correction : 0..MaxCorrections]
  BY DEF IndInv, TypeInv, TypeOK
<1>2. CASE FetchSchedule(c)
  BY <1>1, <1>2, LocalHistory DEF FetchSchedule, Goto, dbVars
<1>3. CASE LoadSnapshot(c)
  BY <1>1, <1>3, LocalHistory DEF LoadSnapshot, Goto, dbVars
<1>4. CASE UpsertMatch(c)
  <2>1. AfterUpsert(c) \in {"reconcile", "convergeRounds"}
    BY DEF AfterUpsert
  <2>2. QED
    BY <1>1, <1>4, <2>1, LocalHistory DEF UpsertMatch, Goto
<1>5. CASE EnsureMatchWorkflow(c)
  <2>1. AfterUpsert(c) \in {"reconcile", "convergeRounds"}
    BY DEF AfterUpsert
  <2>2. QED
    BY <1>1, <1>5, <2>1, LocalHistory DEF EnsureMatchWorkflow, Goto, dbVars
<1>6. CASE RoundsEnded(c)
  <2>1. AfterEnding(c) \in {"convergeRounds", "queryStart", "queryCompleted"}
    BY DEF AfterEnding
  <2>2. QED
    BY <1>1, <1>6, <2>1, LocalHistory DEF RoundsEnded, Goto, dbVars
<1>7. CASE QueryStart(c)
  BY <1>1, <1>7, LocalHistory DEF QueryStart, Goto, dbVars
<1>8. CASE ConvergeRounds(c)
  BY <1>1, <1>8, LocalHistory DEF ConvergeRounds, Goto, dbVars
<1>9. CASE ConvergeRow(c)
  BY <1>1, <1>9, LocalHistory DEF ConvergeRow, Goto, dbVars
<1>10. CASE ConvergeSave(c)
  BY <1>1, <1>10, LocalHistory DEF ConvergeSave, Goto
<1>11. CASE Fail(c)
  <2>1. spent'.correction = spent.correction
    BY <1>1, <1>11 DEF Fail
  <2>2. pc'[c] = "idle" /\ UNCHANGED <<feed, rounds, snap>>
    BY <1>1, <1>11 DEF Fail, Return, Goto, dbVars
  <2>3. QED
    BY <2>1, <2>2, LocalHistory
<1>12. QED
  BY <1>2, <1>3, <1>4, <1>5, <1>6, <1>7, <1>8, <1>9, <1>10, <1>11

LEMMA QueryRoundHistory ==
  ASSUME IndInv, HistoryInv, NEW c \in Controllers, QueryRound(c), UNCHANGED played
  PROVE  HistoryInv'
<1>1. pc[c] = "queryRound" /\ UNCHANGED <<feed, rounds, snap, todo, spent>>
  BY DEF QueryRound, At, dbVars
<1>2. Pending(c)' = Pending(c)
  BY <1>1 DEF Pending
<1>3. spent.correction = 0 => \A r \in Pending(c) : r \in DOMAIN played /\ todo[c][r] = played[r]
  BY <1>1 DEF HistoryInv
<1>4. QED
  BY <1>1, <1>2, <1>3, LocalHistory

\* One more game than the snapshot counts: the delta names the side that won it.
LEMMA DeltaIsTrue ==
  ASSUME NEW p, NEW f, NEW n \in Int, NEW w \in Side,
         p.red \in Int, p.blue \in Int,
         f.red = p.red + (IF w = "red" THEN 1 ELSE 0),
         1 \in DOMAIN WinnersFromDelta(p, f, n)
  PROVE  WinnersFromDelta(p, f, n)[1] = w
<1> DEFINE dr == NonNegative(f.red - p.red)
           db == NonNegative(f.blue - p.blue)
<1>1. WinnersFromDelta(p, f, n) =
        [i \in 1..AtMost(n, dr + db) |-> IF i <= dr THEN "red" ELSE "blue"]
  BY DEF WinnersFromDelta
<1>2. dr = IF w = "red" THEN 1 ELSE 0
  BY DEF NonNegative
<1> HIDE DEF dr, db
<1>3. WinnersFromDelta(p, f, n)[1] = IF 1 <= dr THEN "red" ELSE "blue"
  BY <1>1
<1>4. QED
  BY <1>2, <1>3 DEF Side

LEMMA ReconcileHistory ==
  ASSUME IndInv, HistoryInv, NEW c \in Controllers, ReconcileRounds(c), UNCHANGED played
  PROVE  HistoryInv'
<1> DEFINE count == ClampToPlan(Total(cur[c]), PlanGames) - Total(prev[c])
           delta == WinnersFromDelta(prev[c], cur[c], count)
<1>1. /\ pc[c] = "reconcile" /\ pc'[c] = "queryRound" /\ phase'[c] = "delta"
      /\ todo'[c] = IF prev[c].status = "STARTED"
                    THEN Worklist(Total(prev[c]) + 1, delta) ELSE NoTodo
      /\ UNCHANGED <<feed, rounds, snap, cur, prev, spent>>
  BY DEF ReconcileRounds, At, Goto, dbVars, IndInv, TypeInv, TypeOK
<1>2. /\ prev[c] = snap /\ snap.known
  BY <1>1 DEF IndInv, OrderInv, ScanFollows
<1>3. TodoFollows(c)'
  BY ReconcileOrder DEF OrderInv
<1>4. ASSUME spent.correction = 0, NEW r \in Pending(c)'
      PROVE  r \in DOMAIN played /\ todo'[c][r] = played[r]
  <2>1. r \in RoundNos /\ todo'[c][r] # NoWinner
    BY <1>4 DEF Pending
  <2>2. r = Total(snap) + 1 /\ r = Total(cur[c])
    BY <1>1, <1>2, <1>3, <1>4 DEF TodoFollows
  <2>3. /\ r \in 0..Len(played)
        /\ cur[c].red = Tally(played, r, "red")
    BY <1>1, <1>4, <2>2, HandIsTrue
  <2>4. r \in Nat \ {0} /\ Total(snap) = r - 1
    BY <1>2, <2>1, <2>2, TotalsInRange, GameLimitType DEF RoundNos
  <2>5. snap.red = Tally(played, r - 1, "red") /\ snap.red \in Int /\ snap.blue \in Int
    <3>1. "red" \in Side /\ snap["red"] = snap.red
      BY DEF Side
    <3>2. snap["red"] = Tally(played, Total(snap), "red")
      BY <1>2, <1>4, <3>1 DEF HistoryInv, ScoreIsTrue
    <3>3. snap \in Snapshot
      BY DEF IndInv, TypeInv, TypeOK
    <3>4. snap.red \in Int /\ snap.blue \in Int
      BY <3>3, GameLimitType DEF Snapshot
    <3>5. QED
      BY <2>4, <3>1, <3>2, <3>4
  <2>6. r \in DOMAIN played /\ played[r] \in Side
    BY <2>3, <2>4 DEF HistoryInv
  <2>7. cur[c].red = snap.red + (IF played[r] = "red" THEN 1 ELSE 0)
    <3>1. Tally(played, r, "red")
            = Tally(played, r - 1, "red") + (IF played[r] = "red" THEN 1 ELSE 0)
      BY <2>4, TallyStep
    <3>2. QED
      BY <2>3, <2>5, <3>1
  <2>8. todo'[c] = Worklist(Total(snap) + 1, delta)
    BY <1>1, <1>2, <2>1 DEF NoTodo
  <2>9. r - (Total(snap) + 1) + 1 = 1
    BY <2>4
  <2> HIDE DEF delta
  <2>10. 1 \in DOMAIN delta /\ todo'[c][r] = delta[1]
    BY <2>1, <2>8, <2>9 DEF Worklist
  <2>11. count \in Int
    BY <1>2, <2>2, <2>4, TotalsInRange DEF ClampToPlan, AtMost
  <2> HIDE DEF count
  <2>12. delta[1] = played[r]
    BY <1>2, <2>5, <2>6, <2>7, <2>10, <2>11, DeltaIsTrue DEF delta
  <2>13. QED
    BY <2>6, <2>10, <2>12
<1>5. QED
  BY <1>1, <1>4, LocalHistory

LEMMA CompletedHistory ==
  ASSUME IndInv, HistoryInv, NEW c \in Controllers, QueryCompleted(c), UNCHANGED played
  PROVE  HistoryInv'
<1> DEFINE expected == ClampToPlan(Total(cur[c]), PlanGames)
           recorded == [r \in 1..expected |-> rounds[r].winner]
           final    == AuthoritativeWinners(recorded, cur[c])
<1>1. /\ pc[c] = "queryCompleted"
      /\ todo'[c] = IF expected > 0 THEN Worklist(1, final) ELSE NoTodo
      /\ UNCHANGED <<feed, rounds, snap, spent>>
  BY DEF QueryCompleted, At, Goto, dbVars, IndInv, TypeInv, TypeOK
<1>2. /\ Closed(Total(cur[c])) /\ Total(cur[c]) \in 0..GameLimit
  BY <1>1, TotalsInRange DEF IndInv, OrderInv, StartFollows
<1>3. expected = Total(cur[c])
  BY <1>2, GameLimitType DEF ClampToPlan, AtMost, GameLimit
<1>4. recorded = [i \in Slots(cur[c]) |-> recorded[i]] /\ DOMAIN recorded = 1..Total(cur[c])
  BY <1>3 DEF Slots
<1>5. \A r \in 1..Total(cur[c]) : /\ r \in RoundNos /\ rounds[r].status = "ENDED"
                                  /\ recorded[r] = rounds[r].winner
  BY <1>2, <1>3, GameLimitType DEF Closed, RoundNos
<1>6. IsScore(cur[c])
  BY GameLimitType, FeedParts DEF IsScore, IndInv, TypeInv, TypeOK
<1> HIDE DEF recorded, expected
<1>7. ASSUME spent.correction = 0, NEW r \in Pending(c)'
      PROVE  r \in DOMAIN played /\ todo'[c][r] = played[r]
  <2>1. \A i \in 1..Total(cur[c]) : i \in DOMAIN played /\ recorded[i] = played[i]
    BY <1>5, <1>7 DEF HistoryInv, WinnersAreTrue, RoundsIn
  <2>2. Splits(recorded, cur[c])
    <3>1. \A side : {i \in 1..Total(cur[c]) : recorded[i] = side}
                      = {i \in 1..Total(cur[c]) : played[i] = side}
      BY <2>1
    <3>2. \A side \in Side : Tally(played, Total(cur[c]), side) = cur[c][side]
      BY <1>1, <1>7, HandIsTrue DEF Side
    <3>3. \A side : WonBy(recorded, side) = {i \in 1..Total(cur[c]) : played[i] = side}
      BY <1>4, <3>1 DEF WonBy
    <3>4. QED
      BY <3>2, <3>3 DEF Splits, Tally
  <2>3. final = recorded
    BY <1>4, <1>6, <2>2, LoopsFill
  <2> HIDE DEF final
  <2>4. r \in RoundNos /\ todo'[c][r] # NoWinner
    BY <1>7 DEF Pending
  <2>5. todo'[c] = Worklist(1, recorded)
    BY <1>1, <2>3, <2>4 DEF NoTodo
  <2>6. r - 1 + 1 = r
    BY <2>4 DEF RoundNos
  <2>7. r \in DOMAIN recorded /\ todo'[c][r] = recorded[r]
    BY <2>4, <2>5, <2>6 DEF Worklist
  <2>8. QED
    BY <1>4, <2>1, <2>7
<1>8. QED
  BY <1>1, <1>7, LocalHistory

\* The row written for round r is ENDED with the winner that waited for it.
LEMMA EndedTrue ==
  ASSUME IndInv, NEW c \in Controllers, EndRound(c)
  PROVE  \E r \in Pending(c) :
            /\ rounds'[r].status = "ENDED" /\ rounds'[r].winner = todo[c][r]
            /\ \A s \in RoundNos : s # r => rounds'[s] = rounds[s]
            /\ todo'[c] = [todo[c] EXCEPT ![r] = NoWinner]
<1>1. PICK r \in Pending(c) :
         /\ IsDue(c, r)
         /\ rounds' = [rounds EXCEPT ![r] = EndedRow(seenRound[c], @, todo[c][r])]
         /\ todo' = [todo EXCEPT ![c][r] = NoWinner]
  BY DEF EndRound
<1>2. seenRound[c] = rounds[r]
  BY <1>1 DEF EndRound, At, IndInv, OrderInv, SeenFollows
<1>3. /\ r \in RoundNos /\ rounds \in [RoundNos -> RoundRow]
      /\ todo \in [Controllers -> [RoundNos -> Winner \cup {NoWinner}]]
  BY DEF Pending, IndInv, TypeInv, TypeOK
<1>4. /\ EndedRow(rounds[r], rounds[r], todo[c][r]).status = "ENDED"
      /\ EndedRow(rounds[r], rounds[r], todo[c][r]).winner = todo[c][r]
  BY DEF EndedRow
<1>5. rounds'[r] = EndedRow(rounds[r], rounds[r], todo[c][r])
  BY <1>1, <1>2, <1>3
<1>6. /\ todo'[c] = [todo[c] EXCEPT ![r] = NoWinner]
      /\ \A s \in RoundNos : s # r => rounds'[s] = rounds[s]
  BY <1>1, <1>3
<1>7. QED
  BY <1>4, <1>5, <1>6

LEMMA EndRoundHistory ==
  ASSUME IndInv, HistoryInv, NEW c \in Controllers, EndRound(c), UNCHANGED played
  PROVE  HistoryInv'
<1>1. pc[c] = "endRound" /\ UNCHANGED <<feed, snap, spent>>
  BY DEF EndRound, At
<1>2. PICK r \in Pending(c) :
        /\ rounds'[r].winner = todo[c][r]
        /\ \A s \in RoundNos : s # r => rounds'[s] = rounds[s]
        /\ todo'[c] = [todo[c] EXCEPT ![r] = NoWinner]
  BY EndedTrue
<1>3. r \in RoundNos /\ todo[c] \in [RoundNos -> Winner \cup {NoWinner}]
  BY DEF Pending, IndInv, TypeInv, TypeOK
<1>4. ASSUME spent.correction = 0
      PROVE  \A s \in Pending(c) : s \in DOMAIN played /\ todo[c][s] = played[s]
  BY <1>1, <1>4 DEF HistoryInv
<1>5. WinnersAreTrue'
  <2> SUFFICES ASSUME spent.correction = 0, NEW s \in RoundNos, rounds'[s].status = "ENDED"
               PROVE  s \in DOMAIN played /\ rounds'[s].winner = played[s]
    BY <1>1 DEF WinnersAreTrue, RoundsIn
  <2>1. CASE s = r
    BY <1>2, <1>4, <2>1
  <2>2. CASE s # r
    BY <1>2, <2>2 DEF HistoryInv, WinnersAreTrue, RoundsIn
  <2>3. QED
    BY <2>1, <2>2
<1>6. \A s \in Pending(c)' : s \in Pending(c) /\ todo'[c][s] = todo[c][s]
  BY <1>2, <1>3 DEF Pending
<1>7. \A d \in Controllers : d = c
  BY OnlyController DEF IndInv
<1>8. /\ ScoreIsTrue(feed) <=> ScoreIsTrue(feed)'
      /\ ScoreIsTrue(snap) <=> ScoreIsTrue(snap)'
      /\ Total(feed') = Total(feed)
  BY <1>1 DEF ScoreIsTrue, Total
<1>9. spent.correction = 0 => \A d \in Controllers :
        \A s \in Pending(d)' : s \in DOMAIN played' /\ todo'[d][s] = played'[s]
  BY <1>4, <1>6, <1>7
<1>10. QED
  BY <1>1, <1>5, <1>8, <1>9 DEF HistoryInv

LEMMA StartRoundHistory ==
  ASSUME IndInv, HistoryInv, NEW c \in Controllers, StartRound(c), UNCHANGED played
  PROVE  HistoryInv'
<1>1. /\ pc'[c] = "convergeRounds" /\ UNCHANGED <<feed, snap, spent>>
      /\ rounds' = [rounds EXCEPT ![RoundNo(cur[c])] = StartedRow(@)]
  BY DEF StartRound, Goto, IndInv, TypeInv, TypeOK
<1>2. rounds \in [RoundNos -> RoundRow]
  BY DEF IndInv, TypeInv, TypeOK
<1>3. \A s \in RoundNos : rounds'[s].status = "ENDED" => rounds'[s] = rounds[s]
  <2>1. \A x : StartedRow(x).status = "ENDED" => StartedRow(x) = x
    BY DEF StartedRow
  <2>2. \A s \in RoundNos : rounds'[s] = rounds[s] \/ rounds'[s] = StartedRow(rounds[s])
    BY <1>1, <1>2
  <2>3. QED
    BY <2>1, <2>2
<1>4. WinnersAreTrue'
  BY <1>1, <1>3 DEF HistoryInv, WinnersAreTrue, RoundsIn
<1>5. \A d \in Controllers : d = c
  BY OnlyController DEF IndInv
<1>6. /\ ScoreIsTrue(feed) <=> ScoreIsTrue(feed)'
      /\ ScoreIsTrue(snap) <=> ScoreIsTrue(snap)'
      /\ Total(feed') = Total(feed)
  BY <1>1 DEF ScoreIsTrue, Total
<1>7. \A d \in Controllers : pc'[d] \notin {"queryRound", "endRound"}
  BY <1>1, <1>5
<1>8. QED
  BY <1>1, <1>4, <1>6, <1>7 DEF HistoryInv

LEMMA SaveHistory ==
  ASSUME IndInv, HistoryInv, NEW c \in Controllers, SaveSnapshot(c), UNCHANGED played
  PROVE  HistoryInv'
<1>1. /\ pc[c] = "save" /\ pc'[c] = "idle" /\ UNCHANGED <<feed, rounds, spent>>
      /\ snap' = SnapshotOf(cur[c])
  BY DEF SaveSnapshot, Return, At, Goto, dbVars, IndInv, TypeInv, TypeOK
<1>2. WinnersAreTrue'
  BY <1>1 DEF HistoryInv, WinnersAreTrue, RoundsIn
<1>3. /\ ScoreIsTrue(feed) <=> ScoreIsTrue(feed)'
      /\ Total(feed') = Total(feed)
  BY <1>1 DEF ScoreIsTrue, Total
<1>4. spent.correction = 0 => ScoreIsTrue(snap)'
  <2>1. /\ Total(snap') = Total(cur[c]) /\ snap'.red = cur[c].red /\ snap'.blue = cur[c].blue
    BY <1>1, SnapshotParts
  <2>2. spent.correction = 0 => /\ cur[c].red = Tally(played, Total(cur[c]), "red")
                                /\ cur[c].blue = Tally(played, Total(cur[c]), "blue")
    BY <1>1, HandIsTrue
  <2>3. QED
    BY <2>1, <2>2 DEF ScoreIsTrue, Side
<1>5. \A d \in Controllers : d = c
  BY OnlyController DEF IndInv
<1>6. \A d \in Controllers : pc'[d] \notin {"queryRound", "endRound"}
  BY <1>1, <1>5
<1>7. QED
  BY <1>1, <1>2, <1>3, <1>4, <1>6 DEF HistoryInv

LEMMA NextHistory ==
  IndInv /\ HistoryInv /\ [HistoryNext]_historyVars => (IndInv /\ HistoryInv)'
<1> SUFFICES ASSUME IndInv, HistoryInv, [HistoryNext]_historyVars
             PROVE  (IndInv /\ HistoryInv)'
  OBVIOUS
<1>1. [Next]_vars
  BY DEF HistoryNext, OtherStep, PlayGame, Next, FeedNext, historyVars
<1>2. IndInv'
  BY <1>1, NextOrder
<1>3. CASE UNCHANGED historyVars
  <2>1. UNCHANGED <<dbVars, snap, ctlVars, spent, played>> /\ feed' = feed
    BY <1>3 DEF historyVars, vars, dbVars, ctlVars
  <2>2. feed'.red = feed.red /\ feed'.blue = feed.blue
    BY <2>1
  <2>3. QED
    BY <1>2, <2>1, <2>2, SameScoreHistory
<1>4. ASSUME NEW side \in Side, PlayGame(side) PROVE HistoryInv'
  BY <1>4, GameHistory
<1>5. CASE OtherStep
  <2>1. UNCHANGED played
    BY <1>5 DEF OtherStep
  <2>2. ASSUME FeedStart \/ FeedDone \/ FeedResult PROVE HistoryInv'
    <3>1. /\ UNCHANGED <<dbVars, snap, ctlVars, spent, played>>
          /\ feed \in Feed
      BY <2>1, <2>2 DEF FeedStart, FeedDone, FeedResult, IndInv, TypeInv, TypeOK
    <3>2. feed'.red = feed.red /\ feed'.blue = feed.blue
      BY <2>2, <3>1 DEF FeedStart, FeedDone, FeedResult, Feed
    <3>3. QED
      BY <3>1, <3>2, SameScoreHistory
  <2>3. ASSUME NEW from \in Side, NEW to \in Side, FeedCorrection(from, to) PROVE HistoryInv'
    BY <2>1, <2>3, CorrectionHistory
  <2>4. ASSUME NEW c \in Controllers, Scan(c) PROVE HistoryInv'
    BY <2>1, <2>4, QuietHistory, QueryRoundHistory, ReconcileHistory, CompletedHistory,
       EndRoundHistory, StartRoundHistory, SaveHistory DEF Scan
  <2>5. ASSUME NEW c \in Controllers, Fail(c) PROVE HistoryInv'
    BY <2>1, <2>5, QuietHistory
  <2>6. ~LoseSnapshot
    BY OnlyController DEF LoseSnapshot, IndInv, TypeInv, TypeOK
  <2>7. QED
    BY <1>2, <1>5, <2>2, <2>3, <2>4, <2>5, <2>6 DEF OtherStep
<1>6. QED
  BY <1>2, <1>3, <1>4, <1>5 DEF HistoryNext

(***************************************************************************)
(* While nothing is corrected, every ENDED row names the side that won     *)
(* that very game, whatever the plan, however many games are played and    *)
(* however many scans fail half way (reconcileRounds repeats the delta of  *)
(* a failed scan, and convergeCompletedRounds rewrites no true row).       *)
(***************************************************************************)
THEOREM WinnersStayTrue == Ordered /\ HistorySpec => []WinnersAreTrue
<1>1. Ordered /\ HistoryInit => IndInv /\ HistoryInv
  BY InitType, InitOrder, InitHistory DEF HistoryInit, IndInv
<1>2. IndInv /\ HistoryInv => WinnersAreTrue
  BY DEF HistoryInv
<1>3. QED
  BY <1>1, <1>2, NextHistory, PTL DEF HistorySpec

-----------------------------------------------------------------------------
(* The score of a finished match                                           *)

\* The winners alone decide what the rows credit.
LEMMA SameWinners ==
  ASSUME \A r \in RoundNos : rounds'[r].winner = rounds[r].winner
  PROVE  \A side : WinsInRows(side)' = WinsInRows(side)
<1>1. ASSUME NEW side
      PROVE  {r \in RoundNos : rounds'[r].winner = side}
               = {r \in RoundNos : rounds[r].winner = side}
  OBVIOUS
<1>2. QED
  BY <1>1 DEF WinsInRows

\* Whether a match is over depends on its score only.
LEMMA SameOver ==
  ASSUME NEW f, NEW g, f.red = g.red, f.blue = g.blue
  PROVE  Over(f) <=> Over(g)
BY DEF Over, MatchDecided, Total

LEMMA InitSettle == Init => SettleInv
BY DEF Init, SettleInv, SettleFollows, Completing, Settled, RoundsIn, NoRound, NoFeed, NoSnap

\* A scan of a DONE entry has the one on the schedule, and a settled match is
\* scanned in no other state.
LEMMA FinalEntry ==
  ASSUME IndInv, SettleInv, NEW c \in Controllers, pc[c] # "idle"
  PROVE  /\ cur[c].status = "DONE" => snap.known /\ SnapshotOf(cur[c]) = SnapshotOf(feed)
         /\ Settled => /\ SnapshotOf(cur[c]) = SnapshotOf(feed) /\ SnapshotOf(cur[c]) = snap
                       /\ cur[c].status = "DONE"
                       /\ snap.red = cur[c].red /\ snap.blue = cur[c].blue
                       /\ Total(snap) = Total(cur[c])
<1>1. ASSUME SnapshotOf(cur[c]) = snap
      PROVE  /\ snap.status = cur[c].status /\ snap.known
             /\ snap.red = cur[c].red /\ snap.blue = cur[c].blue
             /\ Total(snap) = Total(cur[c])
  BY <1>1, SnapshotParts
<1>2. Settled => SnapshotOf(cur[c]) = snap /\ SnapshotOf(cur[c]) = SnapshotOf(feed)
  BY OldOrNew DEF SettleInv
<1>3. ASSUME cur[c].status = "DONE" PROVE SnapshotOf(cur[c]) = SnapshotOf(feed)
  BY <1>1, <1>2, <1>3, OldOrNew DEF Settled
<1>4. ASSUME cur[c].status = "DONE" PROVE snap.known
  <2>1. feed.status = "DONE"
    BY <1>3, <1>4, SameSnapshot
  <2>2. QED
    BY <2>1 DEF IndInv, OrderInv, FeedFollows, NoFeed
<1>5. QED
  BY <1>1, <1>2, <1>3, <1>4 DEF Settled

\* The schedule: a match that is DONE only gets its result.
LEMMA FeedSettle ==
  ASSUME IndInv, SettleInv, FeedNext
  PROVE  SettleInv'
<1>1. /\ UNCHANGED <<row, rounds, snap, pc, cur, todo, phase>>
      /\ feed \in Feed
  BY DEF FeedNext, FeedStart, FeedDone, FeedResult, FeedGame, FeedCorrection, dbVars, ctlVars,
     IndInv, TypeInv, TypeOK
<1>2. /\ feed'.status = "DONE" => Over(feed')
      /\ feed.status = "DONE" => SnapshotOf(feed') = SnapshotOf(feed)
  <2>1. CASE FeedStart \/ FeedDone
    <3>1. feed.status # "DONE" /\ feed'.red = feed.red /\ feed'.blue = feed.blue
      BY <1>1, <2>1 DEF FeedStart, FeedDone, Feed
    <3>2. feed'.status = "DONE" => Over(feed)
      BY <1>1, <2>1 DEF FeedStart, FeedDone, Feed
    <3>3. QED
      BY <3>1, <3>2, SameOver
  <2>2. CASE FeedResult
    <3>1. /\ feed'.red = feed.red /\ feed'.blue = feed.blue
          /\ feed.status = "DONE" /\ feed'.status = "DONE"
      BY <1>1, <2>2 DEF FeedResult, Feed
    <3>2. Over(feed)
      BY <3>1 DEF SettleInv
    <3>3. QED
      BY <3>1, <3>2, SameOver DEF SnapshotOf
  <2>3. ASSUME NEW side \in Side, FeedGame(side)
        PROVE  feed.status # "DONE" /\ (feed'.status = "DONE" => Over(feed'))
    <3> DEFINE next == [feed EXCEPT ![side] = @ + 1]
    <3>1. feed.status = "STARTED"
      BY <2>3 DEF FeedGame
    <3>2. \/ feed' = next
          \/ Over(next) /\ feed' = [next EXCEPT !.status = "DONE"]
      BY <2>3 DEF FeedGame
    <3>3. next.status = "STARTED"
      BY <1>1, <3>1 DEF Side, Feed
    <3>4. feed' = [next EXCEPT !.status = "DONE"] => feed'.red = next.red /\ feed'.blue = next.blue
      BY <1>1 DEF Side, Feed
    <3> HIDE DEF next
    <3>5. QED
      BY <3>1, <3>2, <3>3, <3>4, SameOver
  <2>4. ASSUME NEW from \in Side, NEW to \in Side, FeedCorrection(from, to)
        PROVE  feed.status # "DONE" /\ feed'.status # "DONE"
    BY <1>1, <2>4 DEF FeedCorrection, Side, Feed
  <2>5. QED
    BY <2>1, <2>2, <2>3, <2>4 DEF FeedNext
<1>3. Settled => SnapshotOf(feed') = snap /\ Credits(snap) /\ row.status = "DONE"
  <2>1. Settled => feed.status = "DONE" /\ snap = SnapshotOf(feed)
    BY SnapshotParts DEF SettleInv, Settled
  <2>2. QED
    BY <1>2, <2>1 DEF SettleInv
<1>4. \A side : WinsInRows(side)' = WinsInRows(side)
  BY <1>1, SameWinners
<1>5. \A c \in Controllers : SettleFollows(c)'
  BY <1>1, <1>4 DEF SettleInv, SettleFollows, Completing, Settled, DueWinner, Credits, RoundNo,
     Total
<1>6. QED
  BY <1>1, <1>2, <1>3, <1>4, <1>5 DEF SettleInv, Settled, Credits, RoundsIn

-----------------------------------------------------------------------------
\* A step of the only controller that leaves schedule, rounds and snapshot alone.
LEMMA LocalSettle ==
  ASSUME IndInv, SettleInv, NEW c \in Controllers, UNCHANGED <<feed, rounds, snap>>,
         Settled => row'.status = "DONE", SettleFollows(c)'
  PROVE  SettleInv'
<1>1. \A d \in Controllers : d = c
  BY OnlyController DEF IndInv
<1>2. \A side : WinsInRows(side)' = WinsInRows(side)
  BY SameWinners
<1>3. Over(feed) <=> Over(feed)'
  BY DEF Over, MatchDecided, Total
<1>4. QED
  BY <1>1, <1>2, <1>3 DEF SettleInv, Settled, Credits, RoundsIn, SnapshotOf

\* Steps that only move the controller on, or write the match row.
LEMMA QuietSettle ==
  ASSUME IndInv, SettleInv, NEW c \in Controllers,
         \/ FetchSchedule(c) \/ LoadSnapshot(c) \/ EnsureMatchWorkflow(c) \/ UpsertMatch(c)
         \/ ReconcileRounds(c) \/ QueryStart(c) \/ Fail(c)
  PROVE  SettleInv'
<1>1. /\ pc \in [Controllers -> Pcs] /\ cur \in [Controllers -> Feed]
      /\ phase \in [Controllers -> {"delta", "completed"}]
  BY DEF IndInv, TypeInv, TypeOK
<1>2. Settled => row.status = "DONE"
  BY DEF SettleInv
<1>3. ASSUME pc[c] \in {"upsert", "workflow"}, cur[c].status = "DONE"
      PROVE  AfterUpsert(c) = "reconcile"
  <2>1. snap.known
    BY <1>3, FinalEntry
  <2>2. prev[c] = snap
    BY <1>3 DEF IndInv, OrderInv, ScanFollows
  <2>3. QED
    BY <2>1, <2>2 DEF AfterUpsert
<1>4. CASE FetchSchedule(c) \/ LoadSnapshot(c) \/ Fail(c)
  <2>1. pc'[c] \in {"idle", "load", "upsert"} /\ UNCHANGED <<feed, row, rounds, snap>>
    BY <1>1, <1>4 DEF FetchSchedule, LoadSnapshot, Fail, Return, Goto, dbVars
  <2>2. SettleFollows(c)'
    BY <2>1 DEF SettleFollows, Completing
  <2>3. QED
    BY <1>2, <2>1, <2>2, LocalSettle
<1>5. CASE EnsureMatchWorkflow(c)
  <2>1. /\ pc[c] = "workflow" /\ pc'[c] = AfterUpsert(c)
        /\ UNCHANGED <<feed, row, rounds, snap, cur>>
    BY <1>1, <1>5 DEF EnsureMatchWorkflow, At, Goto, dbVars
  <2>2. cur[c].status = "DONE" => row.status = "DONE"
    BY <2>1 DEF SettleInv, SettleFollows
  <2>3. pc'[c] \in {"reconcile", "convergeRounds"}
    BY <2>1 DEF AfterUpsert
  <2>4. SettleFollows(c)'
    BY <1>3, <2>1, <2>2, <2>3 DEF SettleFollows, Completing
  <2>5. QED
    BY <1>2, <2>1, <2>4, LocalSettle
<1>6. CASE UpsertMatch(c)
  <2>1. /\ pc[c] = "upsert" /\ pc'[c] \in {"workflow", AfterUpsert(c)}
        /\ row'.status = LatestStatus(cur[c])
        /\ UNCHANGED <<feed, rounds, snap, cur>>
    BY <1>1, <1>6 DEF UpsertMatch, At, Goto
  <2>2. cur[c].status = "DONE" => row'.status = "DONE"
    BY <2>1 DEF LatestStatus
  <2>3. pc'[c] \in {"workflow", "reconcile", "convergeRounds"}
    BY <2>1 DEF AfterUpsert
  <2>4. SettleFollows(c)'
    BY <1>3, <2>1, <2>2, <2>3 DEF SettleFollows, Completing
  <2>5. Settled => row'.status = "DONE"
    BY <2>1, <2>2, FinalEntry
  <2>6. QED
    BY <2>1, <2>4, <2>5, LocalSettle
<1>7. CASE ReconcileRounds(c)
  <2>1. /\ pc[c] = "reconcile" /\ pc'[c] = "queryRound" /\ phase'[c] = "delta"
        /\ UNCHANGED <<feed, row, rounds, snap, cur>>
    BY <1>1, <1>7 DEF ReconcileRounds, At, Goto, dbVars
  <2>2. SettleFollows(c)'
    BY <2>1 DEF SettleInv, SettleFollows, Completing
  <2>3. QED
    BY <1>2, <2>1, <2>2, LocalSettle
<1>8. CASE QueryStart(c)
  <2>1. /\ pc[c] = "queryStart"
        /\ pc'[c] = IF (PlanGames > 0 /\ RoundNo(cur[c]) > PlanGames)
                       \/ rounds[RoundNo(cur[c])] # NoRound
                    THEN "convergeRounds" ELSE "startRound"
        /\ UNCHANGED <<feed, row, rounds, snap, cur>>
    BY <1>1, <1>8 DEF QueryStart, At, Goto, dbVars
  <2>2. cur[c].status = "STARTED" /\ Total(cur[c]) \in Int
    BY <2>1, TotalsInRange DEF IndInv, OrderInv, StartFollows
  <2>3. pc'[c] = "startRound" /\ PlanGames > 0 => RoundNo(cur[c]) <= PlanGames
    BY <2>1, <2>2 DEF RoundNo
  <2>4. pc'[c] \in {"startRound", "convergeRounds"}
    BY <2>1
  <2>5. SettleFollows(c)'
    BY <2>1, <2>2, <2>3, <2>4 DEF SettleFollows, Completing, RoundNo, Total
  <2>6. QED
    BY <1>2, <2>1, <2>5, LocalSettle
<1>9. QED
  BY <1>4, <1>5, <1>6, <1>7, <1>8

\* The loop over the rounds to be ended: its query, and its end.
LEMMA LoopSettle ==
  ASSUME IndInv, SettleInv, NEW c \in Controllers, QueryRound(c) \/ RoundsEnded(c)
  PROVE  SettleInv'
<1>1. /\ pc[c] = "queryRound" /\ pc'[c] \in {"endRound", AfterEnding(c)}
      /\ UNCHANGED <<feed, row, rounds, snap, cur, todo, phase>>
  BY DEF QueryRound, RoundsEnded, At, Goto, dbVars, IndInv, TypeInv, TypeOK
<1>2. SettleFollows(c)
  BY DEF SettleInv
<1>3. cur[c].status = "DONE" => row.status = "DONE"
  BY <1>1, <1>2 DEF SettleFollows
<1>4. CASE pc'[c] = "endRound"
  <2>1. SettleFollows(c)'
    <3>1. Completing(c)' => Completing(c)
      BY <1>1 DEF Completing
    <3>2. \A r \in RoundNos : DueWinner(c, r)' = DueWinner(c, r)
      BY <1>1 DEF DueWinner
    <3>3. \A side : {r \in RoundNos : DueWinner(c, r)' = side}
                      = {r \in RoundNos : DueWinner(c, r) = side}
      BY <3>2
    <3>4. Settled' = Settled
      BY <1>1 DEF Settled
    <3>5. QED
      BY <1>1, <1>2, <1>3, <1>4, <3>1, <3>2, <3>3, <3>4 DEF SettleFollows
  <2>2. QED
    BY <1>1, <2>1, LocalSettle DEF SettleInv
<1>5. CASE RoundsEnded(c)
  <2>1. Pending(c) = {} /\ pc'[c] = AfterEnding(c)
    BY <1>5 DEF RoundsEnded, Goto, IndInv, TypeInv, TypeOK
  <2>2. ASSUME pc'[c] = "convergeRounds", cur[c].status = "DONE" PROVE Credits(cur[c])
    <3>1. Completing(c)
      BY <1>1, <2>1, <2>2 DEF AfterEnding, Completing
    <3>2. \A r \in RoundNos : DueWinner(c, r) = rounds[r].winner
      BY <2>1 DEF Pending, DueWinner
    <3>3. \A side : {r \in RoundNos : DueWinner(c, r) = side}
                      = {r \in RoundNos : rounds[r].winner = side}
      BY <3>2
    <3>4. QED
      BY <1>2, <3>1, <3>3 DEF SettleFollows, Credits, WinsInRows
  <2>3. pc'[c] \in {"convergeRounds", "queryStart", "queryCompleted"}
    BY <2>1 DEF AfterEnding
  <2>4. Credits(cur[c])' <=> Credits(cur[c])
    BY <1>1, SameWinners DEF Credits
  <2>5. SettleFollows(c)'
    BY <1>1, <1>3, <2>2, <2>3, <2>4 DEF SettleFollows, Completing
  <2>6. QED
    BY <1>1, <2>5, LocalSettle DEF SettleInv
<1>6. QED
  <2>1. QueryRound(c) => pc'[c] = "endRound"
    BY DEF QueryRound, Goto, IndInv, TypeInv, TypeOK
  <2>2. QED
    BY <1>4, <1>5, <2>1

\* Beyond the score in hand no row names a winner.
LEMMA NoWinnerBeyond ==
  ASSUME IndInv, SettleInv, NEW n \in Int, Closed(n), NEW r \in RoundNos, r > n
  PROVE  rounds[r].winner = NoWinner
<1>1. r \in Int
  BY DEF RoundNos
<1>2. rounds[r] = NoRound \/ rounds[r].status = "STARTED"
  BY <1>1 DEF Closed
<1>3. QED
  BY <1>2 DEF SettleInv, NoRound

\* convergeCompletedRounds: the rounds it lists, with the rows it leaves alone,
\* split as the final score does, and are the rows as they are once these do.
LEMMA CompletedSettle ==
  ASSUME IndInv, SettleInv, NEW c \in Controllers, QueryCompleted(c)
  PROVE  SettleInv'
<1> DEFINE expected == ClampToPlan(Total(cur[c]), PlanGames)
           recorded == [r \in 1..expected |-> rounds[r].winner]
           final    == AuthoritativeWinners(recorded, cur[c])
<1>1. /\ pc[c] = "queryCompleted" /\ pc'[c] = "queryRound"
      /\ todo'[c] = IF expected > 0 THEN Worklist(1, final) ELSE NoTodo
      /\ UNCHANGED <<feed, row, rounds, snap, cur>>
  BY DEF QueryCompleted, At, Goto, dbVars, IndInv, TypeInv, TypeOK
<1>2. /\ Closed(Total(cur[c])) /\ Total(cur[c]) \in 0..GameLimit
  BY <1>1, TotalsInRange DEF IndInv, OrderInv, StartFollows
<1>3. expected = Total(cur[c])
  BY <1>2, GameLimitType DEF ClampToPlan, AtMost, GameLimit
<1>4. /\ recorded = [i \in Slots(cur[c]) |-> recorded[i]]
      /\ DOMAIN recorded = 1..Total(cur[c]) /\ DOMAIN final = 1..Total(cur[c])
      /\ \A i \in DOMAIN final : final[i] \in Winner
  BY <1>3, FinalWinners DEF Slots, AuthoritativeWinners
<1>5. /\ \A r \in 1..Total(cur[c]) : r \in RoundNos /\ recorded[r] = rounds[r].winner
      /\ \A r \in RoundNos : r \in Int /\ r >= 1 /\ r - 1 + 1 = r
  BY <1>2, <1>3, GameLimitType DEF RoundNos
<1>6. IsScore(cur[c])
  BY GameLimitType, FeedParts DEF IsScore, IndInv, TypeInv, TypeOK
<1>7. Splits(final, cur[c]) /\ (Splits(recorded, cur[c]) => final = recorded)
  BY <1>4, <1>6, LoopsFill
<1>8. \A r \in RoundNos : r > Total(cur[c]) => rounds[r].winner = NoWinner
  BY <1>2, NoWinnerBeyond
<1>9. \A w \in Winner : w # NoWinner
  BY DEF Winner, Side, NoWinner
<1> HIDE DEF recorded, expected, final
<1>10. ASSUME NEW r \in RoundNos
       PROVE  DueWinner(c, r)' = IF r \in 1..Total(cur[c]) THEN final[r] ELSE NoWinner
  <2>1. CASE r \in 1..Total(cur[c])
    <3>1. expected > 0
      BY <1>2, <1>3, <2>1
    <3>2. todo'[c][r] = final[r]
      BY <1>1, <1>4, <1>5, <2>1, <3>1 DEF Worklist
    <3>3. QED
      BY <1>4, <1>9, <2>1, <3>2 DEF DueWinner
  <2>2. CASE r \notin 1..Total(cur[c])
    <3>1. todo'[c][r] = NoWinner
      BY <1>1, <1>4, <1>5, <2>2 DEF Worklist, NoTodo
    <3>2. rounds[r].winner = NoWinner
      BY <1>2, <1>5, <1>8, <2>2
    <3>3. QED
      BY <1>1, <2>2, <3>1, <3>2 DEF DueWinner
  <2>3. QED
    BY <2>1, <2>2
<1>11. \A side \in Side : side # NoWinner
  BY <1>9 DEF Winner
<1>12. ASSUME NEW side \in Side
       PROVE  Cardinality({r \in RoundNos : DueWinner(c, r)' = side}) = cur[c][side]
  <2>1. {r \in RoundNos : DueWinner(c, r)' = side} = WonBy(final, side)
    BY <1>4, <1>5, <1>10, <1>11 DEF WonBy
  <2>2. QED
    BY <1>7, <2>1 DEF Splits
<1>13. ASSUME Settled, NEW r \in RoundNos PROVE DueWinner(c, r)' = rounds[r].winner
  <2>1. Credits(snap) /\ snap.red = cur[c].red /\ snap.blue = cur[c].blue
    BY <1>1, <1>13, FinalEntry DEF SettleInv
  <2>2. \A side \in Side : snap[side] = cur[c][side]
    BY <2>1 DEF Side
  <2>3. ASSUME NEW side \in Side
        PROVE  WonBy(recorded, side) = {s \in RoundNos : rounds[s].winner = side}
    <3>1. \A s \in RoundNos : rounds[s].winner # NoWinner => s \in 1..Total(cur[c])
      BY <1>2, <1>5, <1>8
    <3>2. WonBy(recorded, side) = {s \in 1..Total(cur[c]) : recorded[s] = side}
      BY <1>4 DEF WonBy
    <3>3. QED
      BY <1>5, <1>11, <3>1, <3>2
  <2>4. Splits(recorded, cur[c])
    BY <2>1, <2>2, <2>3 DEF Splits, Credits, WinsInRows
  <2>5. final = recorded
    BY <1>7, <2>4
  <2>6. QED
    BY <1>2, <1>5, <1>8, <1>10, <2>5
<1>14. SettleFollows(c)'
  <2>1. cur[c].status = "DONE" => row.status = "DONE"
    BY <1>1 DEF SettleInv, SettleFollows
  <2>2. Settled' = Settled
    BY <1>1 DEF Settled
  <2>3. QED
    BY <1>1, <1>12, <1>13, <2>1, <2>2 DEF SettleFollows
<1>15. QED
  BY <1>1, <1>14, LocalSettle DEF SettleInv

\* Ending a round writes the winner that was due.
LEMMA EndRoundSettle ==
  ASSUME IndInv, SettleInv, NEW c \in Controllers, EndRound(c)
  PROVE  SettleInv'
<1>1. /\ pc[c] = "endRound" /\ pc'[c] = "queryRound"
      /\ UNCHANGED <<feed, row, snap, cur, phase>>
  BY DEF EndRound, At, Goto, IndInv, TypeInv, TypeOK
<1>2. PICK r \in Pending(c) :
        /\ rounds'[r].status = "ENDED" /\ rounds'[r].winner = todo[c][r]
        /\ \A s \in RoundNos : s # r => rounds'[s] = rounds[s]
        /\ todo'[c] = [todo[c] EXCEPT ![r] = NoWinner]
  BY EndedTrue, Zenon
<1>3. /\ r \in RoundNos /\ todo[c][r] # NoWinner
      /\ todo[c] \in [RoundNos -> Winner \cup {NoWinner}]
  BY DEF Pending, IndInv, TypeInv, TypeOK
<1>4. ASSUME NEW s \in RoundNos PROVE DueWinner(c, s)' = DueWinner(c, s)
  BY <1>2, <1>3 DEF DueWinner
<1>5. ASSUME Settled PROVE Completing(c)
  <2>1. Total(snap) = Total(cur[c]) /\ Total(snap) \in Int
    BY <1>1, <1>5, FinalEntry, TotalsInRange
  <2>2. phase[c] # "delta"
    BY <1>1, <2>1, DeltaRound
  <2>3. QED
    BY <1>1, <2>2 DEF Completing, IndInv, TypeInv, TypeOK
<1>6. ASSUME Settled PROVE \A s \in RoundNos : rounds'[s].winner = rounds[s].winner
  <2>1. \A s \in RoundNos : DueWinner(c, s) = rounds[s].winner
    BY <1>5, <1>6 DEF SettleInv, SettleFollows
  <2>2. QED
    BY <1>2, <1>3, <2>1 DEF DueWinner
<1>7. \A d \in Controllers : d = c
  BY OnlyController DEF IndInv
<1>8. SettleFollows(c)'
  <2>1. SettleFollows(c)
    BY DEF SettleInv
  <2>2. Completing(c)' = Completing(c) /\ Settled' = Settled
    BY <1>1 DEF Completing, Settled
  <2>3. \A side : {s \in RoundNos : DueWinner(c, s)' = side}
                    = {s \in RoundNos : DueWinner(c, s) = side}
    BY <1>4
  <2>4. ASSUME Settled, NEW s \in RoundNos PROVE DueWinner(c, s)' = rounds'[s].winner
    BY <1>4, <1>5, <1>6, <2>1, <2>4 DEF SettleFollows
  <2>5. cur[c].status = "DONE" => row.status = "DONE"
    BY <1>1, <2>1 DEF SettleFollows
  <2>6. QED
    BY <1>1, <2>1, <2>2, <2>3, <2>4, <2>5 DEF SettleFollows
<1>9. \A s \in RoundNos : /\ rounds'[s].winner # NoWinner => rounds'[s].status = "ENDED"
                          /\ rounds'[s].status = "STARTED" => rounds[s].status = "STARTED"
  BY <1>2 DEF SettleInv
<1>10. Over(feed)' <=> Over(feed)
  BY <1>1 DEF Over, MatchDecided, Total
<1>11. Settled => Credits(snap)'
  BY <1>1, <1>6, SameWinners DEF SettleInv, Credits
<1>12. QED
  BY <1>1, <1>7, <1>8, <1>9, <1>10, <1>11 DEF SettleInv, Settled, RoundsIn, SnapshotOf

\* Opening a round credits nobody, and happens only while the match goes on.
LEMMA StartRoundSettle ==
  ASSUME IndInv, SettleInv, NEW c \in Controllers, StartRound(c)
  PROVE  SettleInv'
<1>1. /\ pc[c] = "startRound" /\ pc'[c] = "convergeRounds"
      /\ rounds' = [rounds EXCEPT ![RoundNo(cur[c])] = StartedRow(@)]
      /\ UNCHANGED <<feed, row, snap, cur>>
  BY DEF StartRound, At, Goto, IndInv, TypeInv, TypeOK
<1>2. /\ cur[c].status = "STARTED" /\ RoundNo(cur[c]) \in RoundNos
      /\ rounds \in [RoundNos -> RoundRow]
  BY <1>1 DEF IndInv, OrderInv, StartFollows, TypeInv, TypeOK
<1>3. ~Settled
  BY <1>1, <1>2, FinalEntry
<1>4. PlanGames > 0 => RoundNo(cur[c]) <= PlanGames
  BY <1>1 DEF SettleInv, SettleFollows
<1>5. ASSUME NEW s \in RoundNos
      PROVE  /\ rounds'[s].winner = rounds[s].winner
             /\ rounds[s].status = "ENDED" => rounds'[s].status = "ENDED"
             /\ rounds'[s].status = "STARTED" =>
                  rounds[s].status = "STARTED" \/ s = RoundNo(cur[c])
  <2>1. \A x : /\ StartedRow(x).winner = x.winner
               /\ x.status = "ENDED" => StartedRow(x).status = "ENDED"
    BY DEF StartedRow, NoRound
  <2>2. rounds'[s] = IF s = RoundNo(cur[c]) THEN StartedRow(rounds[s]) ELSE rounds[s]
    BY <1>1, <1>2
  <2>3. QED
    BY <2>1, <2>2
<1>6. SettleFollows(c)'
  BY <1>1, <1>2 DEF SettleFollows, Completing
<1>7. \A d \in Controllers : d = c
  BY OnlyController DEF IndInv
<1>8. Over(feed)' <=> Over(feed)
  BY <1>1 DEF Over, MatchDecided, Total
<1>9. ~Settled'
  BY <1>1, <1>3 DEF Settled
<1>10. \A s \in RoundNos : rounds'[s].winner # NoWinner => rounds'[s].status = "ENDED"
  BY <1>5 DEF SettleInv
<1>11. PlanGames > 0 => \A s \in RoundNos : rounds'[s].status = "STARTED" => s <= PlanGames
  BY <1>4, <1>5 DEF SettleInv, RoundsIn
<1>12. QED
  BY <1>1, <1>6, <1>7, <1>8, <1>9, <1>10, <1>11 DEF SettleInv, RoundsIn

\* Convergence never takes DONE from the match row.
LEMMA ConvergeSettle ==
  ASSUME IndInv, SettleInv, NEW c \in Controllers,
         ConvergeRounds(c) \/ ConvergeRow(c) \/ ConvergeSave(c)
  PROVE  SettleInv'
<1>1. /\ pc[c] \in {"convergeRounds", "convergeRow", "convergeSave"}
      /\ pc'[c] \in {"convergeRow", "convergeSave", "save"}
      /\ UNCHANGED <<feed, rounds, snap, cur>>
  BY DEF ConvergeRounds, ConvergeRow, ConvergeSave, At, Goto, dbVars, IndInv, TypeInv, TypeOK
<1>2. row.status = "DONE" => row'.status = "DONE"
  BY DEF ConvergeRounds, ConvergeRow, ConvergeSave, dbVars
<1>3. SettleFollows(c)
  BY DEF SettleInv
<1>4. Credits(cur[c])' <=> Credits(cur[c])
  BY <1>1, SameWinners DEF Credits
<1>5. SettleFollows(c)'
  BY <1>1, <1>2, <1>3, <1>4 DEF SettleFollows, Completing
<1>6. QED
  BY <1>1, <1>2, <1>5, LocalSettle DEF SettleInv

\* A complete scan of a final score settles the match.
LEMMA SaveSettle ==
  ASSUME IndInv, SettleInv, NEW c \in Controllers, SaveSnapshot(c)
  PROVE  SettleInv'
<1>1. /\ pc[c] = "save" /\ pc'[c] = "idle" /\ snap' = SnapshotOf(cur[c])
      /\ UNCHANGED <<feed, row, rounds>>
  BY DEF SaveSnapshot, Return, At, Goto, dbVars, IndInv, TypeInv, TypeOK
<1>2. ASSUME Settled' PROVE snap' = SnapshotOf(feed) /\ Credits(snap)' /\ row.status = "DONE"
  <2>1. cur[c].status = "DONE"
    BY <1>1, <1>2, SnapshotParts DEF Settled
  <2>2. Credits(cur[c]) /\ row.status = "DONE"
    BY <1>1, <2>1 DEF SettleInv, SettleFollows
  <2>3. snap' = SnapshotOf(feed)
    BY <1>1, <2>1, FinalEntry
  <2>4. snap'.red = cur[c].red /\ snap'.blue = cur[c].blue
    BY <1>1, SnapshotParts
  <2>5. Credits(snap)'
    BY <1>1, <2>2, <2>4, SameWinners DEF Credits, Side
  <2>6. QED
    BY <2>2, <2>3, <2>5
<1>3. SettleFollows(c)'
  BY <1>1 DEF SettleFollows, Completing
<1>4. \A d \in Controllers : d = c
  BY OnlyController DEF IndInv
<1>5. Over(feed)' <=> Over(feed)
  BY <1>1 DEF Over, MatchDecided, Total
<1>6. QED
  BY <1>1, <1>2, <1>3, <1>4, <1>5 DEF SettleInv, RoundsIn, SnapshotOf

LEMMA NextSettle == IndInv /\ SettleInv /\ [Next]_vars => (IndInv /\ SettleInv)'
<1> SUFFICES ASSUME IndInv, SettleInv, [Next]_vars PROVE (IndInv /\ SettleInv)'
  OBVIOUS
<1>1. IndInv'
  BY NextOrder
<1>2. ASSUME NEW c \in Controllers, Scan(c) PROVE SettleInv'
  BY <1>2, QuietSettle, LoopSettle, CompletedSettle, EndRoundSettle, StartRoundSettle,
     ConvergeSettle, SaveSettle DEF Scan
<1>3. ASSUME NEW c \in Controllers, Fail(c) PROVE SettleInv'
  BY <1>3, QuietSettle
<1>4. ~LoseSnapshot
  BY OnlyController DEF LoseSnapshot, IndInv, TypeInv, TypeOK
<1>5. CASE UNCHANGED vars
  <2>1. PICK c \in Controllers : TRUE
    OBVIOUS
  <2>2. UNCHANGED <<feed, row, rounds, snap, pc, cur, todo, phase>>
    BY <1>5 DEF vars, dbVars, ctlVars
  <2>3. \A side : WinsInRows(side)' = WinsInRows(side)
    BY <2>2, SameWinners
  <2>4. SettleFollows(c)'
    BY <2>2, <2>3 DEF SettleInv, SettleFollows, Completing, Settled, DueWinner, Credits, RoundNo,
       Total
  <2>5. Settled => row'.status = "DONE"
    BY <2>2 DEF SettleInv
  <2>6. QED
    BY <1>1, <2>2, <2>4, <2>5, LocalSettle
<1>6. QED
  BY <1>1, <1>2, <1>3, <1>4, <1>5, FeedSettle DEF Next

LEMMA SettleCorrect == Ordered /\ Spec => [](IndInv /\ SettleInv)
<1>1. Ordered /\ Init => IndInv /\ SettleInv
  BY InitType, InitOrder, InitSettle DEF IndInv
<1>2. QED
  BY <1>1, NextSettle, PTL DEF Spec

\* The rounds that the score of a settled match counts are ENDED.
LEMMA SettledRounds ==
  ASSUME IndInv, SettleInv, Settled
  PROVE  /\ Closed(Total(feed)) /\ Total(feed) \in 0..GameLimit
         /\ snap.red = feed.red /\ snap.blue = feed.blue /\ feed.status = "DONE"
<1>1. PICK c \in Controllers : TRUE
  OBVIOUS
<1>2. snap = SnapshotOf(feed)
  BY DEF SettleInv
<1>3. /\ snap.red = feed.red /\ snap.blue = feed.blue /\ feed.status = "DONE"
      /\ Total(snap) = Total(feed)
  BY <1>2, SnapshotParts DEF Settled
<1>4. Closed(Total(feed))
  BY <1>2, <1>3 DEF IndInv, OrderInv, RowsFollow, Settled, Processed
<1>5. QED
  BY <1>3, <1>4, TotalsInRange

(***************************************************************************)
(* From the first complete scan of the final score on, every round it      *)
(* counts is ENDED, each side is credited with its wins and the match row  *)
(* is DONE, whatever the plan, the corrections and the failed scans before *)
(* and after (convergeCompletedRounds and the snapshot saved last).        *)
(***************************************************************************)
THEOREM ScoreIsRecorded == Ordered /\ Spec => []ScoreRecorded
<1>1. ASSUME IndInv, SettleInv, Settled PROVE ScoreInRows
  <2>1. /\ Closed(Total(feed)) /\ Total(feed) \in 0..GameLimit
        /\ snap.red = feed.red /\ snap.blue = feed.blue
    BY <1>1, SettledRounds
  <2>2. 1..Total(feed) \subseteq RoundsIn("ENDED")
    BY <2>1, GameLimitType DEF Closed, RoundsIn, RoundNos
  <2>3. Credits(snap) /\ row.status = "DONE"
    BY <1>1 DEF SettleInv
  <2>4. \A side \in Side : WinsInRows(side) = feed[side]
    BY <2>1, <2>3 DEF Credits, Side
  <2>5. QED
    BY <2>2, <2>3, <2>4 DEF ScoreInRows
<1>2. IndInv /\ SettleInv => ScoreRecorded
  BY <1>1 DEF ScoreRecorded
<1>3. QED
  BY <1>2, SettleCorrect, PTL

(***************************************************************************)
(* Then no round is left STARTED, if the number of games is known and none *)
(* was corrected: no record-job waits for an end that never comes          *)
(* (ensureStartedRound opens nothing beyond the plan, reconcileRounds      *)
(* nothing past the decision).                                             *)
(***************************************************************************)
THEOREM NothingLeftStarted == Ordered /\ Spec => []NoneLeftOpen
<1>1. ASSUME IndInv, SettleInv, NoRoundPastDecision,
             Settled, PlanGames > 0, spent.correction = 0,
             NEW r \in RoundNos, rounds[r].status = "STARTED"
      PROVE  FALSE
  <2>1. /\ Closed(Total(feed)) /\ Total(feed) \in 0..GameLimit
        /\ feed.status = "DONE" /\ r \in Int
    BY <1>1, SettledRounds DEF RoundNos
  <2>2. r > Total(feed)
    BY <1>1, <2>1 DEF Closed
  <2>3. r <= PlanGames
    BY <1>1 DEF SettleInv, RoundsIn
  <2>4. r \in Present
    BY <1>1 DEF Present, NoRound
  <2>5. MatchDecided(feed, PlanGames)
    <3>1. Over(feed)
      BY <1>1, <2>1 DEF SettleInv
    <3>2. QED
      BY <1>1, <2>1, <2>2, <2>3, <3>1, GameLimitType DEF Over
  <2>6. QED
    BY <1>1, <2>1, <2>2, <2>4, <2>5 DEF NoRoundPastDecision
<1>2. IndInv /\ SettleInv /\ NoRoundPastDecision => NoneLeftOpen
  BY <1>1 DEF NoneLeftOpen, RoundsIn
<1>3. QED
  BY <1>2, SettleCorrect, NothingPastDecision, PTL
=============================================================================
