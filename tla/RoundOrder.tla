----------------------------- MODULE RoundOrder -----------------------------
(***************************************************************************)
(* The scanner implements RoundBook when a single controller processes     *)
(* every change of the schedule before the next one and Redis keeps the    *)
(* snapshot; failed and repeated scans are allowed.  OrderInv is the       *)
(* inductive invariant that shows it.                                      *)
(***************************************************************************)
EXTENDS MatchScan

\* Set by the constants: one controller, a paced schedule and a Redis that keeps
\* the snapshot.
Ordered ==
  /\ \A c, d \in Controllers : c = d
  /\ Paced = TRUE
  /\ MaxLosses = 0

StatusOf == [r \in RoundNos |-> rounds[r].status]

Book == INSTANCE RoundBook WITH book <- StatusOf

(***************************************************************************)
(* Every step of the scanner opens the next round, closes the open one or  *)
(* leaves the round statuses alone.                                        *)
(***************************************************************************)
ImplementsRoundBook == Book!BookSpec

-----------------------------------------------------------------------------
\* Rounds up to n are ENDED, n + 1 may be open, the others do not exist.
Closed(n) ==
  /\ \A r \in RoundNos : r <= n => rounds[r].status = "ENDED"
  /\ \A r \in RoundNos : r > n + 1 => rounds[r] = NoRound
  /\ \A r \in RoundNos : r = n + 1 => rounds[r] = NoRound \/ rounds[r].status = "STARTED"

IsOpen(n) == \A r \in RoundNos : r = n + 1 => rounds[r].status = "STARTED"

\* A round is being played at this score.
Playing(f) ==
  /\ f.status = "STARTED"
  /\ ~MatchDecided(f, PlanGames)
  /\ Total(f) < GameLimit

\* The rows after a complete scan of f.
Processed(f) == Closed(Total(f)) /\ (Playing(f) => IsOpen(Total(f)))

\* The schedule is at most one change ahead of the snapshot.
FeedFollows ==
  IF snap.known
  THEN /\ Total(feed) \in {Total(snap), Total(snap) + 1}
       /\ Total(feed) = Total(snap) + 1 => Playing(snap)
  ELSE feed = NoFeed

\* The rows are those of the snapshot, or a scan has begun to move them on.
RowsFollow ==
  \/ /\ ~snap.known
     /\ rounds = [r \in RoundNos |-> NoRound]
  \/ snap.known /\ Processed(snap)
  \/ snap.known /\ snap # SnapshotOf(feed) /\ Closed(Total(feed))

\* A scan works on the snapshot it loaded and on the schedule entry before or
\* after the change; while it is before, the rows are those of the snapshot.
ScanFollows(c) ==
  /\ pc[c] \notin {"idle", "load"} => prev[c] = snap
  /\ pc[c] \in {"reconcile", "queryRound", "endRound", "queryCompleted",
               "queryStart", "startRound"} => prev[c].known
  /\ pc[c] # "idle" =>
       \/ SnapshotOf(cur[c]) = SnapshotOf(feed)
       \/ /\ SnapshotOf(cur[c]) = snap
          /\ Processed(snap)

\* The rounds still to be ended.
TodoFollows(c) ==
  pc[c] \in {"queryRound", "endRound"} =>
    IF phase[c] = "delta"
    THEN /\ \A r \in Pending(c) : r = Total(prev[c]) + 1 /\ r = Total(cur[c])
         /\ Pending(c) = {} => Closed(Total(cur[c]))
    ELSE /\ cur[c].status # "STARTED"
         /\ \A r \in Pending(c) : r <= Total(cur[c])
         /\ Closed(Total(cur[c]))

SeenFollows(c) ==
  pc[c] = "endRound" =>
    /\ Pending(c) # {}
    /\ \A r \in Pending(c) : IsDue(c, r) => seenRound[c] = rounds[r]

\* From here on the rows agree with the entry being processed.
StartFollows(c) ==
  /\ pc[c] \in {"queryCompleted", "queryStart", "startRound"} => Closed(Total(cur[c]))
  /\ pc[c] = "startRound" => RoundNo(cur[c]) \in RoundNos
  /\ pc[c] \in {"queryStart", "startRound"} => cur[c].status = "STARTED"
  /\ pc[c] = "queryCompleted" => cur[c].status # "STARTED"
  /\ pc[c] \in {"convergeRounds", "convergeRow", "convergeSave", "save"} =>
       Processed(cur[c])

OrderInv ==
  /\ Ordered
  /\ FeedFollows
  /\ RowsFollow
  /\ \A c \in Controllers :
       ScanFollows(c) /\ TodoFollows(c) /\ SeenFollows(c) /\ StartFollows(c)

-----------------------------------------------------------------------------
\* The snapshot says that the match is over: a scan of its final score is complete.
Settled == snap.known /\ snap.status = "DONE"

(***************************************************************************)
(* From the first complete scan of the final score on, the rows have it:   *)
(* every round is ENDED, the rounds credited to each side are its wins and *)
(* the match row is DONE.  A failed scan leaves no half of it behind the   *)
(* snapshot, and a later one that fails in the middle of                   *)
(* convergeCompletedRounds takes nothing back.                             *)
(***************************************************************************)
ScoreRecorded == Settled => ScoreInRows

(***************************************************************************)
(* No round is left STARTED then, so that every record-job gets its stop:  *)
(* if the number of games is known and none was corrected, the deciding    *)
(* or last game ends the round it was played in and opens no other.        *)
(***************************************************************************)
NoneLeftOpen ==
  Settled /\ PlanGames > 0 /\ spent.correction = 0 => RoundsIn("STARTED") = {}


\* The round rows credit each side with its wins.
Credits(score) == \A side \in Side : WinsInRows(side) = score[side]

\* The winner of a round once the rounds still to be ended are.
DueWinner(c, r) == IF todo[c][r] # NoWinner THEN todo[c][r] ELSE rounds[r].winner

Completing(c) == pc[c] \in {"queryRound", "endRound"} /\ phase[c] = "completed"

\* A scan of a final score leads the rows to it, and moves none that has it already.
SettleFollows(c) ==
  /\ Completing(c) =>
       \A side \in Side : Cardinality({r \in RoundNos : DueWinner(c, r) = side}) = cur[c][side]
  /\ Completing(c) /\ Settled => \A r \in RoundNos : DueWinner(c, r) = rounds[r].winner
  /\ pc[c] \in {"convergeRounds", "convergeRow", "convergeSave", "save"} =>
       (cur[c].status = "DONE" => Credits(cur[c]))
  /\ pc[c] \notin {"idle", "load", "upsert"} /\ cur[c].status = "DONE" => row.status = "DONE"
  /\ pc[c] = "startRound" /\ PlanGames > 0 => RoundNo(cur[c]) <= PlanGames

(***************************************************************************)
(* The inductive invariant behind ScoreRecorded and NoneLeftOpen, beside   *)
(* OrderInv.                                                               *)
(***************************************************************************)
SettleInv ==
  /\ \A r \in RoundNos : rounds[r].winner # NoWinner => rounds[r].status = "ENDED"
  /\ feed.status = "DONE" => Over(feed)
  /\ PlanGames > 0 => \A r \in RoundsIn("STARTED") : r <= PlanGames
  /\ Settled => /\ snap = SnapshotOf(feed)
                /\ Credits(snap)
                /\ row.status = "DONE"
  /\ \A c \in Controllers : SettleFollows(c)
=============================================================================
