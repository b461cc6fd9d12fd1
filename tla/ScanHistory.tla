---------------------------- MODULE ScanHistory ----------------------------
(***************************************************************************)
(* RoundOrder with a history variable: the side that really won each game, *)
(* in the order the games were played.  The schedule publishes only how    *)
(* many games each side has won, and the scanner has to recover the order. *)
(***************************************************************************)
EXTENDS RoundOrder, WinnerFill, Sequences

VARIABLE played

historyVars == <<vars, played>>

HistoryInit == Init /\ played = <<>>

PlayGame(side) == FeedGame(side) /\ played' = Append(played, side)

OtherStep ==
  /\ \/ FeedStart \/ FeedDone \/ FeedResult
     \/ \E from, to \in Side : FeedCorrection(from, to)
     \/ \E c \in Controllers : Scan(c) \/ Fail(c)
     \/ LoseSnapshot
  /\ UNCHANGED played

HistoryNext == OtherStep \/ \E side \in Side : PlayGame(side)

HistorySpec == HistoryInit /\ [][HistoryNext]_historyVars

(***************************************************************************)
(* While the schedule is followed game by game and nothing is corrected,   *)
(* every ENDED row names the side that won that very game, although a      *)
(* failed scan repeats the work of the one before it (winnersFromDelta     *)
(* sees only counts, and credits red before blue).                         *)
(***************************************************************************)
WinnersAreTrue ==
  spent.correction = 0 =>
    \A r \in RoundsIn("ENDED") : r \in DOMAIN played /\ rounds[r].winner = played[r]

\* How many of the first n rounds a side has won.
Tally(winners, n, side) == Cardinality({j \in 1..n : winners[j] = side})

\* Each side has won as many of the games played as this score gives it.
ScoreIsTrue(score) == \A side \in Side : Tally(played, Total(score), side) = score[side]

(***************************************************************************)
(* The inductive invariant behind WinnersAreTrue, beside OrderInv: the     *)
(* snapshot and the schedule count the games that were played, and a round *)
(* waits to be ended with the winner it really had.                        *)
(***************************************************************************)
HistoryInv ==
  /\ played \in Seq(Side) /\ Len(played) = Total(feed)
  /\ spent.correction = 0 =>
       /\ ScoreIsTrue(feed)
       /\ snap.known => ScoreIsTrue(snap)
       /\ \A c \in Controllers : pc[c] \in {"queryRound", "endRound"} =>
            \A r \in Pending(c) : r \in DOMAIN played /\ todo[c][r] = played[r]
  /\ WinnersAreTrue

Recorded(total) == [r \in 1..total |-> rounds[r].winner]

(***************************************************************************)
(* Whatever rounds the scanner has recorded so far and whatever final      *)
(* score comes: the loops of authoritativeWinners compute the closed form  *)
(* that MatchScan uses; the result splits the rounds exactly as the score  *)
(* does, so that the "draw" of the second loop is never reached; and a     *)
(* table that does so already is returned unchanged, so that a rescan of a *)
(* finished match rewrites no round.                                       *)
(***************************************************************************)
FillsTheScore ==
  \A score \in {s \in [Side -> 0..GameLimit] : Total(s) <= GameLimit} :
    LET recorded == Recorded(Total(score))
        table    == LoopedWinners(recorded, score)
    IN  /\ table = AuthoritativeWinners(recorded, score)
        /\ Splits(table, score)
        /\ Splits(recorded, score) => table = recorded
=============================================================================
