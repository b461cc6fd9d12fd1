------------------------------ MODULE Scoring ------------------------------
(***************************************************************************)
(* The pure arithmetic of match-controller: when a match is decided, and   *)
(* which side is credited with each finished round.  A score is any record *)
(* with the fields red and blue, the games each side has won according to  *)
(* the official schedule.                                                  *)
(***************************************************************************)
EXTENDS Integers, FiniteSets

Side == {"red", "blue"}

Winner == Side \cup {"draw"}

\* Stands for a round row that is absent or whose winner column is NULL.
NoWinner == "none"

NonNegative(n) == IF n > 0 THEN n ELSE 0

AtMost(n, limit) == IF n > limit THEN limit ELSE n

Total(score) == score.red + score.blue

\* The round being played once the given score has been reached.
RoundNo(score) == Total(score) + 1

WinsRequired(planGames) ==
  IF planGames <= 0 THEN 0 ELSE planGames \div 2 + 1

MatchDecided(score, planGames) ==
  LET required == WinsRequired(planGames)
  IN  /\ required > 0
      /\ score.red >= required \/ score.blue >= required

\* A number of rounds derived from the score, cut off at a known plan.
ClampToPlan(n, planGames) == IF planGames > 0 THEN AtMost(n, planGames) ELSE n

\* Faulty variant: one round too few is ended.
WinnersFromDeltaShort(prev, cur, count) ==
  LET redDelta  == NonNegative(cur.red - prev.red)
      blueDelta == NonNegative(cur.blue - prev.blue)
  IN  [i \in 1..AtMost(count - 1, redDelta + blueDelta) |->
         IF i <= redDelta THEN "red" ELSE "blue"]

\* Faulty variant: red's wins are counted from zero, not from the snapshot.
WinnersFromTotals(prev, cur, count) ==
  LET blueDelta == NonNegative(cur.blue - prev.blue)
  IN  [i \in 1..AtMost(count, cur.red + blueDelta) |->
         IF i <= cur.red THEN "red" ELSE "blue"]

(***************************************************************************)
(* The winners of at most count rounds that ended between two polls of the *)
(* schedule: all of red's new wins, then all of blue's.  The order in      *)
(* which they were won is not in the schedule.                             *)
(***************************************************************************)
WinnersFromDelta(prev, cur, count) ==
  LET redDelta  == NonNegative(cur.red - prev.red)
      blueDelta == NonNegative(cur.blue - prev.blue)
  IN  [i \in 1..AtMost(count, redDelta + blueDelta) |->
         IF i <= redDelta THEN "red" ELSE "blue"]

(***************************************************************************)
(* The winners of rounds 1..red+blue once the score is final.  A recorded  *)
(* winner is kept as long as its side still has wins to account for; the   *)
(* other rounds are filled from the last one down, blue first.             *)
(***************************************************************************)
Keeps(recorded, i, side, quota) ==
  /\ recorded[i] = side
  /\ Cardinality({j \in 1..i : recorded[j] = side}) <= quota

AuthoritativeWinners(recorded, score) ==
  LET slots      == 1..Total(score)
      known      == slots \cap DOMAIN recorded
      keptRed    == {i \in known : Keeps(recorded, i, "red", score.red)}
      keptBlue   == {i \in known : Keeps(recorded, i, "blue", score.blue)}
      free       == slots \ (keptRed \cup keptBlue)
      fromTop(i) == Cardinality({j \in free : j >= i})
      blueLeft   == score.blue - Cardinality(keptBlue)
      redLeft    == score.red - Cardinality(keptRed)
  IN  [i \in slots |->
         CASE i \in keptRed                                  -> "red"
           [] i \in keptBlue                                 -> "blue"
           [] i \in free /\ fromTop(i) <= blueLeft           -> "blue"
           [] i \in free /\ fromTop(i) > blueLeft
                         /\ fromTop(i) <= blueLeft + redLeft -> "red"
           [] OTHER                                          -> "draw"]

\* Rounds of a table credited to one side.
WonBy(winners, side) == {i \in DOMAIN winners : winners[i] = side}
=============================================================================
