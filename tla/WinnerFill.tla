----------------------------- MODULE WinnerFill -----------------------------
(***************************************************************************)
(* authoritativeWinners of match-controller as it is written: a loop over  *)
(* the recorded rounds in ascending order, then a loop over the slots from *)
(* the last one down.  Scoring!AuthoritativeWinners, which the scanner     *)
(* model uses, is the closed form of its result.                           *)
(***************************************************************************)
EXTENDS Scoring

\* The locals of the function: out, used, and redUsed and blueUsed.
Untouched(score) ==
  [out      |-> [n \in 1..Total(score) |-> NoWinner],
   used     |-> {},
   credited |-> [side \in Side |-> 0]]

\* A side is credited with a slot while it has wins left.
Accepts(done, score, side) == side \in Side /\ done.credited[side] < score[side]

Credit(done, n, side) ==
  [done EXCEPT !.out[n] = side, !.credited[side] = @ + 1]

\* Faulty variant: an accepted slot is not marked as used.
KeepUnmarked(done, score, n, winner) ==
  IF Accepts(done, score, winner) THEN Credit(done, n, winner) ELSE done

\* The first loop, for round n with the recorded winner.
Keep(done, score, n, winner) ==
  IF Accepts(done, score, winner)
  THEN [Credit(done, n, winner) EXCEPT !.used = @ \cup {n}]
  ELSE done

\* Faulty variant: the free slots are filled from red's wins first.
FillRedFirst(done, score, n) ==
  IF n \in done.used THEN done
  ELSE IF Accepts(done, score, "red") THEN Credit(done, n, "red")
  ELSE IF Accepts(done, score, "blue") THEN Credit(done, n, "blue")
  ELSE [done EXCEPT !.out[n] = "draw"]

\* The second loop, for slot n: the first case that applies.
Fill(done, score, n) ==
  IF n \in done.used THEN done
  ELSE IF Accepts(done, score, "blue") THEN Credit(done, n, "blue")
  ELSE IF Accepts(done, score, "red") THEN Credit(done, n, "red")
  ELSE [done EXCEPT !.out[n] = "draw"]

\* The first loop: what it has done after n rounds.
KeptRounds(recorded, score) ==
  LET kept[n \in 0..Total(score)] ==
        IF n = 0 THEN Untouched(score) ELSE Keep(kept[n - 1], score, n, recorded[n])
  IN  kept

\* The second loop: what it has done after n slots.
FilledSlots(recorded, score) ==
  LET total == Total(score)
      filled[n \in 0..total] ==
        IF n = 0 THEN KeptRounds(recorded, score)[total]
        ELSE Fill(filled[n - 1], score, total - n + 1)
  IN  filled

LoopedWinners(recorded, score) == FilledSlots(recorded, score)[Total(score)].out

\* The table splits the rounds as the official score does.
Splits(table, score) == \A side \in Side : Cardinality(WonBy(table, side)) = score[side]
=============================================================================
