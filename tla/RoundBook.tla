----------------------------- MODULE RoundBook -----------------------------
(***************************************************************************)
(* What the scanner promises to those who poll the round rows: the rounds  *)
(* of a match are opened one at a time and in order, and each is closed    *)
(* for good before the next one is opened.                                 *)
(***************************************************************************)
EXTENDS Integers

CONSTANT RoundNos   \* the round numbers, an initial segment of 1, 2, ...

VARIABLE book       \* the status of every round row

BookInit == book = [r \in RoundNos |-> "none"]

Open(r) ==
  /\ \A s \in RoundNos : s < r => book[s] = "ENDED"
  /\ \A s \in RoundNos : s >= r => book[s] = "none"
  /\ book' = [book EXCEPT ![r] = "STARTED"]

Close(r) ==
  /\ book[r] = "STARTED"
  /\ book' = [book EXCEPT ![r] = "ENDED"]

BookNext == \E r \in RoundNos : Open(r) \/ Close(r)

BookSpec == BookInit /\ [][BookNext]_book
=============================================================================
