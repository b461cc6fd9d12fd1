----------------------------- MODULE MCLarkCard -----------------------------
(* The budgets with which TLC checks LarkCard.                             *)
EXTENDS LarkCard

\* Two notifiers meet while the leadership changes hands; one is restarted
\* again and again.
BudgetsOfDelivery ==
  {[notifiers |-> Notifiers, change |-> 2, failure |-> 1, crash |-> 1]} \cup
  {[notifiers |-> {n}, change |-> 4, failure |-> 0, crash |-> 3] :
     n \in {CHOOSE n \in Notifiers : TRUE}}
=============================================================================
