---------------------------- MODULE MCRoundCapture ----------------------------
(* The rounds for which TLC checks RoundCapture.                           *)
EXTENDS RoundCapture

\* One round is recorded with sound only: more messages are sent than the
\* history query returns, and two things go wrong.  The other has a side role.
RoundsOfCapture ==
  {[roles |-> {Main}, messages |-> Messages, mishaps |-> 2],
   [roles |-> Roles, messages |-> 0, mishaps |-> 1]}

\* A single round with all roles, in which one thing goes wrong.
RoundsOfHang == {[roles |-> Roles, messages |-> Messages, mishaps |-> 1]}
=============================================================================
