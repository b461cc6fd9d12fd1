----------------------------- MODULE Leadership -----------------------------
(***************************************************************************)
(* MatchScan under leader election.  Only the holder of the Kubernetes     *)
(* lease starts a scan, but a controller that stalls past its lease is in  *)
(* the middle of one when another takes over, and its remaining calls      *)
(* arrive among the calls of the new leader: neither PostgreSQL nor Redis  *)
(* checks who writes.                                                      *)
(***************************************************************************)
EXTENDS MatchScan

CONSTANT MaxTakeovers   \* bound on the times the lease changes hands

ASSUME TakeoverAssumption == MaxTakeovers \in Nat

VARIABLES
  leader,     \* holder of the lease
  takeovers   \* times the lease has changed hands

leaseVars == <<vars, leader, takeovers>>

LeaseInit ==
  /\ Init
  /\ leader = CHOOSE c \in Controllers : TRUE
  /\ takeovers = 0

\* To keep the instance small, a takeover meets an undisturbed scan of the
\* current schedule entry after the first game; then the schedule is paced.
Undisturbed ==
  /\ \A kind \in DOMAIN spent : spent[kind] = 0
  /\ cur[leader] = feed
  /\ Total(feed) > 0

\* The lease expires while its holder is in the middle of a scan, and another
\* controller acquires it.
TakeOver(c) ==
  /\ c # leader
  /\ takeovers < MaxTakeovers
  /\ Undisturbed
  /\ ~At(leader, "idle")
  /\ takeovers' = takeovers + 1
  /\ leader' = c
  /\ UNCHANGED vars

\* A step of c's loop: a new scan for the leader, the rest of a scan for anyone.
LoopStep(c) ==
  /\ At(c, "idle") => leader = c
  /\ Scan(c)
  /\ UNCHANGED <<leader, takeovers>>

Disturb ==
  /\ \/ FeedNext
     \/ LoseSnapshot
     \/ \E c \in Controllers : Fail(c)
  /\ takeovers > 0 => /\ spent' = spent
                      /\ feed' # feed => snap = SnapshotOf(feed)
  /\ UNCHANGED <<leader, takeovers>>

LeaseNext == Disturb \/ \E c \in Controllers : TakeOver(c) \/ LoopStep(c)

LeaseSpec ==
  /\ LeaseInit
  /\ [][LeaseNext]_leaseVars
  /\ \A c \in Controllers : WF_leaseVars(LoopStep(c))
=============================================================================
