----------------------------- MODULE ScanWindow -----------------------------
(***************************************************************************)
(* How lark-notifier finds the matches whose cards are out of date.        *)
(* runScanner asks for everything stamped since shortly before its last    *)
(* scan began, in pages ordered by updated_at, while other programs go on  *)
(* writing.  A row is stamped by the program that writes it and can be     *)
(* seen a little later.  The delivery of one card is in LarkCard.          *)
(***************************************************************************)
EXTENDS Integers, FiniteSets, Sequences

CONSTANTS
  MatchCount,   \* matches, in the order of their ids
  PageSize,     \* pageSize
  Overlap,      \* scanOverlap; also how late a stamped row may be seen
  Lookback,     \* startupLookback
  MaxTime,      \* bound on the clock
  MaxWrites,    \* bound on writes
  MaxFaults     \* bound on failed calls and restarts

ASSUME WindowAssumption ==
  /\ PageSize \in Nat \ {0}
  /\ {MatchCount, Overlap, Lookback, MaxTime, MaxWrites, MaxFaults} \subseteq Nat

Matches == 1..MatchCount
Times   == (-Lookback - Overlap - 1)..MaxTime
LongAgo == -Lookback - Overlap - 1     \* outside of the first window

VARIABLES
  now,        \* the clock
  version,    \* what the card of each match ought to show: writes seen so far
  stamps,     \* updated_at of each match row, and of a round, record or clip of it
  writing,    \* rows stamped that cannot be seen yet
  shown,      \* what the card of each match shows
  scan,       \* the scan under way
  lastScan,   \* when the last successful scan began
  writes,
  faults,
  excuses     \* what has happened that may have lost a change

vars == <<now, version, stamps, writing, shown, scan, lastScan, writes, faults, excuses>>

Rows == {"match", "other"}

Stamped == [match : Matches, row : Rows, at : 0..MaxTime]

TypeOK ==
  /\ now \in 0..MaxTime
  /\ version \in [Matches -> Nat]
  /\ stamps \in [Matches -> [Rows -> Times]]
  /\ writing \subseteq Stamped
  /\ shown \in [Matches -> Nat]
  /\ scan \in [at : {"down", "idle", "query", "deliver"}, since : Int, begun : 0..MaxTime,
               offset : 0..MatchCount, page : Seq(Matches), full : BOOLEAN]
  /\ Len(scan.page) <= PageSize
  /\ lastScan \in Times
  /\ writes \in 0..MaxWrites
  /\ faults \in 0..MaxFaults
  /\ excuses \subseteq {"moved", "dropped", "late"}

NoScan(at) == [at |-> at, since |-> 0, begun |-> 0, offset |-> 0, page |-> <<>>,
               full |-> FALSE]

Init ==
  /\ now = 0
  /\ version = [m \in Matches |-> 0]
  /\ stamps = [m \in Matches |-> [r \in Rows |-> LongAgo]]
  /\ writing = {}
  /\ shown = [m \in Matches |-> 0]
  /\ scan = NoScan("idle")
  /\ lastScan = -Lookback
  /\ writes = 0 /\ faults = 0 /\ excuses = {}

Fault == faults < MaxFaults /\ faults' = faults + 1

-----------------------------------------------------------------------------
(* What matchesForWindow selects, at the moment of the query               *)

\* Faulty variant: the window is looked for in the match rows only.
WindowOfMatchRows == {m \in Matches : stamps[m]["match"] >= scan.since}

Window == {m \in Matches : \E r \in Rows : stamps[m][r] >= scan.since}

\* Order(match.ByUpdatedAt(), match.ByID()).
Before(m, n) ==
  \/ stamps[m]["match"] < stamps[n]["match"]
  \/ stamps[m]["match"] = stamps[n]["match"] /\ m < n

\* How many matches come before this one: its offset in the result.
Place(m) == Cardinality({n \in Window : Before(n, m)})

\* matchesForWindow.
Page(offset) ==
  LET rest == Cardinality(Window) - offset
  IN  [i \in 1..(IF rest < PageSize THEN rest ELSE PageSize) |->
         CHOOSE m \in Window : Place(m) = offset + i - 1]

-----------------------------------------------------------------------------
(* The clock and the other programs                                        *)

\* Statements are short, and the clocks of the nodes agree within the overlap.
Tick ==
  /\ now < MaxTime
  /\ \A w \in writing : now < w.at + Overlap
  /\ now' = now + 1
  /\ UNCHANGED <<version, stamps, writing, shown, scan, lastScan, writes, faults, excuses>>

\* The default of updated_at is time.Now of the program that writes.
StampRow(m, row) ==
  /\ writes < MaxWrites
  /\ writes' = writes + 1
  /\ \A w \in writing : <<w.match, w.row>> # <<m, row>>
  /\ writing' = writing \cup {[match |-> m, row |-> row, at |-> now]}
  /\ UNCHANGED <<now, version, stamps, shown, scan, lastScan, faults, excuses>>

\* The places before this one have been fetched.
PlacesFetched == scan.offset + (IF scan.at = "deliver" THEN PageSize ELSE 0)

\* A match whose place has been fetched moves behind the pages to come; the last
\* page, which is not full, has none behind it.
MovesBack(w) ==
  /\ scan.full
  /\ w.row = "match"
  /\ w.match \in Window
  /\ Place(w.match) < PlacesFetched

CommitRow(w) ==
  /\ writing' = writing \ {w}
  /\ stamps' = [stamps EXCEPT ![w.match][w.row] = w.at]
  /\ version' = [version EXCEPT ![w.match] = @ + 1]
  /\ excuses' = excuses \cup (IF MovesBack(w) THEN {"moved"} ELSE {})
  /\ UNCHANGED <<now, shown, scan, lastScan, writes, faults>>

-----------------------------------------------------------------------------
(* runScanner and SyncWindow                                               *)

\* Faulty variant: the window begins where the last scan began.
SinceWithoutOverlap == lastScan

Since == lastScan - Overlap

BeginScan ==
  /\ scan.at = "idle"
  /\ scan' = [NoScan("query") EXCEPT !.since = Since, !.begun = now]
  /\ UNCHANGED <<now, version, stamps, writing, shown, lastScan, writes, faults, excuses>>

QueryPage ==
  /\ scan.at = "query"
  /\ LET page == Page(scan.offset)
     IN  scan' = [scan EXCEPT !.at = "deliver", !.page = page,
                              !.full = Len(page) = PageSize]
  /\ UNCHANGED <<now, version, stamps, writing, shown, lastScan, writes, faults, excuses>>

\* ApplyMatchUpdate reads the match and brings its card up to date.
DeliverMatch ==
  /\ scan.at = "deliver" /\ scan.page # <<>>
  /\ LET m == Head(scan.page) IN shown' = [shown EXCEPT ![m] = version[m]]
  /\ scan' = [scan EXCEPT !.page = Tail(@)]
  /\ UNCHANGED <<now, version, stamps, writing, lastScan, writes, faults, excuses>>

NextPage ==
  /\ scan.at = "deliver" /\ scan.page = <<>> /\ scan.full
  /\ scan' = [scan EXCEPT !.at = "query", !.offset = @ + PageSize]
  /\ UNCHANGED <<now, version, stamps, writing, shown, lastScan, writes, faults, excuses>>

\* Faulty variant: the next window begins where this scan ended.
SucceedAtEnd == scan' = NoScan("idle") /\ lastScan' = now

\* The next window begins where this scan began.
Succeed == scan' = NoScan("idle") /\ lastScan' = scan.begun

FinishScan ==
  /\ scan.at = "deliver" /\ scan.page = <<>> /\ ~scan.full
  /\ Succeed
  /\ UNCHANGED <<now, version, stamps, writing, shown, writes, faults, excuses>>

\* An update that fails is logged, and the scan goes on.
FailDelivery ==
  /\ scan.at = "deliver" /\ scan.page # <<>>
  /\ Fault
  /\ scan' = [scan EXCEPT !.page = Tail(@)]
  /\ excuses' = excuses \cup {"dropped"}
  /\ UNCHANGED <<now, version, stamps, writing, shown, lastScan, writes>>

\* The two minutes of the scan are over: SyncWindow returns nil.
Deadline ==
  /\ scan.at = "deliver" /\ scan.page # <<>>
  /\ Fault
  /\ Succeed
  /\ excuses' = excuses \cup {"dropped"}
  /\ UNCHANGED <<now, version, stamps, writing, shown, writes>>

\* A query fails: the window is tried again.
FailQuery ==
  /\ scan.at = "query"
  /\ Fault
  /\ scan' = NoScan("idle")
  /\ UNCHANGED <<now, version, stamps, writing, shown, lastScan, writes, excuses>>

Crash ==
  /\ scan.at # "down"
  /\ Fault
  /\ scan' = NoScan("down")
  /\ UNCHANGED <<now, version, stamps, writing, shown, lastScan, writes, excuses>>

\* Faulty variant: a notifier begins with what is written from now on.
FirstWindowFromNow == now

\* A notifier that begins to lead looks half an hour back.
FirstWindow == now - Lookback

Restart ==
  /\ scan.at = "down"
  /\ scan' = NoScan("idle")
  /\ lastScan' = FirstWindow
  /\ excuses' = excuses \cup (IF now > lastScan + Lookback THEN {"late"} ELSE {})
  /\ UNCHANGED <<now, version, stamps, writing, shown, writes, faults>>

-----------------------------------------------------------------------------
Scanner == BeginScan \/ QueryPage \/ DeliverMatch \/ NextPage \/ FinishScan \/ Restart

Next ==
  \/ Tick
  \/ \E m \in Matches, row \in Rows : StampRow(m, row)
  \/ \E w \in writing : CommitRow(w)
  \/ Scanner
  \/ FailDelivery \/ Deadline \/ FailQuery \/ Crash

\* The ten-second ticker keeps the notifier scanning, and Kubernetes restarts it.
Spec == Init /\ [][Next]_vars /\ WF_vars(Scanner)

-----------------------------------------------------------------------------
UpToDate(m) == shown[m] = version[m]

StampedSince(m, time) == \E r \in Rows : stamps[m][r] >= time

(***************************************************************************)
(* Every match whose card is out of date lies in the window of the next    *)
(* scan, also when a row was stamped before the last scan and seen after   *)
(* it, the scan under way fails between two pages or the notifier is       *)
(* restarted within half an hour.                                          *)
(***************************************************************************)
WindowCovers ==
  excuses = {} => \A m \in Matches : UpToDate(m) \/ StampedSince(m, Since)

\* The scan under way has yet to come to the match: it is in the page being
\* delivered or at a place behind it.
Ahead(m) ==
  \/ \E i \in DOMAIN scan.page : scan.page[i] = m
  \/ /\ scan.at = "query" \/ scan.full
     /\ m \in Window
     /\ Place(m) >= PlacesFetched

(***************************************************************************)
(* A scan leaves no match out while the rows move under its pages: a match *)
(* whose card is out of date is still ahead of the scan or will be in the  *)
(* window of the next one, unless a delivery was dropped or a match in a   *)
(* place already fetched was written, which moves the others forward.      *)
(***************************************************************************)
ScanCovers ==
  scan.at \in {"query", "deliver"} /\ excuses = {} =>
    \A m \in Matches :
      UpToDate(m) \/ StampedSince(m, scan.begun - Overlap) \/ Ahead(m)

(***************************************************************************)
(* Once the writes have ended every card is up to date, unless a delivery  *)
(* was dropped, the notifier was down for too long, or a match in a place  *)
(* already fetched was written while SyncWindow had pages to come.         *)
(***************************************************************************)
ChangesArrive == <>[](excuses = {} => \A m \in Matches : UpToDate(m))
=============================================================================
