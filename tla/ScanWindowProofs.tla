------------------------- MODULE ScanWindowProofs -------------------------
(***************************************************************************)
(* The pages of a scan and what they leave out, for any number of matches, *)
(* any page size and any number of writes.                                 *)
(***************************************************************************)
EXTENDS ScanWindow, FunctionTheorems, FiniteSetTheorems, TLAPS

LEMMA Constants ==
  /\ PageSize \in Nat /\ PageSize > 0
  /\ MatchCount \in Nat /\ Overlap \in Nat /\ Lookback \in Nat
  /\ MaxTime \in Nat /\ MaxWrites \in Nat /\ MaxFaults \in Nat
  BY WindowAssumption

-----------------------------------------------------------------------------
(* Places: the order of the rows gives each match of the window its own    *)

StampsOK == stamps \in [Matches -> [Rows -> Times]]

LEMMA WindowFinite ==
  /\ Window \subseteq Matches
  /\ IsFiniteSet(Window)
  /\ Cardinality(Window) \in Nat
  /\ Cardinality(Window) <= MatchCount
<1>1. Window \subseteq Matches
  BY DEF Window
<1>2. IsFiniteSet(Matches) /\ Cardinality(Matches) = MatchCount
  BY Constants, FS_Interval DEF Matches
<1>3. IsFiniteSet(Window) /\ Cardinality(Window) <= Cardinality(Matches)
  BY <1>1, <1>2, FS_Subset
<1>4. QED
  BY <1>1, <1>2, <1>3, FS_CardinalityType

\* The rows are in a strict total order.
LEMMA OrderOfRows ==
  ASSUME StampsOK, NEW x \in Matches, NEW y \in Matches, NEW z \in Matches
  PROVE  /\ ~Before(x, x)
         /\ x # y => Before(x, y) \/ Before(y, x)
         /\ Before(x, y) /\ Before(y, z) => Before(x, z)
<1>1. /\ stamps[x]["match"] \in Int /\ stamps[y]["match"] \in Int
      /\ stamps[z]["match"] \in Int
  BY Constants DEF StampsOK, Rows, Times
<1>2. x \in Int /\ y \in Int /\ z \in Int
  BY Constants DEF Matches
<1>3. QED
  BY <1>1, <1>2 DEF Before

Earlier(m) == {n \in Window : Before(n, m)}

LEMMA PlaceType ==
  ASSUME StampsOK, NEW m \in Matches
  PROVE  /\ IsFiniteSet(Earlier(m))
         /\ Place(m) = Cardinality(Earlier(m))
         /\ Place(m) \in Nat
         /\ m \in Window => Place(m) < Cardinality(Window)
<1>1. IsFiniteSet(Earlier(m)) /\ Cardinality(Earlier(m)) \in Nat
  BY WindowFinite, FS_Subset, FS_CardinalityType DEF Earlier
<1>2. Place(m) = Cardinality(Earlier(m))
  BY DEF Place, Earlier
<1>3. ASSUME m \in Window PROVE Place(m) < Cardinality(Window)
  <2>1. m \notin Earlier(m)
    BY OrderOfRows DEF Earlier
  <2>2. Cardinality(Earlier(m) \cup {m}) = Place(m) + 1
    BY <1>1, <1>2, <2>1, FS_AddElement
  <2>3. Earlier(m) \cup {m} \in SUBSET Window
    BY <1>3 DEF Earlier
  <2>4. Cardinality(Earlier(m) \cup {m}) <= Cardinality(Window)
    BY <2>3, WindowFinite, FS_Subset
  <2>5. QED
    BY <1>1, <1>2, <2>2, <2>4, WindowFinite
<1>4. QED
  BY <1>1, <1>2, <1>3

\* A match has a place behind every match of the window that comes before it.
LEMMA PlaceGrows ==
  ASSUME StampsOK, NEW x \in Window, NEW m \in Matches, Before(x, m)
  PROVE  Place(x) + 1 <= Place(m)
<1>0. x \in Matches
  BY WindowFinite
<1>1. /\ IsFiniteSet(Earlier(x)) /\ Place(x) = Cardinality(Earlier(x)) /\ Place(x) \in Nat
      /\ IsFiniteSet(Earlier(m)) /\ Place(m) = Cardinality(Earlier(m)) /\ Place(m) \in Nat
  BY <1>0, PlaceType
<1>2. x \notin Earlier(x)
  BY <1>0, OrderOfRows DEF Earlier
<1>3. Cardinality(Earlier(x) \cup {x}) = Place(x) + 1
  BY <1>1, <1>2, FS_AddElement
<1>4. Earlier(x) \cup {x} \in SUBSET Earlier(m)
  <2>1. ASSUME NEW y \in Earlier(x) PROVE y \in Earlier(m)
    <3>1. y \in Window /\ y \in Matches /\ Before(y, x)
      BY WindowFinite DEF Earlier
    <3>2. Before(y, m)
      BY <1>0, <3>1, OrderOfRows
    <3>3. QED
      BY <3>1, <3>2 DEF Earlier
  <2>2. x \in Earlier(m)
    BY DEF Earlier
  <2>3. QED
    BY <2>1, <2>2
<1>5. Cardinality(Earlier(x) \cup {x}) <= Cardinality(Earlier(m))
  BY <1>1, <1>4, FS_Subset
<1>6. QED
  BY <1>1, <1>3, <1>5

LEMMA PlaceOnce ==
  ASSUME StampsOK, NEW x \in Window, NEW y \in Window, Place(x) = Place(y)
  PROVE  x = y
<1>1. x \in Matches /\ y \in Matches
  BY WindowFinite
<1>2. Place(x) \in Nat /\ Place(y) \in Nat
  BY <1>1, PlaceType
<1>3. Before(x, y) => Place(x) + 1 <= Place(y)
  BY <1>1, PlaceGrows
<1>4. Before(y, x) => Place(y) + 1 <= Place(x)
  BY <1>1, PlaceGrows
<1>5. QED
  BY <1>1, <1>2, <1>3, <1>4, OrderOfRows

\* Every place up to the size of the window is taken.
LEMMA PlaceTaken ==
  ASSUME StampsOK, NEW k \in Nat, k < Cardinality(Window)
  PROVE  \E m \in Window : Place(m) = k
<1> DEFINE places == 0..(Cardinality(Window) - 1)
           place  == [m \in Window |-> Place(m)]
<1>1. Cardinality(Window) \in Nat /\ IsFiniteSet(Window)
  BY WindowFinite
<1>2. IsFiniteSet(places) /\ Cardinality(places) = Cardinality(Window)
  <2>1. 0 \in Int /\ Cardinality(Window) - 1 \in Int
    BY <1>1
  <2>2. IsFiniteSet(places) /\ Cardinality(places) =
          IF 0 > Cardinality(Window) - 1 THEN 0 ELSE Cardinality(Window) - 1 - 0 + 1
    BY <2>1, FS_Interval
  <2>3. QED
    BY <1>1, <2>2
<1>3. place \in [Window -> places]
  <2>1. ASSUME NEW m \in Window PROVE Place(m) \in places
    BY <1>1, WindowFinite, PlaceType
  <2>2. QED
    BY <2>1
<1>4. \A x, y \in Window : place[x] = place[y] => x = y
  BY PlaceOnce
<1>5. place \in Injection(Window, places)
  BY <1>3, <1>4, Fun_IsInj
<1>6. place \in Surjection(Window, places)
  BY <1>2, <1>5, FS_Injection
<1>7. k \in places
  BY <1>1
<1> HIDE DEF place, places
<1>8. \A t \in places : \E m \in Window : place[m] = t
  BY <1>6, Fun_SurjectionProperties
<1> USE DEF place
<1>9. QED
  BY <1>7, <1>8

\* A page holds the matches of the next places.
LEMMA PageHolds ==
  ASSUME StampsOK, NEW offset \in Nat
  PROVE  /\ Page(offset) \in Seq(Matches)
         /\ Len(Page(offset)) <= PageSize
         /\ Len(Page(offset)) = PageSize => offset + PageSize <= MatchCount
         /\ \A m \in Window : Place(m) >= offset =>
              \/ \E i \in DOMAIN Page(offset) : Page(offset)[i] = m
              \/ Len(Page(offset)) = PageSize /\ Place(m) >= offset + PageSize
<1> DEFINE rest == Cardinality(Window) - offset
           size == IF rest < PageSize THEN rest ELSE PageSize
           at(i) == CHOOSE m \in Window : Place(m) = offset + i - 1
<1>1. /\ Cardinality(Window) \in Nat /\ Cardinality(Window) <= MatchCount
      /\ Window \subseteq Matches /\ MatchCount \in Nat
      /\ PageSize \in Nat /\ PageSize > 0 /\ rest \in Int /\ size \in Int
  BY WindowFinite, Constants
<1>2. Page(offset) = [i \in 1..size |-> at(i)]
  BY DEF Page
<1>3. \A i \in 1..size : at(i) \in Window /\ Place(at(i)) = offset + i - 1
  <2>1. TAKE i \in 1..size
  <2>2. offset + i - 1 \in Nat /\ offset + i - 1 < Cardinality(Window)
    BY <1>1
  <2>3. \E m \in Window : Place(m) = offset + i - 1
    BY <2>2, PlaceTaken
  <2>4. QED
    BY <2>3
<1> HIDE DEF at
<1>4. Page(offset) \in [1..size -> Matches]
  BY <1>1, <1>2, <1>3
<1>5. CASE size < 0
  <2>1. Page(offset) = <<>>
    <3>1. 1..size = {}
      BY <1>1, <1>5
    <3>2. QED
      BY <1>2, <3>1
  <2>2. ASSUME NEW m \in Window, Place(m) >= offset PROVE FALSE
    <3>1. m \in Matches /\ Place(m) \in Nat /\ Place(m) < Cardinality(Window)
      BY WindowFinite, PlaceType
    <3>2. QED
      BY <1>1, <1>5, <2>2, <3>1
  <2>3. QED
    BY <1>1, <2>1, <2>2
<1>6. CASE size >= 0
  <2>1. size \in Nat /\ size <= PageSize
    BY <1>1, <1>6
  <2>2. Page(offset) \in Seq(Matches) /\ Len(Page(offset)) = size
        /\ DOMAIN Page(offset) = 1..size
    BY <1>4, <2>1
  <2>3. size = PageSize => offset + PageSize <= Cardinality(Window)
    BY <1>1, <2>1
  <2>4. ASSUME NEW m \in Window, Place(m) >= offset
        PROVE  \/ \E i \in DOMAIN Page(offset) : Page(offset)[i] = m
               \/ Len(Page(offset)) = PageSize /\ Place(m) >= offset + PageSize
    <3>1. m \in Matches /\ Place(m) \in Nat /\ Place(m) < Cardinality(Window)
      BY WindowFinite, PlaceType
    <3>2. CASE Place(m) < offset + size
      <4> DEFINE i == Place(m) - offset + 1
      <4>1. i \in 1..size /\ offset + i - 1 = Place(m)
        BY <2>1, <2>4, <3>1, <3>2
      <4>2. at(i) \in Window /\ Place(at(i)) = Place(m)
        BY <1>3, <4>1
      <4>3. at(i) = m
        BY <4>2, PlaceOnce
      <4>4. QED
        BY <1>2, <2>2, <4>1, <4>3
    <3>3. CASE Place(m) >= offset + size
      <4>1. size = PageSize
        BY <1>1, <2>1, <3>1, <3>3
      <4>2. QED
        BY <2>2, <3>3, <4>1
    <3>4. QED
      BY <2>1, <3>1, <3>2, <3>3
  <2>5. QED
    BY <1>1, <2>1, <2>2, <2>3, <2>4
<1>7. QED
  BY <1>1, <1>5, <1>6

-----------------------------------------------------------------------------
(* Types, the clock and the scan under way                                 *)

Scanning == scan.at \in {"query", "deliver"}

\* A row is seen within the overlap of its stamp, a scan looks from the overlap
\* before the last one, and the pages fetched so far were full.
ScanTimes ==
  /\ \A w \in writing : w.at <= now /\ now <= w.at + Overlap
  /\ lastScan <= now
  /\ Scanning => scan.since = Since /\ lastScan <= scan.begun /\ scan.begun <= now
  /\ scan.at = "query" => scan.page = <<>>
  /\ scan.at = "query" /\ ~scan.full => scan.offset = 0
  /\ scan.at = "deliver" /\ scan.full => scan.offset + PageSize <= MatchCount

TypeInv == TypeOK /\ ScanTimes

ScanRecord ==
  [at : {"down", "idle", "query", "deliver"}, since : Int, begun : 0..MaxTime,
   offset : 0..MatchCount, page : Seq(Matches), full : BOOLEAN]

LEMMA NoScanType ==
  ASSUME NEW at \in {"down", "idle", "query", "deliver"}
  PROVE  /\ NoScan(at) \in ScanRecord
         /\ NoScan(at).at = at /\ NoScan(at).page = <<>> /\ ~NoScan(at).full
         /\ NoScan(at).offset = 0 /\ Len(NoScan(at).page) <= PageSize
  BY Constants DEF NoScan, ScanRecord

LEMMA InitTypes == Init => TypeInv
<1> SUFFICES ASSUME Init PROVE TypeInv
  OBVIOUS
<1> USE Constants
<1>1. scan \in ScanRecord /\ Len(scan.page) <= PageSize /\ scan.at = "idle"
  BY NoScanType DEF Init
<1>2. stamps \in [Matches -> [Rows -> Times]] /\ lastScan \in Times
  BY DEF Init, Times, LongAgo
<1>3. TypeOK
  BY <1>1, <1>2 DEF Init, TypeOK, ScanRecord
<1>4. ScanTimes
  BY <1>1 DEF Init, ScanTimes, Scanning
<1>5. QED
  BY <1>3, <1>4 DEF TypeInv

\* A step that leaves the scan, the clock and the rows being written alone.
LEMMA ScanTimesStay ==
  ASSUME ScanTimes, UNCHANGED <<now, scan, lastScan>>, writing' \subseteq writing
  PROVE  ScanTimes'
  BY DEF ScanTimes, Scanning, Since

\* A scan that ends, or is given up, leaves nothing of it behind.
LEMMA ScanEnds ==
  ASSUME TypeInv, NEW at \in {"down", "idle"}, scan' = NoScan(at),
         lastScan' \in Times, lastScan' <= now,
         UNCHANGED <<now, writing>>
  PROVE  /\ ScanTimes'
         /\ scan' \in ScanRecord /\ Len(scan'.page) <= PageSize
<1>1. /\ scan' \in ScanRecord /\ Len(scan'.page) <= PageSize
      /\ scan'.at = at /\ ~scan'.full
  BY NoScanType
<1>2. ScanTimes'
  BY <1>1 DEF TypeInv, ScanTimes, Scanning
<1>3. QED
  BY <1>1, <1>2

LEMMA TickTypes == TypeInv /\ Tick => TypeInv'
<1> SUFFICES ASSUME TypeInv, Tick PROVE TypeInv'
  OBVIOUS
<1> USE Constants
<1>1. TypeOK'
  BY DEF TypeInv, TypeOK, Tick
<1>2. /\ now \in Int /\ now' = now + 1 /\ lastScan \in Int /\ scan.begun \in Int
      /\ \A w \in writing : w.at \in Int
      /\ UNCHANGED <<writing, scan, lastScan>>
  BY DEF TypeInv, TypeOK, Tick, Times, Stamped
<1>3. \A w \in writing' : w.at <= now' /\ now' <= w.at + Overlap
  BY <1>2 DEF TypeInv, ScanTimes, Tick
<1>4. ScanTimes'
  BY <1>2, <1>3 DEF TypeInv, ScanTimes, Scanning, Since
<1>5. QED
  BY <1>1, <1>4 DEF TypeInv

LEMMA StampTypes ==
  ASSUME TypeInv, NEW m \in Matches, NEW row \in Rows, StampRow(m, row)
  PROVE  TypeInv'
<1> USE Constants
<1>1. now \in 0..MaxTime /\ UNCHANGED <<now, scan, lastScan>>
  BY DEF TypeInv, TypeOK, StampRow
<1>2. [match |-> m, row |-> row, at |-> now] \in Stamped
  BY <1>1 DEF Stamped
<1>3. TypeOK'
  BY <1>2 DEF TypeInv, TypeOK, StampRow
<1>4. \A w \in writing' : w.at <= now' /\ now' <= w.at + Overlap
  <2>1. TAKE w \in writing'
  <2>2. CASE w \in writing
    BY <1>1, <2>2 DEF TypeInv, ScanTimes
  <2>3. CASE w = [match |-> m, row |-> row, at |-> now]
    BY <1>1, <2>3
  <2>4. QED
    BY <2>2, <2>3 DEF StampRow
<1>5. ScanTimes'
  BY <1>1, <1>4 DEF TypeInv, ScanTimes, Scanning, Since
<1>6. QED
  BY <1>3, <1>5 DEF TypeInv

LEMMA CommitTypes ==
  ASSUME TypeInv, NEW w \in writing, CommitRow(w)
  PROVE  TypeInv'
<1> USE Constants
<1>1. w.match \in Matches /\ w.row \in Rows /\ w.at \in Times
  BY DEF TypeInv, TypeOK, Stamped, Times
<1>2. /\ stamps' \in [Matches -> [Rows -> Times]]
      /\ version' \in [Matches -> Nat]
  BY <1>1 DEF TypeInv, TypeOK, CommitRow
<1>3. excuses' \subseteq {"moved", "dropped", "late"}
  BY DEF TypeInv, TypeOK, CommitRow
<1>4. TypeOK'
  BY <1>2, <1>3 DEF TypeInv, TypeOK, CommitRow
<1>5. ScanTimes'
  BY ScanTimesStay DEF TypeInv, CommitRow
<1>6. QED
  BY <1>4, <1>5 DEF TypeInv

LEMMA BeginTypes == TypeInv /\ BeginScan => TypeInv'
<1> SUFFICES ASSUME TypeInv, BeginScan PROVE TypeInv'
  OBVIOUS
<1> USE Constants
<1>1. NoScan("query") \in ScanRecord
  BY NoScanType
<1>2. lastScan \in Int /\ now \in 0..MaxTime /\ Since \in Int
  BY DEF TypeInv, TypeOK, Times, Since
<1>3. scan' = [NoScan("query") EXCEPT !.since = Since, !.begun = now]
  BY DEF BeginScan
<1>4. /\ scan' \in ScanRecord /\ Len(scan'.page) <= PageSize
      /\ scan'.at = "query" /\ scan'.page = <<>> /\ scan'.offset = 0
      /\ scan'.since = Since /\ scan'.begun = now
  BY <1>1, <1>2, <1>3, NoScanType DEF ScanRecord
<1>5. TypeOK'
  BY <1>4 DEF TypeInv, TypeOK, BeginScan, ScanRecord
<1>6. ScanTimes'
  BY <1>2, <1>4 DEF TypeInv, ScanTimes, Scanning, BeginScan, Since
<1>7. QED
  BY <1>5, <1>6 DEF TypeInv

\* What the query of a page leaves in the scan.
LEMMA Queried ==
  ASSUME TypeInv, QueryPage
  PROVE  /\ StampsOK /\ scan.offset \in Nat
         /\ scan' \in ScanRecord /\ Len(scan'.page) <= PageSize
         /\ scan.at = "query" /\ scan'.at = "deliver" /\ scan'.page = Page(scan.offset)
         /\ scan'.full <=> Len(Page(scan.offset)) = PageSize
         /\ scan'.offset = scan.offset /\ scan'.since = scan.since
         /\ scan'.begun = scan.begun
<1> USE Constants
<1>1. StampsOK /\ scan \in ScanRecord /\ scan.offset \in Nat /\ scan.at = "query"
  BY DEF TypeInv, TypeOK, StampsOK, ScanRecord, QueryPage
<1>2. /\ Page(scan.offset) \in Seq(Matches) /\ Len(Page(scan.offset)) <= PageSize
  BY <1>1, PageHolds
<1>3. scan' = [scan EXCEPT !.at = "deliver", !.page = Page(scan.offset),
                           !.full = Len(Page(scan.offset)) = PageSize]
  BY DEF QueryPage
<1>4. QED
  BY <1>1, <1>2, <1>3 DEF ScanRecord

LEMMA QueryTypes == TypeInv /\ QueryPage => TypeInv'
<1> SUFFICES ASSUME TypeInv, QueryPage PROVE TypeInv'
  OBVIOUS
<1>1. TypeOK'
  BY Queried DEF TypeInv, TypeOK, QueryPage, ScanRecord
<1>2. scan'.full => scan'.offset + PageSize <= MatchCount
  BY Queried, PageHolds
<1>3. ScanTimes'
  BY <1>2, Queried DEF TypeInv, ScanTimes, Scanning, QueryPage, Since
<1>4. QED
  BY <1>1, <1>3 DEF TypeInv

\* The page without its first match.
LEMMA PageShrinks ==
  ASSUME TypeInv, scan.at = "deliver", scan.page # <<>>,
         scan' = [scan EXCEPT !.page = Tail(@)],
         UNCHANGED <<now, lastScan, writing>>
  PROVE  /\ scan' \in ScanRecord /\ Len(scan'.page) <= PageSize
         /\ Head(scan.page) \in Matches
         /\ \A i \in DOMAIN scan.page :
              scan.page[i] = Head(scan.page)
              \/ \E j \in DOMAIN scan'.page : scan'.page[j] = scan.page[i]
         /\ scan'.at = scan.at /\ scan'.full = scan.full /\ scan'.offset = scan.offset
         /\ scan'.since = scan.since /\ scan'.begun = scan.begun
         /\ ScanTimes'
<1> USE Constants
<1>1. scan \in ScanRecord /\ scan.page \in Seq(Matches) /\ Len(scan.page) <= PageSize
  BY DEF TypeInv, TypeOK, ScanRecord
<1>2. /\ Tail(scan.page) \in Seq(Matches) /\ Head(scan.page) \in Matches
      /\ Len(Tail(scan.page)) = Len(scan.page) - 1 /\ Len(scan.page) \in Nat
      /\ \A i \in 1..Len(Tail(scan.page)) : Tail(scan.page)[i] = scan.page[i + 1]
      /\ Head(scan.page) = scan.page[1]
  BY <1>1
<1>3. /\ scan' \in ScanRecord /\ scan'.page = Tail(scan.page)
      /\ scan'.at = scan.at /\ scan'.full = scan.full /\ scan'.offset = scan.offset
      /\ scan'.since = scan.since /\ scan'.begun = scan.begun
  BY <1>1, <1>2 DEF ScanRecord
<1>4. ASSUME NEW i \in DOMAIN scan.page, scan.page[i] # Head(scan.page)
      PROVE  \E j \in DOMAIN scan'.page : scan'.page[j] = scan.page[i]
  <2>1. i \in 1..Len(scan.page) /\ i # 1
    BY <1>1, <1>2, <1>4
  <2>2. i - 1 \in 1..Len(Tail(scan.page)) /\ (i - 1) + 1 = i
    <3>1. Len(scan.page) \in Nat /\ Len(Tail(scan.page)) = Len(scan.page) - 1
      BY <1>2
    <3>2. \A n \in Nat : i \in 1..n /\ i # 1 => i - 1 \in 1..(n - 1) /\ (i - 1) + 1 = i
      OBVIOUS
    <3>3. QED
      BY <2>1, <3>1, <3>2
  <2>3. Tail(scan.page)[i - 1] = scan.page[i]
    BY <1>2, <2>2
  <2>4. i - 1 \in DOMAIN Tail(scan.page)
    BY <1>2, <2>2
  <2>5. QED
    BY <1>3, <2>3, <2>4
<1>5. ScanTimes'
  BY <1>3 DEF TypeInv, ScanTimes, Scanning, Since
<1>6. QED
  BY <1>1, <1>2, <1>3, <1>4, <1>5

LEMMA DeliverTypes == TypeInv /\ DeliverMatch => TypeInv'
<1> SUFFICES ASSUME TypeInv, DeliverMatch PROVE TypeInv'
  OBVIOUS
<1>1. /\ scan' \in ScanRecord /\ Len(scan'.page) <= PageSize /\ ScanTimes'
      /\ Head(scan.page) \in Matches
  BY PageShrinks DEF DeliverMatch
<1>2. shown' \in [Matches -> Nat]
  BY <1>1 DEF TypeInv, TypeOK, DeliverMatch
<1>3. TypeOK'
  BY <1>1, <1>2 DEF TypeInv, TypeOK, DeliverMatch, ScanRecord
<1>4. QED
  BY <1>1, <1>3 DEF TypeInv

LEMMA NextPageTypes == TypeInv /\ NextPage => TypeInv'
<1> SUFFICES ASSUME TypeInv, NextPage PROVE TypeInv'
  OBVIOUS
<1> USE Constants
<1>1. scan \in ScanRecord /\ scan.offset \in Nat /\ scan.offset + PageSize <= MatchCount
  BY DEF TypeInv, TypeOK, ScanRecord, ScanTimes, NextPage
<1>2. scan.offset + PageSize \in 0..MatchCount
  BY <1>1
<1>3. scan' = [scan EXCEPT !.at = "query", !.offset = scan.offset + PageSize]
  BY DEF NextPage
<1>4. /\ scan' \in ScanRecord /\ scan'.at = "query" /\ scan'.full /\ scan'.page = <<>>
      /\ scan'.since = scan.since /\ scan'.begun = scan.begun
  BY <1>1, <1>2, <1>3 DEF ScanRecord, NextPage
<1>5. TypeOK'
  BY <1>4 DEF TypeInv, TypeOK, NextPage, ScanRecord
<1>6. ScanTimes'
  BY <1>4 DEF TypeInv, ScanTimes, Scanning, NextPage, Since
<1>7. QED
  BY <1>5, <1>6 DEF TypeInv

LEMMA FinishTypes ==
  ASSUME TypeInv, Succeed, scan.at = "deliver",
         UNCHANGED <<now, version, stamps, writing, shown, writes>>,
         faults' \in 0..MaxFaults, excuses' \subseteq {"moved", "dropped", "late"}
  PROVE  TypeInv'
<1>1. /\ scan' = NoScan("idle") /\ lastScan' = scan.begun
      /\ scan.begun \in 0..MaxTime /\ scan.begun <= now
  BY DEF TypeInv, TypeOK, ScanTimes, Scanning, Succeed
<1>2. lastScan' \in Times
  BY <1>1, Constants DEF Times
<1>3. ScanTimes' /\ scan' \in ScanRecord /\ Len(scan'.page) <= PageSize
  BY <1>1, <1>2, ScanEnds
<1>4. TypeOK'
  BY <1>2, <1>3 DEF TypeInv, TypeOK, ScanRecord
<1>5. QED
  BY <1>3, <1>4 DEF TypeInv

LEMMA FaultType ==
  TypeInv /\ Fault => faults' \in 0..MaxFaults
  BY Constants DEF TypeInv, TypeOK, Fault

LEMMA FailDeliveryTypes == TypeInv /\ FailDelivery => TypeInv'
<1> SUFFICES ASSUME TypeInv, FailDelivery PROVE TypeInv'
  OBVIOUS
<1>1. /\ scan' \in ScanRecord /\ Len(scan'.page) <= PageSize /\ ScanTimes'
  BY PageShrinks DEF FailDelivery
<1>2. faults' \in 0..MaxFaults
  BY FaultType DEF FailDelivery
<1>3. TypeOK'
  BY <1>1, <1>2 DEF TypeInv, TypeOK, FailDelivery, ScanRecord
<1>4. QED
  BY <1>1, <1>3 DEF TypeInv

\* The scan is given up and the window stays where it was.
LEMMA AbandonTypes ==
  ASSUME TypeInv, NEW at \in {"down", "idle"}, scan' = NoScan(at), Fault,
         UNCHANGED <<now, version, stamps, writing, shown, lastScan, writes, excuses>>
  PROVE  TypeInv'
<1>1. lastScan' \in Times /\ lastScan' <= now
  BY DEF TypeInv, TypeOK, ScanTimes
<1>2. ScanTimes' /\ scan' \in ScanRecord /\ Len(scan'.page) <= PageSize
  BY <1>1, ScanEnds
<1>3. faults' \in 0..MaxFaults
  BY FaultType
<1>4. TypeOK'
  BY <1>1, <1>2, <1>3 DEF TypeInv, TypeOK, ScanRecord
<1>5. QED
  BY <1>2, <1>4 DEF TypeInv

LEMMA RestartTypes == TypeInv /\ Restart => TypeInv'
<1> SUFFICES ASSUME TypeInv, Restart PROVE TypeInv'
  OBVIOUS
<1>1. now \in 0..MaxTime /\ lastScan' = now - Lookback
  BY DEF TypeInv, TypeOK, Restart, FirstWindow
<1>2. lastScan' \in Times /\ lastScan' <= now
  BY <1>1, Constants DEF Times
<1>3. ScanTimes' /\ scan' \in ScanRecord /\ Len(scan'.page) <= PageSize
  BY <1>2, ScanEnds DEF Restart
<1>4. excuses' \subseteq {"moved", "dropped", "late"}
  BY DEF TypeInv, TypeOK, Restart
<1>5. TypeOK'
  BY <1>2, <1>3, <1>4 DEF TypeInv, TypeOK, Restart, ScanRecord
<1>6. QED
  BY <1>3, <1>5 DEF TypeInv

LEMMA StepTypes == TypeInv /\ [Next]_vars => TypeInv'
<1> SUFFICES ASSUME TypeInv, [Next]_vars PROVE TypeInv'
  OBVIOUS
<1>1. ASSUME NEW m \in Matches, NEW row \in Rows, StampRow(m, row) PROVE TypeInv'
  BY <1>1, StampTypes
<1>2. ASSUME NEW w \in writing, CommitRow(w) PROVE TypeInv'
  BY <1>2, CommitTypes
<1>3. CASE FinishScan
  BY <1>3, FinishTypes DEF FinishScan, TypeInv, TypeOK
<1>4. CASE Deadline
  <2>1. faults' \in 0..MaxFaults
    BY <1>4, FaultType DEF Deadline
  <2>2. excuses' \subseteq {"moved", "dropped", "late"}
    BY <1>4 DEF Deadline, TypeInv, TypeOK
  <2>3. QED
    BY <1>4, <2>1, <2>2, FinishTypes DEF Deadline
<1>5. CASE FailQuery \/ Crash
  BY <1>5, AbandonTypes DEF FailQuery, Crash
<1>6. CASE UNCHANGED vars
  BY <1>6 DEF vars, TypeInv, TypeOK, ScanTimes, Scanning, Since
<1>7. QED
  BY <1>1, <1>2, <1>3, <1>4, <1>5, <1>6, TickTypes, BeginTypes, QueryTypes,
     DeliverTypes, NextPageTypes, FailDeliveryTypes, RestartTypes DEF Next, Scanner

(***************************************************************************)
(* SyncWindow delivers pages of at most pageSize matches that exist, stops *)
(* behind the last match, and the windows it asks for never begin after    *)
(* the present.                                                            *)
(***************************************************************************)
THEOREM WindowTypes == Spec => []TypeOK
<1>1. TypeInv => TypeOK
  BY DEF TypeInv
<1>2. QED
  BY <1>1, InitTypes, StepTypes, PTL DEF Spec

-----------------------------------------------------------------------------
(* What the window and the scan leave out                                  *)

WindowInv == TypeInv /\ WindowCovers /\ ScanCovers

LEMMA StampTimes ==
  ASSUME TypeInv, NEW m \in Matches, NEW r \in Rows
  PROVE  stamps[m][r] \in Int
  BY Constants DEF TypeInv, TypeOK, Times

\* A window that begins earlier holds at least as much.
LEMMA WiderWindow ==
  ASSUME TypeInv, NEW m \in Matches, NEW s \in Int, NEW t \in Int, s <= t,
         StampedSince(m, t)
  PROVE  StampedSince(m, s)
<1>1. PICK r \in Rows : stamps[m][r] >= t
  BY DEF StampedSince
<1>2. stamps[m][r] >= s
  BY <1>1, StampTimes
<1>3. QED
  BY <1>2 DEF StampedSince

LEMMA WindowIs ==
  TypeInv /\ Scanning => \A m \in Matches : m \in Window <=> StampedSince(m, Since)
  BY DEF TypeInv, ScanTimes, Window, StampedSince

\* While no row is seen the window and its order stay.
LEMMA PlacesStay ==
  ASSUME UNCHANGED stamps, scan'.since = scan.since
  PROVE  Window' = Window /\ \A m \in Matches : Place(m)' = Place(m)
<1>1. Window' = Window
  BY DEF Window
<1>2. \A m, n \in Matches : Before(n, m)' <=> Before(n, m)
  BY DEF Before
<1>3. ASSUME NEW m \in Matches
      PROVE  {n \in Window : Before(n, m)}' = {n \in Window : Before(n, m)}
  BY <1>1, <1>2, WindowFinite
<1>4. QED
  BY <1>1, <1>3 DEF Place

LEMMA InitWindow == Init => WindowCovers /\ ScanCovers
  BY NoScanType DEF Init, WindowCovers, ScanCovers, UpToDate

\* A row that is seen has been stamped within the overlap of every scan since.
LEMMA SeenIsRecent ==
  ASSUME TypeInv, NEW w \in writing, CommitRow(w)
  PROVE  /\ w.match \in Matches /\ w.row \in Rows
         /\ StampedSince(w.match, Since)'
         /\ Scanning => StampedSince(w.match, scan.begun - Overlap)'
<1> USE Constants
<1>1. /\ w.match \in Matches /\ w.row \in Rows /\ w.at \in Int /\ now \in Int
      /\ now <= w.at + Overlap /\ lastScan <= now /\ lastScan \in Int
      /\ scan.begun \in Int /\ (Scanning => scan.begun <= now)
  <2>1. w \in Stamped
    BY DEF TypeInv, TypeOK
  <2>2. w.match \in Matches /\ w.row \in Rows /\ w.at \in Int
    BY <2>1 DEF Stamped
  <2>3. now \in Int /\ lastScan \in Int /\ scan.begun \in Int
    BY DEF TypeInv, TypeOK, Times
  <2>4. QED
    BY <2>2, <2>3 DEF TypeInv, ScanTimes
<1>2. stamps'[w.match][w.row] = w.at
  BY <1>1 DEF TypeInv, TypeOK, CommitRow
<1>3. Since' = lastScan - Overlap /\ scan' = scan
  BY DEF CommitRow, Since
<1>4. w.at >= lastScan - Overlap /\ (Scanning => w.at >= scan.begun - Overlap)
  BY <1>1
<1>5. QED
  BY <1>1, <1>2, <1>3, <1>4 DEF StampedSince

\* The rows of the other matches stay as they are.
LEMMA OthersStay ==
  ASSUME TypeInv, NEW w \in writing, CommitRow(w), NEW m \in Matches, m # w.match
  PROVE  /\ UpToDate(m)' <=> UpToDate(m)
         /\ stamps'[m] = stamps[m]
         /\ \A t \in Int : StampedSince(m, t)' <=> StampedSince(m, t)
         /\ m \in Window' <=> m \in Window
<1>1. w.match \in Matches /\ w.row \in Rows
  BY DEF TypeInv, TypeOK, Stamped
<1>2. stamps'[m] = stamps[m] /\ version'[m] = version[m] /\ shown' = shown /\ scan' = scan
  BY <1>1 DEF TypeInv, TypeOK, CommitRow
<1>3. QED
  BY <1>2 DEF UpToDate, StampedSince, Window

\* A row that is seen moves another match forward by one place at most, and
\* only if it was the row of a match at an earlier place.
LEMMA PlaceAfterCommit ==
  ASSUME TypeInv, Scanning,
         NEW w \in writing, CommitRow(w), NEW m \in Matches, m # w.match
  PROVE  /\ Place(m) \in Nat /\ Place(m)' \in Nat
         /\ \/ Place(m)' >= Place(m)
            \/ /\ w.row = "match" /\ w.match \in Window
               /\ Place(w.match) < Place(m) /\ Place(w.match) \in Nat
               /\ Place(m)' >= Place(m) - 1
<1> DEFINE later == {n \in Window' : Before(n, m)'}
<1>0. StampsOK /\ w.match \in Matches /\ w.row \in Rows
  BY DEF TypeInv, TypeOK, StampsOK, Stamped
<1>1. /\ IsFiniteSet(Earlier(m)) /\ Place(m) = Cardinality(Earlier(m)) /\ Place(m) \in Nat
  BY <1>0, PlaceType
<1>2. Place(m)' = Cardinality(later)
  BY DEF Place
<1>3. IsFiniteSet(later) /\ Cardinality(later) \in Nat
  <2>1. later \subseteq Matches
    BY DEF Window
  <2>2. IsFiniteSet(Matches)
    BY Constants, FS_Interval DEF Matches
  <2>3. QED
    BY <2>1, <2>2, FS_Subset, FS_CardinalityType
<1>4. \A n \in Window : n # w.match /\ Before(n, m) => n \in later
  <2>1. TAKE n \in Window
  <2>2. HAVE n # w.match /\ Before(n, m)
  <2>3. n \in Matches
    BY WindowFinite
  <2>4. stamps'[n] = stamps[n] /\ stamps'[m] = stamps[m] /\ n \in Window'
    BY <2>2, <2>3, OthersStay
  <2>5. QED
    BY <2>2, <2>4 DEF Before
<1>5. CASE w.match \notin Earlier(m)
  <2>1. Earlier(m) \in SUBSET later
    BY <1>4, <1>5 DEF Earlier
  <2>2. Cardinality(Earlier(m)) <= Cardinality(later)
    BY <1>3, <2>1, FS_Subset
  <2>3. QED
    BY <1>1, <1>2, <1>3, <2>2
<1>6. CASE w.match \in Earlier(m) /\ w.row = "match"
  <2>1. Earlier(m) \ {w.match} \in SUBSET later
    BY <1>4 DEF Earlier
  <2>2. Cardinality(Earlier(m) \ {w.match}) = Cardinality(Earlier(m)) - 1
    BY <1>1, <1>6, FS_RemoveElement
  <2>3. Cardinality(Earlier(m) \ {w.match}) <= Cardinality(later)
    BY <1>3, <2>1, FS_Subset
  <2>4. w.match \in Window /\ Before(w.match, m)
    BY <1>6 DEF Earlier
  <2>5. Place(w.match) + 1 <= Place(m) /\ Place(w.match) \in Nat
    BY <1>0, <2>4, PlaceGrows, PlaceType
  <2>6. QED
    BY <1>1, <1>2, <1>3, <1>6, <2>2, <2>3, <2>4, <2>5
<1>7. CASE w.match \in Earlier(m) /\ w.row # "match"
  <2>1. w.match \in Window /\ Before(w.match, m)
    BY <1>7 DEF Earlier
  <2>2. stamps'[w.match]["match"] = stamps[w.match]["match"]
    BY <1>0, <1>7 DEF CommitRow, StampsOK, Rows
  <2>3. stamps'[m] = stamps[m]
    BY OthersStay
  <2>4. Before(w.match, m)'
    BY <2>1, <2>2, <2>3 DEF Before
  <2>5. w.match \in Window'
    <3>1. StampedSince(w.match, Since)'
      BY SeenIsRecent
    <3>2. scan'.since = Since'
      BY DEF TypeInv, ScanTimes, CommitRow, Since
    <3>3. QED
      BY <1>0, <3>1, <3>2 DEF Window, StampedSince
  <2>6. Earlier(m) \in SUBSET later
    BY <1>4, <2>4, <2>5 DEF Earlier
  <2>7. Cardinality(Earlier(m)) <= Cardinality(later)
    BY <1>3, <2>6, FS_Subset
  <2>8. QED
    BY <1>1, <1>2, <1>3, <2>7
<1>8. QED
  BY <1>5, <1>6, <1>7

LEMMA CommitWindow ==
  ASSUME WindowInv, NEW w \in writing, CommitRow(w)
  PROVE  WindowCovers' /\ ScanCovers'
<1> USE DEF WindowInv
<1>1. /\ w.match \in Matches /\ StampedSince(w.match, Since)'
      /\ Scanning => StampedSince(w.match, scan.begun - Overlap)'
  BY SeenIsRecent
<1>2. /\ scan' = scan /\ lastScan' = lastScan /\ Since' = Since
      /\ excuses' = {} => excuses = {} /\ ~MovesBack(w)
      /\ Since \in Int /\ scan.begun - Overlap \in Int /\ scan.offset \in Nat
      /\ PlacesFetched \in Nat /\ PlacesFetched' = PlacesFetched
  BY Constants DEF CommitRow, Since, TypeInv, TypeOK, Times, PlacesFetched
<1>3. WindowCovers'
  <2>1. SUFFICES ASSUME excuses' = {}, NEW m \in Matches
                 PROVE  UpToDate(m)' \/ StampedSince(m, Since)'
    BY DEF WindowCovers
  <2>2. CASE m = w.match
    BY <1>1, <2>2
  <2>3. CASE m # w.match
    <3>1. UpToDate(m) \/ StampedSince(m, Since)
      BY <1>2, <2>1 DEF WindowCovers
    <3>2. UpToDate(m)' \/ StampedSince(m, Since)' \/ stamps'[m] = stamps[m]
      BY <2>3, OthersStay
    <3>3. stamps'[m] = stamps[m] /\ (UpToDate(m)' <=> UpToDate(m))
      BY <2>3, OthersStay
    <3>4. QED
      BY <1>2, <3>1, <3>3 DEF StampedSince
  <2>4. QED
    BY <2>2, <2>3
<1>4. ScanCovers'
  <2>1. SUFFICES ASSUME Scanning, excuses' = {}, NEW m \in Matches
                 PROVE  \/ UpToDate(m)'
                        \/ StampedSince(m, scan.begun - Overlap)'
                        \/ Ahead(m)'
    BY <1>2 DEF ScanCovers, Scanning
  <2>2. CASE m = w.match
    BY <1>1, <2>1, <2>2
  <2>3. CASE m # w.match
    <3>1. UpToDate(m) \/ StampedSince(m, scan.begun - Overlap) \/ Ahead(m)
      BY <1>2, <2>1 DEF ScanCovers, Scanning
    <3>2. /\ stamps'[m] = stamps[m] /\ (UpToDate(m)' <=> UpToDate(m))
          /\ m \in Window' <=> m \in Window
      BY <2>3, OthersStay
    <3>3. StampedSince(m, scan.begun - Overlap)' <=> StampedSince(m, scan.begun - Overlap)
      BY <1>2, <3>2 DEF StampedSince
    <3>4. ASSUME scan.at = "query" \/ scan.full, m \in Window, Place(m) >= PlacesFetched
          PROVE  Place(m)' >= PlacesFetched
      <4>1. CASE scan.full
        <5>1. w.row = "match" /\ w.match \in Window /\ Place(w.match) \in Nat
                => Place(w.match) >= PlacesFetched
          BY <1>2, <2>1, <4>1 DEF MovesBack
        <5>2. QED
          BY <1>2, <2>1, <2>3, <3>4, <5>1, PlaceAfterCommit
      <4>2. CASE scan.at = "query" /\ ~scan.full
        <5>1. PlacesFetched = 0
          BY <4>2 DEF PlacesFetched, TypeInv, ScanTimes
        <5>2. QED
          BY <2>1, <2>3, <5>1, PlaceAfterCommit
      <4>3. QED
        BY <3>4, <4>1, <4>2
    <3>5. Ahead(m) => Ahead(m)'
      BY <1>2, <3>2, <3>4 DEF Ahead
    <3>6. QED
      BY <3>1, <3>2, <3>3, <3>5
  <2>4. QED
    BY <2>2, <2>3
<1>5. QED
  BY <1>3, <1>4

\* WindowCovers is kept by a step that brings cards up to date and does not
\* move the next window forward.
LEMMA WindowStays ==
  ASSUME WindowInv, UNCHANGED <<version, stamps>>, lastScan' = lastScan,
         shown' = shown \/ \E k \in Matches : shown' = [shown EXCEPT ![k] = version[k]],
         excuses' = {} => excuses = {}
  PROVE  WindowCovers'
<1>1. Since' = Since
  BY DEF Since
<1>2. \A m \in Matches : UpToDate(m) => UpToDate(m)'
  BY DEF UpToDate, WindowInv, TypeInv, TypeOK
<1>3. \A m \in Matches : StampedSince(m, Since) => StampedSince(m, Since)'
  BY <1>1 DEF StampedSince
<1>4. QED
  BY <1>2, <1>3 DEF WindowCovers, WindowInv

LEMMA BeginCovers ==
  ASSUME WindowInv, BeginScan
  PROVE  ScanCovers'
<1> SUFFICES ASSUME excuses' = {}, NEW m \in Matches PROVE UpToDate(m)' \/ Ahead(m)'
  BY DEF ScanCovers
<1> USE Constants
<1>1. UpToDate(m) \/ StampedSince(m, Since)
  BY DEF WindowInv, WindowCovers, BeginScan
<1>2. UpToDate(m)' <=> UpToDate(m)
  BY DEF UpToDate, BeginScan
<1>3. scan'.at = "query" /\ scan'.since = Since /\ scan'.offset = 0
  BY NoScanType DEF BeginScan, NoScan
<1>4. ASSUME StampedSince(m, Since) PROVE Ahead(m)'
  <2>1. m \in Window'
    BY <1>3, <1>4 DEF Window, StampedSince, BeginScan
  <2>2. PlacesFetched' = 0
    BY <1>3 DEF PlacesFetched
  <2>3. Place(m)' \in Nat
    <3>1. {n \in Window : Before(n, m)}' \in SUBSET Matches
      BY DEF Window
    <3>2. IsFiniteSet(Matches)
      BY FS_Interval DEF Matches
    <3>3. QED
      BY <3>1, <3>2, FS_Subset, FS_CardinalityType DEF Place
  <2>4. QED
    BY <1>3, <2>1, <2>2, <2>3 DEF Ahead
<1>5. QED
  BY <1>1, <1>2, <1>4

\* A match that has not been fetched is in the page, or behind it if it is full.
LEMMA QueryCovers ==
  ASSUME WindowInv, QueryPage
  PROVE  ScanCovers'
<1> SUFFICES ASSUME excuses' = {}, NEW m \in Matches
             PROVE  \/ UpToDate(m)'
                    \/ StampedSince(m, scan.begun - Overlap)'
                    \/ Ahead(m)'
  BY Queried DEF ScanCovers, WindowInv
<1>1. UpToDate(m) \/ StampedSince(m, scan.begun - Overlap) \/ Ahead(m)
  BY DEF WindowInv, ScanCovers, QueryPage
<1>2. /\ UpToDate(m)' <=> UpToDate(m)
      /\ StampedSince(m, scan.begun - Overlap)' <=> StampedSince(m, scan.begun - Overlap)
  BY Queried DEF UpToDate, StampedSince, QueryPage, WindowInv
<1>3. /\ StampsOK /\ scan.offset \in Nat /\ scan.at = "query" /\ scan.page = <<>>
      /\ scan'.at = "deliver" /\ scan'.page = Page(scan.offset)
      /\ scan'.full <=> Len(Page(scan.offset)) = PageSize
      /\ scan'.offset = scan.offset /\ scan'.since = scan.since
  BY Queried DEF WindowInv, TypeInv, ScanTimes
<1>4. ASSUME Ahead(m) PROVE Ahead(m)'
  <2>1. m \in Window /\ Place(m) >= scan.offset /\ Place(m) \in Nat
    <3>1. m \in Window /\ Place(m) >= PlacesFetched
      BY <1>3, <1>4 DEF Ahead
    <3>2. PlacesFetched = scan.offset
      BY <1>3 DEF PlacesFetched
    <3>3. QED
      BY <1>3, <3>1, <3>2, PlaceType
  <2>2. Window' = Window /\ Place(m)' = Place(m)
    BY <1>3, PlacesStay DEF QueryPage
  <2>3. PlacesFetched' = scan.offset + PageSize
    BY <1>3 DEF PlacesFetched
  <2>4. \/ \E i \in DOMAIN Page(scan.offset) : Page(scan.offset)[i] = m
        \/ Len(Page(scan.offset)) = PageSize /\ Place(m) >= scan.offset + PageSize
    BY <1>3, <2>1, PageHolds
  <2>5. QED
    BY <1>3, <2>1, <2>2, <2>3, <2>4 DEF Ahead
<1>5. QED
  BY <1>1, <1>2, <1>4

\* The head of the page is brought up to date, or the failure is excused.
LEMMA DeliverCovers ==
  ASSUME WindowInv, DeliverMatch
  PROVE  ScanCovers'
<1> SUFFICES ASSUME excuses' = {}, NEW m \in Matches
             PROVE  \/ UpToDate(m)'
                    \/ StampedSince(m, scan.begun - Overlap)'
                    \/ Ahead(m)'
  BY PageShrinks DEF ScanCovers, WindowInv, DeliverMatch
<1>1. UpToDate(m) \/ StampedSince(m, scan.begun - Overlap) \/ Ahead(m)
  BY DEF WindowInv, ScanCovers, DeliverMatch
<1>2. /\ Head(scan.page) \in Matches
      /\ \A i \in DOMAIN scan.page :
           scan.page[i] = Head(scan.page)
           \/ \E j \in DOMAIN scan'.page : scan'.page[j] = scan.page[i]
      /\ scan'.at = scan.at /\ scan'.full = scan.full /\ scan'.offset = scan.offset
      /\ scan'.since = scan.since
  BY PageShrinks DEF WindowInv, DeliverMatch
<1>3. /\ UpToDate(m) => UpToDate(m)'
      /\ m = Head(scan.page) => UpToDate(m)'
  BY <1>2 DEF UpToDate, DeliverMatch, WindowInv, TypeInv, TypeOK
<1>4. StampedSince(m, scan.begun - Overlap) => StampedSince(m, scan.begun - Overlap)'
  BY PageShrinks DEF StampedSince, DeliverMatch, WindowInv
<1>5. ASSUME Ahead(m), m # Head(scan.page) PROVE Ahead(m)'
  <2>1. Window' = Window /\ Place(m)' = Place(m)
    BY <1>2, PlacesStay DEF DeliverMatch
  <2>2. PlacesFetched' = PlacesFetched
    BY <1>2 DEF PlacesFetched
  <2>3. QED
    BY <1>2, <1>5, <2>1, <2>2 DEF Ahead
<1>6. QED
  BY <1>1, <1>3, <1>4, <1>5

LEMMA NextPageCovers ==
  ASSUME WindowInv, NextPage
  PROVE  ScanCovers'
<1>1. /\ scan'.at = "query" /\ scan'.offset = scan.offset + PageSize
      /\ scan'.since = scan.since /\ scan'.begun = scan.begun
      /\ scan.at = "deliver" /\ scan.full /\ scan.page = <<>>
  BY DEF NextPage, WindowInv, TypeInv, TypeOK
<1>2. SUFFICES ASSUME excuses' = {}, NEW m \in Matches
               PROVE  \/ UpToDate(m)'
                      \/ StampedSince(m, scan.begun - Overlap)'
                      \/ Ahead(m)'
  BY <1>1 DEF ScanCovers
<1>3. UpToDate(m) \/ StampedSince(m, scan.begun - Overlap) \/ Ahead(m)
  BY <1>2 DEF WindowInv, ScanCovers, NextPage
<1>4. /\ UpToDate(m)' <=> UpToDate(m)
      /\ StampedSince(m, scan.begun - Overlap)' <=> StampedSince(m, scan.begun - Overlap)
  BY <1>1 DEF UpToDate, StampedSince, NextPage
<1>5. Window' = Window /\ Place(m)' = Place(m)
  BY <1>1, PlacesStay DEF NextPage
<1>6. scan.offset \in Nat /\ PlacesFetched' = PlacesFetched
  BY <1>1, Constants DEF PlacesFetched, WindowInv, TypeInv, TypeOK
<1>7. Ahead(m) => Ahead(m)'
  BY <1>1, <1>5, <1>6 DEF Ahead
<1>8. QED
  BY <1>3, <1>4, <1>7

\* Behind the last page there is nothing: what is still out of date has been
\* stamped within the overlap of the scan.
LEMMA FinishCovers ==
  ASSUME WindowInv, FinishScan
  PROVE  WindowCovers'
<1>1. SUFFICES ASSUME excuses' = {}, NEW m \in Matches
               PROVE  UpToDate(m)' \/ StampedSince(m, Since)'
  BY DEF WindowCovers
<1>2. ~Ahead(m)
  BY DEF Ahead, FinishScan
<1>3. UpToDate(m) \/ StampedSince(m, scan.begun - Overlap)
  BY <1>1, <1>2 DEF WindowInv, ScanCovers, FinishScan
<1>4. Since' = scan.begun - Overlap
  BY DEF Since, FinishScan, Succeed
<1>5. QED
  BY <1>3, <1>4 DEF UpToDate, StampedSince, FinishScan

\* A restart within the look-back does not move the window forward.
LEMMA RestartCovers ==
  ASSUME WindowInv, Restart
  PROVE  WindowCovers'
<1> USE Constants
<1>1. SUFFICES ASSUME excuses' = {}, NEW m \in Matches
               PROVE  UpToDate(m)' \/ StampedSince(m, Since)'
  BY DEF WindowCovers
<1>2. excuses = {} /\ now <= lastScan + Lookback
  BY <1>1 DEF Restart, WindowInv, TypeInv, TypeOK, Times
<1>3. UpToDate(m) \/ StampedSince(m, Since)
  BY <1>2 DEF WindowInv, WindowCovers
<1>4. /\ Since \in Int /\ Since' \in Int /\ Since' <= Since
  BY <1>2 DEF Since, Restart, FirstWindow, WindowInv, TypeInv, TypeOK, Times
<1>5. UpToDate(m) \/ StampedSince(m, Since')
  BY <1>3, <1>4, WiderWindow DEF WindowInv
<1>6. QED
  BY <1>5 DEF UpToDate, StampedSince, Restart

LEMMA StepWindow == WindowInv /\ [Next]_vars => WindowInv'
<1> SUFFICES ASSUME WindowInv, [Next]_vars PROVE WindowInv'
  OBVIOUS
<1> USE NoScanType
<1>1. TypeInv'
  BY StepTypes DEF WindowInv
<1>2. CASE Tick \/ (\E m \in Matches, row \in Rows : StampRow(m, row)) \/ UNCHANGED vars
  <2>1. UNCHANGED <<version, stamps, shown, scan, lastScan, excuses>>
    BY <1>2 DEF Tick, StampRow, vars
  <2>2. WindowCovers'
    BY <2>1, WindowStays
  <2>3. Window' = Window /\ PlacesFetched' = PlacesFetched
        /\ \A m \in Matches : Place(m)' = Place(m)
    BY <2>1, PlacesStay DEF PlacesFetched
  <2>4. ScanCovers'
    BY <2>1, <2>3 DEF WindowInv, ScanCovers, UpToDate, StampedSince, Ahead
  <2>5. QED
    BY <1>1, <2>2, <2>4 DEF WindowInv
<1>3. CASE \E w \in writing : CommitRow(w)
  BY <1>1, <1>3, CommitWindow DEF WindowInv
<1>4. CASE BeginScan
  BY <1>1, <1>4, BeginCovers, WindowStays DEF WindowInv, BeginScan
<1>5. CASE QueryPage
  BY <1>1, <1>5, QueryCovers, WindowStays DEF WindowInv, QueryPage
<1>6. CASE DeliverMatch
  <2>1. Head(scan.page) \in Matches
    BY <1>6, PageShrinks DEF DeliverMatch, WindowInv
  <2>2. WindowCovers'
    BY <1>6, <2>1, WindowStays DEF DeliverMatch
  <2>3. QED
    BY <1>1, <1>6, <2>2, DeliverCovers DEF WindowInv
<1>7. CASE NextPage
  BY <1>1, <1>7, NextPageCovers, WindowStays DEF WindowInv, NextPage
<1>8. CASE FinishScan
  <2>1. ScanCovers'
    BY <1>8 DEF FinishScan, Succeed, ScanCovers
  <2>2. QED
    BY <1>1, <1>8, <2>1, FinishCovers DEF WindowInv
<1>9. CASE Restart
  <2>1. ScanCovers'
    BY <1>9 DEF Restart, ScanCovers
  <2>2. QED
    BY <1>1, <1>9, <2>1, RestartCovers DEF WindowInv
<1>10. CASE FailDelivery \/ Deadline
  BY <1>1, <1>10 DEF WindowInv, WindowCovers, ScanCovers, FailDelivery, Deadline
<1>11. CASE FailQuery \/ Crash
  <2>1. ScanCovers'
    BY <1>11 DEF FailQuery, Crash, ScanCovers
  <2>2. WindowCovers'
    BY <1>11, WindowStays DEF FailQuery, Crash
  <2>3. QED
    BY <1>1, <2>1, <2>2 DEF WindowInv
<1>12. QED
  BY <1>2, <1>3, <1>4, <1>5, <1>6, <1>7, <1>8, <1>9, <1>10, <1>11 DEF Next, Scanner

LEMMA WindowInvariant == Spec => []WindowInv
<1>1. Init => WindowInv
  BY InitTypes, InitWindow DEF WindowInv
<1>2. QED
  BY <1>1, StepWindow, PTL DEF Spec

(***************************************************************************)
(* However the writes of the other programs fall between the pages, the    *)
(* scans, the failures and the restarts, a match whose card is out of date *)
(* lies in the window that runScanner asks for next.                       *)
(***************************************************************************)
THEOREM NextWindowCovers == Spec => []WindowCovers
<1>1. WindowInv => WindowCovers
  BY DEF WindowInv
<1>2. QED
  BY <1>1, WindowInvariant, PTL

(***************************************************************************)
(* No match is left out by the pages of SyncWindow, which are cut by their *)
(* offset from a result that changes from one query to the next, unless a  *)
(* match in a place already fetched was written.                           *)
(***************************************************************************)
THEOREM NoMatchLeftOut == Spec => []ScanCovers
<1>1. WindowInv => ScanCovers
  BY DEF WindowInv
<1>2. QED
  BY <1>1, WindowInvariant, PTL
=============================================================================
