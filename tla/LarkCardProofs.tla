--------------------------- MODULE LarkCardProofs ---------------------------
(***************************************************************************)
(* Proofs about LarkCard, for every number of notifiers, changes, failures *)
(* and restarts: types, sequence numbers, and that no update sent under    *)
(* the lock is taken by Lark for an old one.                               *)
(***************************************************************************)
EXTENDS LarkCard, TLAPS

-----------------------------------------------------------------------------
(* Types                                                                   *)

Labels == {"idle", "select", "build", "lock", "query", "reserve", "update",
           "savePayload", "create", "send", "resolve", "converge", "saveMessage"}

LocalTypes ==
  /\ pc \in [Notifiers -> Labels]
  /\ started \in [Notifiers -> Contents]
  /\ lastScan \in [Notifiers -> Contents]
  /\ payload \in [Notifiers -> Contents]
  /\ card \in [Notifiers -> CardIds \cup {NoCard}]
  /\ sequence \in [Notifiers -> Nat]

RowTypes ==
  /\ holder \in Notifiers \cup {Nobody}
  /\ message \in [card : CardIds \cup {NoCard}, content : Contents, sequence : Nat]

LarkTypes ==
  /\ shown \in CardIds \cup {NoCard}
  /\ cards \in [CardIds -> Card]
  /\ created \in CardIds \cup {0}
  /\ late \subseteq Request
  /\ recoveries \in Nat

OtherTypes ==
  /\ content \in Contents
  /\ left \in [notifiers : SUBSET Notifiers, change : 0..MaxChanges,
               failure : 0..MaxFailures, crash : 0..MaxCrashes]

LEMMA TypesSplit == TypeOK <=> LocalTypes /\ RowTypes /\ LarkTypes /\ OtherTypes
BY DEF TypeOK, LocalTypes, RowTypes, LarkTypes, OtherTypes, Labels

-----------------------------------------------------------------------------
(* The inductive invariant                                                 *)

\* Between TakeLock and the end of the delivery.
Critical == {"query", "reserve", "update", "savePayload", "create", "send", "resolve",
             "converge", "saveMessage"}

Exclusive == \A n \in Notifiers : pc[n] \in Critical => holder = n

\* No number used or under way on card c is above k; all of them are below k.
UpTo(c, k) ==
  /\ cards[c].sequence <= k
  /\ \A request \in late : request.card = c => request.sequence <= k

Below(c, k) ==
  /\ cards[c].sequence < k
  /\ \A request \in late : request.card = c => request.sequence < k

\* What holds at each step of an update, and of a creation.
Updating(n) ==
  /\ pc[n] \in {"reserve", "update", "savePayload"} =>
       message.card # NoCard /\ card[n] = message.card
  /\ pc[n] = "update" =>
       sequence[n] = message.sequence /\ Below(message.card, sequence[n])

Creating(n) ==
  /\ pc[n] \in {"create", "send", "resolve", "converge", "saveMessage"} =>
       message.card = NoCard
  /\ pc[n] \in {"send", "resolve"} =>
       created # 0 /\ card[n] = created /\ UpTo(created, 0)
  /\ pc[n] = "resolve" => shown # NoCard
  /\ pc[n] \in {"converge", "saveMessage"} => shown # NoCard /\ card[n] = shown
  /\ pc[n] = "converge" => Below(shown, sequence[n]) /\ sequence[n] < UnixTime + recoveries
  /\ pc[n] = "saveMessage" => UpTo(shown, sequence[n])

\* The sequence number is not set before it is needed.
Unset(n) ==
  pc[n] \in {"idle", "select", "build", "lock", "query", "reserve", "create", "send",
             "resolve"} => sequence[n] = 0

Stage(n) == Updating(n) /\ Creating(n) /\ Unset(n)

\* Until a card has a row, the next recovery is above all that was used before.
RecoveryAbove ==
  message.card = NoCard => \A c \in CardIds : Below(c, UnixTime + recoveries)

\* Requests and the message refer to cards that were created.
CardsKnown ==
  /\ shown \in 0..created
  /\ \A request \in late : request.card \in 1..created
  /\ \A c \in CardIds : c > created => cards[c].sequence = 0

\* Every card but the last was followed by a failure or a restart.
Mishaps == left.failure + left.crash
Made    == {"send", "resolve", "converge", "saveMessage"}

Counted ==
  /\ created + Mishaps <= MaxFailures + MaxCrashes + 1
  /\ message.card = NoCard /\ (\A n \in Notifiers : pc[n] \notin Made) =>
       created + Mishaps <= MaxFailures + MaxCrashes
  /\ content + left.change <= MaxChanges

IInv ==
  /\ TypeOK
  /\ Exclusive
  /\ \A n \in Notifiers : Stage(n)
  /\ RecoveryAbove
  /\ CardsKnown
  /\ Counted
  /\ CardStaysWritable

-----------------------------------------------------------------------------
(* Frames                                                                  *)

\* A notifier outside of the lock is in no stage that looks at anything shared.
LEMMA QuietStage ==
  ASSUME NEW m \in Notifiers, pc[m] \notin Critical, Stage(m),
         pc'[m] = pc[m], sequence'[m] = sequence[m]
  PROVE  Stage(m)'
BY DEF Stage, Updating, Creating, Unset, Critical

\* The others, while n holds the lock.
Others(n) == \A m \in Notifiers : m # n => pc'[m] = pc[m] /\ sequence'[m] = sequence[m]

LEMMA CriticalStep ==
  ASSUME IInv, NEW n \in Notifiers, pc[n] \in Critical, Others(n), TypeOK',
         pc'[n] \in Critical => holder' = n, Stage(n)',
         RecoveryAbove', CardsKnown', Counted', CardStaysWritable'
  PROVE  IInv'
<1>1. ASSUME NEW m \in Notifiers, m # n PROVE pc[m] \notin Critical /\ Stage(m)
  <2>1. holder = n
    BY DEF IInv, Exclusive
  <2> QED
    BY <1>1, <2>1 DEF IInv, Exclusive
<1>2. \A m \in Notifiers : Stage(m)'
  BY <1>1, QuietStage DEF Others
<1>3. Exclusive'
  BY <1>1 DEF Exclusive, Others
<1> QED
  BY <1>2, <1>3 DEF IInv

\* A step outside of the lock, or one that takes it.
LEMMA QuietStep ==
  ASSUME IInv, NEW n \in Notifiers, pc[n] \notin Critical, Others(n), TypeOK',
         \A m \in Notifiers : m # n => card'[m] = card[m],
         UNCHANGED <<message, lark, recoveries>>,
         pc'[n] \in (Labels \ Critical) \cup {"query"}, sequence'[n] = 0,
         \A m \in Notifiers : m # n /\ pc[m] \in Critical => holder' = m,
         pc'[n] = "query" => holder' = n,
         left'.failure + left'.crash <= left.failure + left.crash,
         content' + left'.change <= content + left.change
  PROVE  IInv'
<1>1. \A m \in Notifiers : Stage(m)'
  <2>1. ASSUME NEW m \in Notifiers, m # n PROVE Stage(m)'
    <3>1. Stage(m) /\ pc'[m] = pc[m] /\ sequence'[m] = sequence[m] /\ card'[m] = card[m]
      BY <2>1 DEF IInv, Others
    <3> QED
      BY <3>1 DEF Stage, Updating, Creating, Unset, UpTo, Below, lark
  <2>2. Stage(n)'
    BY DEF Stage, Updating, Creating, Unset, Labels, Critical
  <2> QED
    BY <2>1, <2>2
<1>2. Exclusive'
  BY DEF Exclusive, IInv, Others, Labels, Critical
<1>3. RecoveryAbove' /\ CardsKnown' /\ CardStaysWritable'
  BY DEF IInv, RecoveryAbove, CardsKnown, CardStaysWritable, Below, lark
<1>4. Counted'
  <2>1. (\A m \in Notifiers : pc'[m] \notin Made) => (\A m \in Notifiers : pc[m] \notin Made)
    BY DEF Others, Made, Critical
  <2>2. /\ created \in Nat /\ left.failure \in Nat /\ left.crash \in Nat /\ left.change \in Nat
        /\ left'.failure \in Nat /\ left'.crash \in Nat /\ left'.change \in Nat
        /\ content \in Nat /\ content' \in Nat /\ MaxChanges \in Nat
        /\ MaxFailures \in Nat /\ MaxCrashes \in Nat
    BY CardAssumption DEF IInv, TypeOK, Contents, CardIds
  <2> QED
    BY <2>1, <2>2 DEF Counted, Mishaps, IInv, lark
<1> QED
  BY <1>1, <1>2, <1>3, <1>4 DEF IInv

\* The end of a delivery.
LEMMA ReturnTypes ==
  ASSUME TypeOK, NEW n \in Notifiers, Return(n)
  PROVE  /\ LocalTypes' /\ holder' \in Notifiers \cup {Nobody}
         /\ pc'[n] = "idle" /\ sequence'[n] = 0
         /\ \A m \in Notifiers : m # n =>
              pc'[m] = pc[m] /\ sequence'[m] = sequence[m] /\ card'[m] = card[m]
<1>1. 0 \in Contents
  BY CardAssumption DEF Contents
<1>2. LocalTypes'
  BY <1>1 DEF TypeOK, Return, Goto, WindowAfter, LocalTypes, Labels
<1>3. holder' \in Notifiers \cup {Nobody}
  BY DEF TypeOK, Return, Release
<1>4. pc'[n] = "idle" /\ sequence'[n] = 0
  BY DEF TypeOK, Return, Goto
<1>5. \A m \in Notifiers : m # n =>
        pc'[m] = pc[m] /\ sequence'[m] = sequence[m] /\ card'[m] = card[m]
  BY DEF TypeOK, Return, Goto
<1> QED
  BY <1>2, <1>3, <1>4, <1>5

-----------------------------------------------------------------------------
(* Steps outside of the lock                                               *)

LEMMA BeginScanKeeps ==
  ASSUME IInv, NEW n \in Notifiers, BeginScan(n)
  PROVE  IInv'
<1>1. TypeOK'
  BY DEF IInv, TypeOK, BeginScan, At, Goto, lark
<1>2. pc[n] = "idle" /\ pc'[n] = "select" /\ sequence' = sequence /\ card' = card
      /\ (\A m \in Notifiers : m # n => pc'[m] = pc[m])
  BY DEF BeginScan, At, Goto, IInv, TypeOK
<1>3. sequence[n] = 0
  BY <1>2 DEF IInv, Stage, Unset
<1> QED
  BY <1>1, <1>2, <1>3, QuietStep
     DEF BeginScan, Others, Critical, Labels, IInv, Exclusive, TypeOK, Contents

LEMMA SelectMatchKeeps ==
  ASSUME IInv, NEW n \in Notifiers, SelectMatch(n)
  PROVE  IInv'
<1>1. TypeOK'
  BY DEF IInv, TypeOK, SelectMatch, At, Goto, lark
<1>2. pc[n] = "select" /\ pc'[n] = "build" /\ sequence' = sequence /\ card' = card
      /\ (\A m \in Notifiers : m # n => pc'[m] = pc[m])
  BY DEF SelectMatch, At, Goto, IInv, TypeOK
<1>3. sequence[n] = 0
  BY <1>2 DEF IInv, Stage, Unset
<1> QED
  BY <1>1, <1>2, <1>3, QuietStep
     DEF SelectMatch, Others, Critical, Labels, IInv, Exclusive, TypeOK, Contents

LEMMA BuildPayloadKeeps ==
  ASSUME IInv, NEW n \in Notifiers, BuildPayload(n)
  PROVE  IInv'
<1>1. TypeOK'
  BY DEF IInv, TypeOK, BuildPayload, At, Goto, lark
<1>2. pc[n] = "build" /\ pc'[n] = "lock" /\ sequence' = sequence /\ card' = card
      /\ (\A m \in Notifiers : m # n => pc'[m] = pc[m])
  BY DEF BuildPayload, At, Goto, IInv, TypeOK
<1>3. sequence[n] = 0
  BY <1>2 DEF IInv, Stage, Unset
<1> QED
  BY <1>1, <1>2, <1>3, QuietStep
     DEF BuildPayload, Others, Critical, Labels, IInv, Exclusive, TypeOK, Contents

LEMMA TakeLockKeeps ==
  ASSUME IInv, NEW n \in Notifiers, TakeLock(n)
  PROVE  IInv'
<1>1. TypeOK'
  BY DEF IInv, TypeOK, TakeLock, At, Goto, lark
<1>2. pc[n] = "lock" /\ pc'[n] = "query" /\ sequence' = sequence /\ card' = card
      /\ (\A m \in Notifiers : m # n => pc'[m] = pc[m])
  BY DEF TakeLock, At, Goto, IInv, TypeOK
<1>3. sequence[n] = 0
  BY <1>2 DEF IInv, Stage, Unset
<1>4. \A m \in Notifiers : pc[m] \notin Critical
  BY CardAssumption DEF TakeLock, IInv, Exclusive
<1> QED
  BY <1>1, <1>2, <1>3, <1>4, QuietStep
     DEF TakeLock, Others, Critical, Labels, IInv, TypeOK, Contents

\* A scan that ends before the lock was taken.
LEMMA QuietReturnKeeps ==
  ASSUME IInv, NEW n \in Notifiers, SelectNothing(n) \/ NoCardYet(n)
  PROVE  IInv'
<1>1. Return(n) /\ pc[n] \notin Critical /\ UNCHANGED <<content, message, lark, recoveries, left>>
  BY DEF SelectNothing, NoCardYet, At, Critical
<1>2. /\ LocalTypes' /\ holder' \in Notifiers \cup {Nobody}
      /\ pc'[n] = "idle" /\ sequence'[n] = 0
      /\ \A m \in Notifiers : m # n =>
           pc'[m] = pc[m] /\ sequence'[m] = sequence[m] /\ card'[m] = card[m]
  BY <1>1, ReturnTypes DEF IInv
<1>3. TypeOK'
  BY <1>1, <1>2 DEF IInv, TypeOK, LocalTypes, Labels, lark
<1>4. \A m \in Notifiers : m # n /\ pc[m] \in Critical => holder' = m
  BY <1>1 DEF Return, Release, IInv, Exclusive
<1> QED
  BY <1>1, <1>2, <1>3, <1>4, QuietStep
     DEF Others, Critical, Labels, IInv, Exclusive, TypeOK, Contents

-----------------------------------------------------------------------------
(* Steps under the lock                                                    *)

\* What n knows when it takes one of them.
LEMMA UnderLock ==
  ASSUME IInv, NEW n \in Notifiers, pc[n] \in Critical
  PROVE  /\ holder = n /\ Stage(n)
         /\ \A m \in Notifiers : m # n => pc[m] \notin Critical
BY DEF IInv, Exclusive

LEMMA NatFacts ==
  ASSUME IInv
  PROVE  /\ created \in Nat /\ left.failure \in Nat /\ left.crash \in Nat /\ left.change \in Nat
         /\ content \in Nat /\ MaxChanges \in Nat /\ MaxFailures \in Nat /\ MaxCrashes \in Nat
         /\ recoveries \in Nat /\ UnixTime \in Nat /\ 0 < UnixTime
         /\ message.sequence \in Nat /\ shown \in Nat
         /\ \A c \in CardIds : cards[c].sequence \in Nat
         /\ \A request \in late : request.card \in CardIds /\ request.sequence \in Nat
<1>1. /\ created \in Nat /\ left.failure \in Nat /\ left.crash \in Nat /\ left.change \in Nat
      /\ content \in Nat /\ MaxChanges \in Nat /\ MaxFailures \in Nat /\ MaxCrashes \in Nat
  BY CardAssumption DEF IInv, TypeOK, Contents, CardIds
<1>2. recoveries \in Nat /\ UnixTime \in Nat /\ 0 < UnixTime
  BY CardAssumption DEF IInv, TypeOK
<1>3. message.sequence \in Nat /\ shown \in Nat
  BY DEF IInv, TypeOK, CardIds, NoCard
<1>4. \A c \in CardIds : cards[c].sequence \in Nat
  BY DEF IInv, TypeOK, Card
<1>5. \A request \in late : request.card \in CardIds /\ request.sequence \in Nat
  BY DEF IInv, TypeOK, Request
<1> QED
  BY <1>1, <1>2, <1>3, <1>4, <1>5

LEMMA QueryMessageKeeps ==
  ASSUME IInv, NEW n \in Notifiers, QueryMessage(n)
  PROVE  IInv'
<1>1. pc[n] = "query" /\ pc'[n] \in {"create", "reserve"} /\ sequence' = sequence
      /\ card'[n] = message.card /\ (\A m \in Notifiers : m # n => pc'[m] = pc[m])
      /\ (pc'[n] = "create" <=> message.card = NoCard)
  BY DEF QueryMessage, At, Goto, IInv, TypeOK
<1>2. pc[n] \in Critical /\ UNCHANGED <<content, message, lark, recoveries, left, holder>>
  BY <1>1 DEF Critical, QueryMessage
<1>3. holder = n /\ Stage(n) /\ \A m \in Notifiers : m # n => pc[m] \notin Critical
  BY <1>2, UnderLock
<1>4. TypeOK'
  BY DEF QueryMessage, At, Goto, IInv, TypeOK, lark
<1>5. Stage(n)'
  BY <1>1, <1>2, <1>3 DEF Stage, Updating, Creating, Unset
<1>6. RecoveryAbove' /\ CardsKnown' /\ CardStaysWritable'
  BY <1>2 DEF IInv, RecoveryAbove, CardsKnown, CardStaysWritable, Below, lark
<1>7. Counted'
  BY <1>1, <1>2, <1>3 DEF IInv, Counted, Mishaps, lark, Made
<1> QED
  BY <1>1, <1>2, <1>3, <1>4, <1>5, <1>6, <1>7, CriticalStep DEF Others

\* A delivery that has nothing to do, or is complete.
LEMMA ReturnUnderLock ==
  ASSUME IInv, NEW n \in Notifiers, pc[n] \in Critical, Return(n),
         UNCHANGED <<content, lark, recoveries, left>>,
         message' \in [card : CardIds \cup {NoCard}, content : Contents, sequence : Nat],
         message.card # NoCard =>
           message'.card = message.card /\ message'.sequence = message.sequence,
         message.card = NoCard /\ pc[n] \in Made => message'.card # NoCard,
         CardStaysWritable'
  PROVE  IInv'
<1>1. /\ LocalTypes' /\ holder' \in Notifiers \cup {Nobody}
      /\ pc'[n] = "idle" /\ sequence'[n] = 0
      /\ \A m \in Notifiers : m # n =>
           pc'[m] = pc[m] /\ sequence'[m] = sequence[m] /\ card'[m] = card[m]
  BY ReturnTypes DEF IInv
<1>2. TypeOK'
  BY <1>1 DEF IInv, TypeOK, LocalTypes, Labels, lark
<1>3. Stage(n)'
  BY <1>1 DEF Stage, Updating, Creating, Unset
<1>4. RecoveryAbove' /\ CardsKnown'
  BY DEF IInv, RecoveryAbove, CardsKnown, Below, lark
<1>5. Counted'
  BY <1>1 DEF IInv, Counted, Mishaps, lark, Made
<1>6. pc'[n] \notin Critical
  BY <1>1 DEF Critical
<1> QED
  BY <1>1, <1>2, <1>3, <1>4, <1>5, <1>6, CriticalStep DEF Others

LEMMA UnchangedKeeps ==
  ASSUME IInv, NEW n \in Notifiers, Unchanged(n)
  PROVE  IInv'
<1>1. pc[n] = "query" /\ pc[n] \in Critical /\ pc[n] \notin Made /\ Return(n)
      /\ UNCHANGED <<content, message, lark, recoveries, left>>
  BY DEF Unchanged, At, Critical, Made
<1>2. CardStaysWritable'
  BY <1>1 DEF IInv, CardStaysWritable, lark
<1> QED
  BY <1>1, <1>2, ReturnUnderLock DEF IInv, TypeOK

LEMMA SavePayloadKeeps ==
  ASSUME IInv, NEW n \in Notifiers, SavePayload(n)
  PROVE  IInv'
<1>1. pc[n] = "savePayload" /\ pc[n] \in Critical /\ pc[n] \notin Made /\ Return(n)
      /\ UNCHANGED <<content, lark, recoveries, left>>
      /\ message' = [message EXCEPT !.content = payload[n]]
  BY DEF SavePayload, At, Critical, Made
<1>2. /\ message' \in [card : CardIds \cup {NoCard}, content : Contents, sequence : Nat]
      /\ message'.card = message.card /\ message'.sequence = message.sequence
  BY <1>1 DEF IInv, TypeOK
<1>3. CardStaysWritable'
  BY <1>1, <1>2 DEF IInv, CardStaysWritable, lark
<1> QED
  BY <1>1, <1>2, <1>3, ReturnUnderLock

LEMMA SaveMessageKeeps ==
  ASSUME IInv, NEW n \in Notifiers, SaveMessage(n)
  PROVE  IInv'
<1>1. pc[n] = "saveMessage" /\ pc[n] \in Critical /\ Return(n)
      /\ UNCHANGED <<content, lark, recoveries, left>> /\ message' = RequestOf(n)
  BY DEF SaveMessage, At, Critical
<1>2. message.card = NoCard /\ shown # NoCard /\ card[n] = shown /\ UpTo(shown, sequence[n])
  BY <1>1, UnderLock DEF Stage, Creating
<1>3. /\ message' \in [card : CardIds \cup {NoCard}, content : Contents, sequence : Nat]
      /\ message'.card = shown /\ message'.sequence = sequence[n]
  BY <1>1, <1>2 DEF IInv, TypeOK, RequestOf
<1>4. CardStaysWritable'
  BY <1>1, <1>2, <1>3 DEF CardStaysWritable, UpTo, lark
<1> QED
  BY <1>1, <1>2, <1>3, <1>4, ReturnUnderLock

LEMMA ReserveSequenceKeeps ==
  ASSUME IInv, NEW n \in Notifiers, ReserveSequence(n)
  PROVE  IInv'
<1>1. /\ pc[n] = "reserve" /\ pc'[n] = "update" /\ pc[n] \in Critical /\ card' = card
      /\ sequence'[n] = message.sequence + 1
      /\ \A m \in Notifiers : m # n => pc'[m] = pc[m] /\ sequence'[m] = sequence[m]
  BY DEF ReserveSequence, At, Goto, IInv, TypeOK, Critical
<1>2. /\ message'.card = message.card /\ message'.sequence = message.sequence + 1
      /\ UNCHANGED <<content, lark, recoveries, left, holder>>
  BY DEF ReserveSequence, IInv, TypeOK
<1>3. holder = n /\ message.card # NoCard /\ card[n] = message.card
  BY <1>1, UnderLock DEF Stage, Updating
<1>4. TypeOK'
  BY DEF ReserveSequence, At, Goto, IInv, TypeOK, lark
<1>5. message.card = shown /\ UpTo(shown, message.sequence) /\ shown \in CardIds
  BY <1>3 DEF IInv, CardStaysWritable, UpTo, TypeOK, NoCard
<1>6. Below(shown, message.sequence + 1)
  BY <1>5, NatFacts DEF UpTo, Below
<1>7. Below(message.card, sequence[n])'
  BY <1>1, <1>2, <1>5, <1>6 DEF Below, lark
<1>8. Stage(n)'
  BY <1>1, <1>2, <1>3, <1>7 DEF Stage, Updating, Creating, Unset
<1>9. RecoveryAbove' /\ CardsKnown'
  BY <1>2 DEF IInv, RecoveryAbove, CardsKnown, Below, lark
<1>10. CardStaysWritable'
  BY <1>2, <1>5, <1>6, NatFacts DEF CardStaysWritable, Below, lark
<1>11. Counted'
  BY <1>2, <1>3 DEF IInv, Counted, Mishaps, lark
<1> QED
  BY <1>1, <1>2, <1>3, <1>4, <1>8, <1>9, <1>10, <1>11, CriticalStep DEF Others

-----------------------------------------------------------------------------
(* Updates                                                                 *)

\* What Lark makes of a request.
LEMMA AppliedFacts ==
  ASSUME TypeOK, NEW request \in Request
  PROVE  /\ Applied(request) \in [CardIds -> Card]
         /\ \A c \in CardIds : c # request.card => Applied(request)[c] = cards[c]
         /\ request.sequence > cards[request.card].sequence =>
              /\ Applied(request)[request.card].sequence = request.sequence
              /\ Applied(request)[request.card].content = request.content
         /\ ~(request.sequence > cards[request.card].sequence) =>
              Applied(request)[request.card] = cards[request.card]
BY DEF TypeOK, Request, Card, Applied

LEMMA UpdateCardKeeps ==
  ASSUME IInv, NEW n \in Notifiers, UpdateCard(n)
  PROVE  IInv' /\ cards'[card[n]].content = payload[n]
<1>1. /\ pc[n] = "update" /\ pc'[n] = "savePayload" /\ pc[n] \in Critical
      /\ card' = card /\ sequence' = sequence
      /\ \A m \in Notifiers : m # n => pc'[m] = pc[m]
  BY DEF UpdateCard, At, Goto, IInv, TypeOK, Critical
<1>2. /\ UNCHANGED <<content, message, shown, created, late, recoveries, left, holder>>
      /\ cards' = Applied(RequestOf(n))
  BY DEF UpdateCard
<1>3. holder = n /\ message.card # NoCard /\ card[n] = message.card
      /\ sequence[n] = message.sequence /\ Below(message.card, sequence[n])
  BY <1>1, UnderLock DEF Stage, Updating
<1>4. shown = message.card /\ shown \in CardIds
  BY <1>3 DEF IInv, CardStaysWritable, TypeOK, NoCard
<1>5. RequestOf(n) \in Request /\ RequestOf(n).card = shown
      /\ RequestOf(n).sequence = message.sequence /\ RequestOf(n).content = payload[n]
  BY <1>3, <1>4 DEF RequestOf, Request, IInv, TypeOK
<1>6. message.sequence > cards[shown].sequence
  BY <1>3, <1>4, NatFacts DEF Below
<1>7. /\ cards' \in [CardIds -> Card]
      /\ \A c \in CardIds : c # shown => cards'[c] = cards[c]
      /\ cards'[shown].sequence = message.sequence /\ cards'[shown].content = payload[n]
  BY <1>2, <1>5, <1>6, AppliedFacts DEF IInv
<1>8. TypeOK'
  BY <1>2, <1>7 DEF UpdateCard, Goto, IInv, TypeOK
<1>9. Stage(n)'
  BY <1>1, <1>2, <1>3 DEF Stage, Updating, Creating, Unset
<1>10. RecoveryAbove'
  BY <1>2, <1>3 DEF RecoveryAbove
<1>11. CardsKnown'
  <2>1. shown \in 0..created /\ created \in Nat
    BY NatFacts DEF IInv, CardsKnown
  <2>2. \A c \in CardIds : c > created => c # shown
    BY <2>1, NatFacts DEF CardIds
  <2> QED
    BY <1>2, <1>7, <2>2 DEF IInv, CardsKnown
<1>12. CardStaysWritable'
  BY <1>2, <1>4, <1>7, NatFacts DEF IInv, CardStaysWritable
<1>13. Counted'
  BY <1>2, <1>3 DEF IInv, Counted, Mishaps
<1>14. IInv'
  BY <1>1, <1>2, <1>3, <1>8, <1>9, <1>10, <1>11, <1>12, <1>13, CriticalStep DEF Others
<1> QED
  BY <1>3, <1>4, <1>7, <1>14

LEMMA ConvergeCardKeeps ==
  ASSUME IInv, NEW n \in Notifiers, ConvergeCard(n)
  PROVE  IInv' /\ cards'[card[n]].content = payload[n]
<1>1. /\ pc[n] = "converge" /\ pc'[n] = "saveMessage" /\ pc[n] \in Critical
      /\ pc[n] \in Made /\ pc'[n] \in Made
      /\ card' = card /\ sequence' = sequence
      /\ \A m \in Notifiers : m # n => pc'[m] = pc[m]
  BY DEF ConvergeCard, At, Goto, IInv, TypeOK, Critical, Made
<1>2. /\ UNCHANGED <<content, message, shown, created, late, recoveries, left, holder>>
      /\ cards' = Applied(RequestOf(n))
  BY DEF ConvergeCard
<1>3. /\ holder = n /\ message.card = NoCard /\ shown # NoCard /\ card[n] = shown
      /\ Below(shown, sequence[n]) /\ sequence[n] < UnixTime + recoveries
  BY <1>1, UnderLock DEF Stage, Creating
<1>4. shown \in CardIds /\ sequence[n] \in Nat
  BY <1>3 DEF IInv, TypeOK
<1>5. RequestOf(n) \in Request /\ RequestOf(n).card = shown
      /\ RequestOf(n).sequence = sequence[n] /\ RequestOf(n).content = payload[n]
  BY <1>3, <1>4 DEF RequestOf, Request, IInv, TypeOK
<1>6. sequence[n] > cards[shown].sequence
  BY <1>3, <1>4, NatFacts DEF Below
<1>7. /\ cards' \in [CardIds -> Card]
      /\ \A c \in CardIds : c # shown => cards'[c] = cards[c]
      /\ cards'[shown].sequence = sequence[n] /\ cards'[shown].content = payload[n]
  BY <1>2, <1>5, <1>6, AppliedFacts DEF IInv
<1>8. TypeOK'
  BY <1>2, <1>7 DEF ConvergeCard, Goto, IInv, TypeOK
<1>9. UpTo(shown, sequence[n])'
  BY <1>1, <1>2, <1>3, <1>4, <1>7, NatFacts DEF UpTo, Below
<1>10. Stage(n)'
  BY <1>1, <1>2, <1>3, <1>9 DEF Stage, Updating, Creating, Unset
<1>11. RecoveryAbove'
  BY <1>2, <1>3, <1>7 DEF IInv, RecoveryAbove, Below
<1>12. CardsKnown'
  <2>1. shown \in 0..created /\ created \in Nat
    BY NatFacts DEF IInv, CardsKnown
  <2>2. \A c \in CardIds : c > created => c # shown
    BY <2>1, NatFacts DEF CardIds
  <2> QED
    BY <1>2, <1>7, <2>2 DEF IInv, CardsKnown
<1>13. CardStaysWritable'
  BY <1>2, <1>3 DEF CardStaysWritable
<1>14. Counted'
  BY <1>1, <1>2 DEF IInv, Counted, Mishaps
<1>15. IInv'
  BY <1>1, <1>2, <1>3, <1>8, <1>10, <1>11, <1>12, <1>13, <1>14, CriticalStep DEF Others
<1> QED
  BY <1>3, <1>7, <1>15

-----------------------------------------------------------------------------
(* Creations                                                               *)

LEMMA CreateCardKeeps ==
  ASSUME IInv, NEW n \in Notifiers, CreateCard(n)
  PROVE  IInv'
<1>1. /\ pc[n] = "create" /\ pc'[n] = "send" /\ pc[n] \in Critical
      /\ card'[n] = created + 1 /\ sequence' = sequence
      /\ \A m \in Notifiers : m # n => pc'[m] = pc[m]
  BY DEF CreateCard, At, Goto, IInv, TypeOK, Critical
<1>2. /\ UNCHANGED <<content, message, shown, late, recoveries, left, holder>>
      /\ created' = created + 1
      /\ cards' = [cards EXCEPT ![created + 1] = [content |-> payload[n], sequence |-> 0]]
  BY DEF CreateCard
<1>3. /\ holder = n /\ message.card = NoCard /\ sequence[n] = 0
      /\ \A m \in Notifiers : pc[m] \notin Made
  BY <1>1, UnderLock DEF Stage, Creating, Unset, Made, Critical
<1>4. created + left.failure + left.crash <= MaxFailures + MaxCrashes
  BY <1>3, NatFacts DEF IInv, Counted, Mishaps
<1>5. created + 1 \in CardIds
  BY <1>4, NatFacts DEF CardIds
<1>6. TypeOK'
  <2>1. cards' \in [CardIds -> Card]
    BY <1>2, <1>5 DEF IInv, TypeOK, Card
  <2> QED
    BY <1>2, <1>5, <2>1 DEF CreateCard, Goto, IInv, TypeOK
<1>7. /\ cards'[created + 1].sequence = 0
      /\ \A c \in CardIds : c # created + 1 => cards'[c] = cards[c]
  BY <1>2, <1>5 DEF IInv, TypeOK
<1>8. \A request \in late : request.card # created + 1
  BY NatFacts DEF IInv, CardsKnown
<1>9. UpTo(created, 0)'
  BY <1>2, <1>7, <1>8 DEF UpTo
<1>10. Stage(n)'
  BY <1>1, <1>2, <1>3, <1>9, NatFacts DEF Stage, Updating, Creating, Unset
<1>11. RecoveryAbove'
  BY <1>2, <1>3, <1>7, <1>8, NatFacts DEF IInv, RecoveryAbove, Below
<1>12. CardsKnown'
  BY <1>2, <1>7, NatFacts DEF IInv, CardsKnown, CardIds
<1>13. CardStaysWritable'
  BY <1>2, <1>3 DEF CardStaysWritable
<1>14. Counted'
  BY <1>1, <1>2, <1>4, NatFacts DEF IInv, Counted, Mishaps, Made
<1> QED
  BY <1>1, <1>2, <1>3, <1>6, <1>10, <1>11, <1>12, <1>13, <1>14, CriticalStep DEF Others

LEMMA SendMessageKeeps ==
  ASSUME IInv, NEW n \in Notifiers, SendMessage(n)
  PROVE  IInv'
<1>1. /\ pc[n] = "send" /\ pc'[n] = "resolve" /\ pc[n] \in Critical
      /\ pc[n] \in Made /\ pc'[n] \in Made /\ card' = card /\ sequence' = sequence
      /\ \A m \in Notifiers : m # n => pc'[m] = pc[m]
  BY DEF SendMessage, At, Goto, IInv, TypeOK, Critical, Made
<1>2. /\ UNCHANGED <<content, message, cards, created, late, recoveries, left, holder>>
      /\ shown' = IF shown = NoCard THEN card[n] ELSE shown
  BY DEF SendMessage
<1>3. /\ holder = n /\ message.card = NoCard /\ sequence[n] = 0
      /\ created # 0 /\ card[n] = created /\ UpTo(created, 0)
  BY <1>1, UnderLock DEF Stage, Creating, Unset
<1>4. TypeOK'
  BY DEF SendMessage, At, Goto, IInv, TypeOK
<1>5. shown' # NoCard /\ shown' \in 0..created
  BY <1>2, <1>3, NatFacts DEF IInv, CardsKnown, NoCard
<1>6. UpTo(created, 0)'
  BY <1>2, <1>3 DEF UpTo
<1>7. Stage(n)'
  BY <1>1, <1>2, <1>3, <1>5, <1>6 DEF Stage, Updating, Creating, Unset
<1>8. RecoveryAbove' /\ CardsKnown' /\ CardStaysWritable'
  BY <1>2, <1>3, <1>5 DEF IInv, RecoveryAbove, CardsKnown, CardStaysWritable, Below
<1>9. Counted'
  BY <1>1, <1>2 DEF IInv, Counted, Mishaps
<1> QED
  BY <1>1, <1>2, <1>3, <1>4, <1>7, <1>8, <1>9, CriticalStep DEF Others

LEMMA ResolveCardKeeps ==
  ASSUME IInv, NEW n \in Notifiers, ResolveCard(n)
  PROVE  IInv'
<1>1. /\ pc[n] = "resolve" /\ pc'[n] = (IF shown = card[n] THEN "saveMessage" ELSE "converge")
      /\ pc[n] \in Critical /\ pc[n] \in Made /\ pc'[n] \in Made /\ card'[n] = shown
      /\ \A m \in Notifiers : m # n => pc'[m] = pc[m] /\ sequence'[m] = sequence[m]
  BY DEF ResolveCard, At, Goto, IInv, TypeOK, Critical, Made
<1>2. UNCHANGED <<content, message, shown, cards, created, late, left, holder>>
  BY DEF ResolveCard, lark
<1>3. /\ holder = n /\ message.card = NoCard /\ sequence[n] = 0 /\ shown # NoCard
      /\ created # 0 /\ card[n] = created /\ UpTo(created, 0)
  BY <1>1, UnderLock DEF Stage, Creating, Unset
<1>4. shown \in CardIds
  BY <1>3 DEF IInv, TypeOK
<1>5. TypeOK'
  BY NatFacts DEF ResolveCard, At, Goto, IInv, TypeOK, lark
<1>6. Stage(n)' /\ RecoveryAbove'
  <2>1. CASE shown = card[n]
    <3>1. pc'[n] = "saveMessage" /\ sequence'[n] = 0 /\ recoveries' = recoveries
      BY <1>3, <2>1, <1>1 DEF ResolveCard
    <3>2. UpTo(shown, sequence[n])'
      BY <1>2, <1>3, <2>1, <3>1 DEF UpTo
    <3>3. Stage(n)'
      BY <1>1, <1>2, <1>3, <3>1, <3>2 DEF Stage, Updating, Creating, Unset
    <3>4. RecoveryAbove'
      BY <1>2, <3>1 DEF IInv, RecoveryAbove, Below
    <3> QED
      BY <3>3, <3>4
  <2>2. CASE shown # card[n]
    <3>1. pc'[n] = "converge" /\ sequence'[n] = UnixTime + recoveries
          /\ recoveries' = recoveries + 1
      BY <2>2, <1>1 DEF ResolveCard, IInv, TypeOK
    <3>2. Below(shown, UnixTime + recoveries)
      BY <1>3, <1>4 DEF IInv, RecoveryAbove
    <3>3. Below(shown, sequence[n])'
      BY <1>2, <3>1, <3>2 DEF Below
    <3>4. sequence'[n] < UnixTime + recoveries'
      BY <3>1, NatFacts
    <3>5. Stage(n)'
      BY <1>1, <1>2, <1>3, <3>1, <3>3, <3>4 DEF Stage, Updating, Creating, Unset
    <3>6. RecoveryAbove'
      BY <1>2, <3>1, NatFacts DEF IInv, RecoveryAbove, Below
    <3> QED
      BY <3>5, <3>6
  <2> QED
    BY <2>1, <2>2
<1>7. CardsKnown' /\ CardStaysWritable'
  BY <1>2 DEF IInv, CardsKnown, CardStaysWritable
<1>8. Counted'
  BY <1>1, <1>2 DEF IInv, Counted, Mishaps
<1> QED
  BY <1>1, <1>2, <1>3, <1>5, <1>6, <1>7, <1>8, CriticalStep DEF Others

-----------------------------------------------------------------------------
(* Failures, changes and late requests                                     *)

\* What FailMatch and Crash have in common.
GivesUp(n) ==
  /\ pc' = [pc EXCEPT ![n] = "idle"] /\ sequence' = [sequence EXCEPT ![n] = 0]
  /\ card' = [card EXCEPT ![n] = NoCard]
  /\ Release(n) /\ LeaveRequest(n)
  /\ left'.failure + left'.crash + 1 = left.failure + left.crash
  /\ left'.change = left.change
  /\ UNCHANGED <<content, message, shown, cards, created, recoveries>>

\* Only a request of an update or a recovery is left behind.
LEMMA LeftRequest ==
  ASSUME IInv, NEW n \in Notifiers, LeaveRequest(n), late' # late
  PROVE  /\ pc[n] \in {"update", "converge"} /\ late' = late \cup {RequestOf(n)}
         /\ RequestOf(n) \in Request /\ RequestOf(n).card = shown
         /\ shown \in 1..created /\ RequestOf(n).sequence = sequence[n]
         /\ message.card # NoCard => sequence[n] = message.sequence
         /\ message.card = NoCard => sequence[n] < UnixTime + recoveries
<1>1. pc[n] \in {"update", "converge"} /\ late' = late \cup {RequestOf(n)}
  BY DEF LeaveRequest
<1>2. Stage(n)
  BY DEF IInv
<1>3. shown # NoCard /\ card[n] = shown
  BY <1>1, <1>2 DEF Stage, Updating, Creating, IInv, CardStaysWritable
<1>4. shown \in CardIds /\ shown \in 1..created
  BY <1>3, NatFacts DEF IInv, TypeOK, CardsKnown, NoCard
<1>5. RequestOf(n) \in Request /\ RequestOf(n).card = shown /\ RequestOf(n).sequence = sequence[n]
  BY <1>3, <1>4 DEF RequestOf, Request, IInv, TypeOK
<1>6. message.card # NoCard => sequence[n] = message.sequence
  BY <1>1, <1>2 DEF Stage, Updating, Creating
<1>7. message.card = NoCard => sequence[n] < UnixTime + recoveries
  BY <1>1, <1>2 DEF Stage, Updating, Creating
<1> QED
  BY <1>1, <1>4, <1>5, <1>6, <1>7

LEMMA GivesUpKeeps ==
  ASSUME IInv, NEW n \in Notifiers, GivesUp(n), TypeOK'
  PROVE  IInv'
<1>1. /\ pc'[n] = "idle" /\ sequence'[n] = 0
      /\ \A m \in Notifiers : m # n =>
           pc'[m] = pc[m] /\ sequence'[m] = sequence[m] /\ card'[m] = card[m]
  BY DEF GivesUp, IInv, TypeOK
<1>2. /\ left'.failure + left'.crash + 1 = left.failure + left.crash
      /\ left'.change = left.change
      /\ UNCHANGED <<content, message, shown, cards, created, recoveries>>
      /\ LeaveRequest(n)
  BY DEF GivesUp
<1>3. left'.failure \in Nat /\ left'.crash \in Nat
  BY CardAssumption DEF TypeOK
<1>4. CASE pc[n] \notin Critical
  <2>1. late' = late
    BY <1>2, <1>4 DEF LeaveRequest, Critical
  <2>2. \A m \in Notifiers : m # n /\ pc[m] \in Critical => holder' = m
    BY DEF GivesUp, Release, IInv, Exclusive
  <2>3. left'.failure + left'.crash <= left.failure + left.crash
    BY <1>2, <1>3, NatFacts
  <2>4. content' + left'.change <= content + left.change
    BY <1>2, NatFacts
  <2> QED
    BY <1>1, <1>2, <1>4, <2>1, <2>2, <2>3, <2>4, QuietStep DEF Others, Labels, Critical, lark
<1>5. CASE pc[n] \in Critical
  <2>1. Stage(n)' /\ pc'[n] \notin Critical
    BY <1>1 DEF Stage, Updating, Creating, Unset, Critical
  <2>2. RecoveryAbove'
    <3>1. CASE late' = late
      BY <1>2, <3>1 DEF IInv, RecoveryAbove, Below
    <3>2. CASE late' # late
      BY <1>2, <3>2, LeftRequest DEF IInv, RecoveryAbove, Below
    <3> QED
      BY <3>1, <3>2
  <2>3. CardsKnown'
    <3>1. CASE late' = late
      BY <1>2, <3>1 DEF IInv, CardsKnown
    <3>2. CASE late' # late
      BY <1>2, <3>2, LeftRequest DEF IInv, CardsKnown
    <3> QED
      BY <3>1, <3>2
  <2>4. CardStaysWritable'
    <3>1. CASE late' = late
      BY <1>2, <3>1 DEF IInv, CardStaysWritable
    <3>2. CASE late' # late
      BY <1>2, <3>2, LeftRequest, NatFacts DEF IInv, CardStaysWritable
    <3> QED
      BY <3>1, <3>2
  <2>5. Counted'
    BY <1>2, <1>3, NatFacts DEF IInv, Counted, Mishaps
  <2> QED
    BY <1>1, <1>5, <2>1, <2>2, <2>3, <2>4, <2>5, CriticalStep DEF Others
<1> QED
  BY <1>4, <1>5

LEMMA FailMatchKeeps ==
  ASSUME IInv, NEW n \in Notifiers, FailMatch(n)
  PROVE  IInv'
<1>1. GivesUp(n)
  <2>1. left' = [left EXCEPT !.failure = @ - 1]
    BY DEF FailMatch
  <2>2. left'.failure = left.failure - 1 /\ left'.crash = left.crash /\ left'.change = left.change
    BY <2>1 DEF IInv, TypeOK
  <2>3. left'.failure + left'.crash + 1 = left.failure + left.crash
    BY <2>2, NatFacts
  <2> QED
    BY <2>2, <2>3 DEF FailMatch, GivesUp, Return, Goto
<1>2. LocalTypes' /\ holder' \in Notifiers \cup {Nobody}
  BY ReturnTypes DEF FailMatch, IInv
<1>3. left' \in [notifiers : SUBSET Notifiers, change : 0..MaxChanges,
                 failure : 0..MaxFailures, crash : 0..MaxCrashes]
  BY CardAssumption DEF FailMatch, IInv, TypeOK
<1>4. late' \subseteq Request
  BY LeftRequest DEF FailMatch, IInv, TypeOK
<1>5. TypeOK'
  BY <1>2, <1>3, <1>4 DEF FailMatch, IInv, TypeOK, LocalTypes, Labels
<1> QED
  BY <1>1, <1>5, GivesUpKeeps

LEMMA CrashKeeps ==
  ASSUME IInv, NEW n \in Notifiers, Crash(n)
  PROVE  IInv'
<1>1. GivesUp(n)
  <2>1. left' = [left EXCEPT !.crash = @ - 1]
    BY DEF Crash
  <2>2. left'.failure = left.failure /\ left'.crash = left.crash - 1 /\ left'.change = left.change
    BY <2>1 DEF IInv, TypeOK
  <2>3. left'.failure + left'.crash + 1 = left.failure + left.crash
    BY <2>2, NatFacts
  <2> QED
    BY <2>2, <2>3 DEF Crash, GivesUp, Goto
<1>2. LocalTypes'
  <2>1. 0 \in Contents
    BY CardAssumption DEF Contents
  <2> QED
    BY <2>1 DEF Crash, Goto, IInv, TypeOK, LocalTypes, Labels
<1>3. left' \in [notifiers : SUBSET Notifiers, change : 0..MaxChanges,
                 failure : 0..MaxFailures, crash : 0..MaxCrashes]
  BY CardAssumption DEF Crash, IInv, TypeOK
<1>4. late' \subseteq Request
  BY LeftRequest DEF Crash, IInv, TypeOK
<1>5. holder' \in Notifiers \cup {Nobody}
  BY DEF Crash, Release, IInv, TypeOK
<1>6. TypeOK'
  BY <1>2, <1>3, <1>4, <1>5 DEF Crash, IInv, TypeOK, LocalTypes, Labels
<1> QED
  BY <1>1, <1>6, GivesUpKeeps

LEMMA FailSelectKeeps ==
  ASSUME IInv, NEW n \in Notifiers, FailSelect(n)
  PROVE  IInv'
<1>1. TypeOK'
  <2>1. 0 \in Contents
    BY CardAssumption DEF Contents
  <2>2. left' \in [notifiers : SUBSET Notifiers, change : 0..MaxChanges,
                   failure : 0..MaxFailures, crash : 0..MaxCrashes]
    BY CardAssumption DEF FailSelect, IInv, TypeOK
  <2> QED
    BY <2>1, <2>2 DEF FailSelect, At, Goto, IInv, TypeOK, lark
<1>2. pc[n] = "select" /\ pc'[n] = "idle" /\ sequence' = sequence /\ card' = card
      /\ (\A m \in Notifiers : m # n => pc'[m] = pc[m])
  BY DEF FailSelect, At, Goto, IInv, TypeOK
<1>3. sequence[n] = 0
  BY <1>2 DEF IInv, Stage, Unset
<1>4. /\ left'.failure = left.failure - 1 /\ left'.crash = left.crash
      /\ left'.change = left.change /\ content' = content
  BY DEF FailSelect, IInv, TypeOK
<1>5. /\ left'.failure + left'.crash <= left.failure + left.crash
      /\ content' + left'.change <= content + left.change
  BY <1>4, NatFacts
<1> QED
  BY <1>1, <1>2, <1>3, <1>5, QuietStep
     DEF FailSelect, Others, Critical, Labels, IInv, Exclusive

LEMMA ChangeKeeps ==
  ASSUME IInv, Change
  PROVE  IInv'
<1>1. /\ UNCHANGED <<locals, holder, message, lark, recoveries>>
      /\ left.change > 0 /\ content' = content + 1
      /\ left'.change = left.change - 1 /\ left'.failure = left.failure
      /\ left'.crash = left.crash
  BY DEF Change, IInv, TypeOK
<1>2. Counted'
  BY <1>1, NatFacts DEF IInv, Counted, Mishaps, lark, locals
<1>3. content' \in Contents
  BY <1>1, NatFacts DEF IInv, Counted, Contents
<1>4. left' \in [notifiers : SUBSET Notifiers, change : 0..MaxChanges,
                 failure : 0..MaxFailures, crash : 0..MaxCrashes]
  BY CardAssumption DEF Change, IInv, TypeOK
<1>5. TypeOK'
  BY <1>1, <1>3, <1>4 DEF IInv, TypeOK, lark, locals
<1>6. Exclusive' /\ RecoveryAbove' /\ CardsKnown' /\ CardStaysWritable'
  BY <1>1 DEF IInv, Exclusive, RecoveryAbove, CardsKnown, CardStaysWritable, Below, lark, locals
<1>7. \A n \in Notifiers : Stage(n)'
  BY <1>1 DEF IInv, Stage, Updating, Creating, Unset, UpTo, Below, lark, locals
<1> QED
  BY <1>2, <1>5, <1>6, <1>7 DEF IInv

LEMMA ArriveLateKeeps ==
  ASSUME IInv, ArriveLate
  PROVE  IInv'
<1>1. PICK request \in late : cards' = Applied(request) /\ late' = late \ {request}
  BY DEF ArriveLate
<1>2. UNCHANGED <<content, locals, holder, message, shown, created, recoveries, left>>
  BY DEF ArriveLate
<1>3. request \in Request /\ request.card \in CardIds /\ request.card \in 1..created
      /\ request.sequence \in Nat
  BY <1>1 DEF IInv, TypeOK, Request, CardsKnown
<1>4. /\ cards' \in [CardIds -> Card]
      /\ \A c \in CardIds : c # request.card => cards'[c] = cards[c]
      /\ \/ cards'[request.card].sequence = request.sequence
         \/ cards'[request.card] = cards[request.card]
  BY <1>1, <1>3, AppliedFacts DEF IInv
<1>5. \A c \in CardIds :
        \/ cards'[c].sequence = cards[c].sequence
        \/ \E r \in late : r.card = c /\ cards'[c].sequence = r.sequence
  BY <1>1, <1>4
<1>6. late' \subseteq late
  BY <1>1
<1>7. TypeOK'
  BY <1>2, <1>4, <1>6 DEF IInv, TypeOK, locals
<1>8. \A n \in Notifiers : Stage(n)'
  <2>1. ASSUME NEW n \in Notifiers PROVE Stage(n)'
    <3>1. Stage(n)
      BY DEF IInv
    <3>2. message.card # NoCard => message.card \in CardIds
      BY DEF IInv, TypeOK
    <3>3. created # 0 => created \in CardIds
      BY DEF IInv, TypeOK
    <3>4. shown # NoCard => shown \in CardIds
      BY DEF IInv, TypeOK
    <3>5. Updating(n)'
      BY <1>2, <1>5, <1>6, <3>1, <3>2 DEF Stage, Updating, Below, locals
    <3>6. Creating(n)'
      BY <1>2, <1>5, <1>6, <3>1, <3>3, <3>4 DEF Stage, Creating, UpTo, Below, locals
    <3>7. Unset(n)'
      BY <1>2, <3>1 DEF Stage, Unset, locals
    <3> QED
      BY <3>5, <3>6, <3>7 DEF Stage
  <2> QED
    BY <2>1
<1>9. RecoveryAbove'
  BY <1>2, <1>5, <1>6 DEF IInv, RecoveryAbove, Below
<1>10. CardsKnown'
  <2>1. \A r \in late : r.card \in 1..created
    BY DEF IInv, CardsKnown
  <2>2. \A c \in CardIds : c > created => cards'[c].sequence = cards[c].sequence
    BY <1>5, <2>1, NatFacts DEF CardIds
  <2> QED
    BY <1>2, <1>6, <2>1, <2>2 DEF IInv, CardsKnown
<1>11. CardStaysWritable'
  <2>1. message.card # NoCard => shown \in CardIds
    BY DEF IInv, CardStaysWritable, TypeOK, NoCard
  <2> QED
    BY <1>2, <1>5, <1>6, <2>1 DEF IInv, CardStaysWritable
<1>12. Exclusive' /\ Counted'
  BY <1>2 DEF IInv, Exclusive, Counted, Mishaps, locals
<1> QED
  BY <1>7, <1>8, <1>9, <1>10, <1>11, <1>12 DEF IInv

-----------------------------------------------------------------------------
(* The theorems                                                            *)

LEMMA InitInv == Init => IInv
<1> SUFFICES ASSUME Init PROVE IInv
  OBVIOUS
<1>1. TypeOK
  BY CardAssumption DEF Init, TypeOK, Contents, CardIds, Card, NoCard
<1>2. Exclusive /\ (\A n \in Notifiers : Stage(n)) /\ CardStaysWritable
  BY DEF Init, Exclusive, Stage, Updating, Creating, Unset, CardStaysWritable, Critical
<1>3. RecoveryAbove /\ CardsKnown
  BY CardAssumption DEF Init, RecoveryAbove, CardsKnown, Below, NoCard
<1>4. Counted
  BY <1>1, CardAssumption DEF Init, TypeOK, Counted, Mishaps
<1> QED
  BY <1>1, <1>2, <1>3, <1>4 DEF IInv

LEMMA StepKeeps ==
  ASSUME IInv, NEW n \in Notifiers, Step(n)
  PROVE  IInv'
BY BeginScanKeeps, SelectMatchKeeps, QuietReturnKeeps, BuildPayloadKeeps, TakeLockKeeps,
   QueryMessageKeeps, UnchangedKeeps, ReserveSequenceKeeps, UpdateCardKeeps,
   SavePayloadKeeps, CreateCardKeeps, SendMessageKeeps, ResolveCardKeeps,
   ConvergeCardKeeps, SaveMessageKeeps DEF Step

LEMMA NextKeeps == IInv /\ [Next]_vars => IInv'
<1> SUFFICES ASSUME IInv, [Next]_vars PROVE IInv'
  OBVIOUS
<1>1. CASE Change \/ ArriveLate
  BY <1>1, ChangeKeeps, ArriveLateKeeps
<1>2. ASSUME NEW n \in Notifiers, Step(n) \/ FailMatch(n) \/ FailSelect(n) \/ Crash(n)
      PROVE  IInv'
  BY <1>2, StepKeeps, FailMatchKeeps, FailSelectKeeps, CrashKeeps
<1>3. CASE UNCHANGED vars
  <2>1. TypeOK' /\ Exclusive'
    BY <1>3 DEF IInv, TypeOK, Exclusive, vars, locals, lark
  <2>2. RecoveryAbove' /\ CardsKnown' /\ CardStaysWritable'
    BY <1>3 DEF IInv, RecoveryAbove, CardsKnown, CardStaysWritable, Below, vars, lark
  <2>3. \A n \in Notifiers : Stage(n)'
    BY <1>3 DEF IInv, Stage, Updating, Creating, Unset, UpTo, Below, vars, locals, lark
  <2>4. Counted'
    BY <1>3 DEF IInv, Counted, Mishaps, vars, locals, lark
  <2> QED
    BY <2>1, <2>2, <2>3, <2>4 DEF IInv
<1>4. left.notifiers \subseteq Notifiers
  BY DEF IInv, TypeOK
<1> QED
  BY <1>1, <1>2, <1>3, <1>4 DEF Next

LEMMA AlwaysIInv == Spec => []IInv
BY InitInv, NextKeeps, PTL DEF Spec

(***************************************************************************)
(* Every variable keeps its type, whatever notifiers run; in particular at *)
(* most one card is created for each failed call and each restart, and one *)
(* more (createChatMessage).                                               *)
(***************************************************************************)
THEOREM CardTypes == Spec => []TypeOK
<1>1. IInv => TypeOK
  BY DEF IInv
<1> QED
  BY <1>1, AlwaysIInv, PTL

(***************************************************************************)
(* The row names the card on show and bounds every sequence number used or *)
(* still under way on it, so that no later update is swallowed, for every  *)
(* number of notifiers, failures and restarts (updateChatMessage).         *)
(***************************************************************************)
THEOREM RowStaysAhead == Spec => []CardStaysWritable
<1>1. IInv => CardStaysWritable
  BY DEF IInv
<1> QED
  BY <1>1, AlwaysIInv, PTL

(***************************************************************************)
(* Lark takes no update sent under the lock for an old one, although       *)
(* requests given up before it arrive at any time                          *)
(* (IsCardUpdateAlreadyApplied).                                           *)
(***************************************************************************)
THEOREM UpdatesAlwaysLand == Spec => UpdatesLand
<1>1. IInv /\ [Next]_vars =>
        [\A n \in Notifiers :
           UpdateCard(n) \/ ConvergeCard(n) => cards'[card[n]].content = payload[n]]_vars
  BY UpdateCardKeeps, ConvergeCardKeeps
<1> QED
  BY <1>1, AlwaysIInv, PTL DEF Spec, UpdatesLand
=============================================================================
