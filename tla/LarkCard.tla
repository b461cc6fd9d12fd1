------------------------------ MODULE LarkCard ------------------------------
(***************************************************************************)
(* lark-notifier, for one match and one chat.  A notifier scans for        *)
(* matches changed since its last scan, renders the card of each, and      *)
(* under an advisory lock of PostgreSQL creates or updates the card in     *)
(* Lark.  The lark_messages row remembers which card the chat shows, the   *)
(* last sequence number used on it and the payload last delivered; Lark    *)
(* ignores an update whose sequence number is not above the last one.      *)
(* Two notifiers run while the leadership changes hands.                   *)
(***************************************************************************)
EXTENDS Naturals, FiniteSets

CONSTANTS
  Notifiers,     \* notifier processes
  MaxChanges,    \* bound on the changes of the match
  MaxFailures,   \* bound on failed calls
  MaxCrashes,    \* bound on restarts of a notifier
  Budgets,       \* which notifiers run, and what may happen in one behaviour
  Nobody,        \* the lock has no holder
  UnixTime       \* a Unix time, above any number of increments from zero

ASSUME CardAssumption ==
  /\ Notifiers # {}
  /\ MaxChanges \in Nat /\ MaxFailures \in Nat /\ MaxCrashes \in Nat
  /\ Nobody \notin Notifiers
  /\ Budgets \subseteq [notifiers : SUBSET Notifiers, change : 0..MaxChanges,
                         failure : 0..MaxFailures, crash : 0..MaxCrashes]
  /\ UnixTime \in Nat /\ UnixTime > MaxChanges + MaxFailures + MaxCrashes

Contents == 0..MaxChanges   \* 0: the match has no card yet
NoCard   == 0
CardIds  == 1..(MaxFailures + MaxCrashes + 1)

VARIABLES
  content,    \* what the card of the match ought to show; grows with each change
  pc,         \* next call of each notifier
  started,    \* the last change made before its scan began
  lastScan,   \* the last change that it takes for delivered
  payload,    \* the content it rendered
  card,       \* the card id it works on
  sequence,   \* the sequence number it will use
  holder,     \* holder of the advisory lock
  message,    \* the lark_messages row
  shown,      \* the card the chat's message refers to
  cards,      \* Lark's cards: content and last sequence number
  created,    \* number of cards created
  late,       \* updates that were given up but may still reach Lark
  recoveries, \* recovered cards; each takes a later Unix time
  left        \* what may still happen: changes, failures and crashes

locals == <<pc, started, lastScan, payload, card, sequence>>
lark   == <<shown, cards, created, late>>
vars   == <<content, locals, holder, message, lark, recoveries, left>>

Card    == [content : Contents, sequence : Nat]
Request == [card : CardIds, content : Contents, sequence : Nat]

TypeOK ==
  /\ content \in Contents
  /\ pc \in [Notifiers -> {"idle", "select", "build", "lock", "query", "reserve",
                           "update", "savePayload", "create", "send", "resolve",
                           "converge", "saveMessage"}]
  /\ started \in [Notifiers -> Contents]
  /\ lastScan \in [Notifiers -> Contents]
  /\ payload \in [Notifiers -> Contents]
  /\ card \in [Notifiers -> CardIds \cup {NoCard}]
  /\ sequence \in [Notifiers -> Nat]
  /\ holder \in Notifiers \cup {Nobody}
  /\ message \in [card : CardIds \cup {NoCard}, content : Contents, sequence : Nat]
  /\ shown \in CardIds \cup {NoCard}
  /\ cards \in [CardIds -> Card]
  /\ created \in CardIds \cup {0}
  /\ late \subseteq Request
  /\ recoveries \in Nat
  /\ left \in [notifiers : SUBSET Notifiers, change : 0..MaxChanges,
              failure : 0..MaxFailures, crash : 0..MaxCrashes]

Init ==
  /\ content = 0
  /\ pc = [n \in Notifiers |-> "idle"]
  /\ started = [n \in Notifiers |-> 0]
  /\ lastScan = [n \in Notifiers |-> 0]
  /\ payload = [n \in Notifiers |-> 0]
  /\ card = [n \in Notifiers |-> NoCard]
  /\ sequence = [n \in Notifiers |-> 0]
  /\ holder = Nobody
  /\ message = [card |-> NoCard, content |-> 0, sequence |-> 0]
  /\ shown = NoCard
  /\ cards = [c \in CardIds |-> [content |-> 0, sequence |-> 0]]
  /\ created = 0
  /\ late = {}
  /\ recoveries = 0
  /\ left \in Budgets

\* A row of the match, its rounds, records or highlights is written.
Change ==
  /\ left.change > 0 /\ left' = [left EXCEPT !.change = @ - 1]
  /\ content' = content + 1
  /\ UNCHANGED <<locals, holder, message, lark, recoveries>>

-----------------------------------------------------------------------------
(***************************************************************************)
(* One scan.                                                               *)
(***************************************************************************)

At(n, label) == pc[n] = label

Goto(n, label) == pc' = [pc EXCEPT ![n] = label]

Release(n) == holder' = IF holder = n THEN Nobody ELSE holder

\* Faulty variant: the window of the next scan begins where this one ended.
WindowAfterEnd(n) == content

\* The next scan looks for changes made after this one began.
WindowAfter(n) == started[n]

\* SyncWindow returns nil: the scan counts as successful.
Return(n) ==
  /\ Goto(n, "idle")
  /\ Release(n)
  /\ lastScan' = [lastScan EXCEPT ![n] = WindowAfter(n)]
  /\ started' = [started EXCEPT ![n] = 0]
  /\ payload' = [payload EXCEPT ![n] = 0]
  /\ card' = [card EXCEPT ![n] = NoCard]
  /\ sequence' = [sequence EXCEPT ![n] = 0]

BeginScan(n) ==
  /\ At(n, "idle")
  /\ started' = [started EXCEPT ![n] = content]
  /\ Goto(n, "select")
  /\ UNCHANGED <<content, lastScan, payload, card, sequence, holder, message,
                 lark, recoveries, left>>

\* The window overlaps the last scan by five seconds, so that a change
\* delivered already may be selected once more.
SelectMatch(n) ==
  /\ At(n, "select")
  /\ Goto(n, "build")
  /\ UNCHANGED <<content, started, lastScan, payload, card, sequence, holder,
                 message, lark, recoveries, left>>

SelectNothing(n) ==
  /\ At(n, "select")
  /\ content <= lastScan[n]
  /\ Return(n)
  /\ UNCHANGED <<content, message, lark, recoveries, left>>

\* The card is rendered before the lock is taken.
BuildPayload(n) ==
  /\ At(n, "build")
  /\ content # 0
  /\ payload' = [payload EXCEPT ![n] = content]
  /\ Goto(n, "lock")
  /\ UNCHANGED <<content, started, lastScan, card, sequence, holder, message,
                 lark, recoveries, left>>

NoCardYet(n) ==
  /\ At(n, "build")
  /\ content = 0
  /\ Return(n)
  /\ UNCHANGED <<content, message, lark, recoveries, left>>

TakeLock(n) ==
  /\ At(n, "lock")
  /\ holder = Nobody
  /\ holder' = n
  /\ Goto(n, "query")
  /\ UNCHANGED <<content, started, lastScan, payload, card, sequence, message,
                 lark, recoveries, left>>

\* applyChatUpdate: the row decides between creating and updating.
QueryMessage(n) ==
  /\ At(n, "query")
  /\ \/ message.card = NoCard /\ Goto(n, "create")
     \/ message.card # NoCard /\ message.content # payload[n] /\ Goto(n, "reserve")
  /\ card' = [card EXCEPT ![n] = message.card]
  /\ UNCHANGED <<content, started, lastScan, payload, sequence, holder, message,
                 lark, recoveries, left>>

Unchanged(n) ==
  /\ At(n, "query")
  /\ message.card # NoCard
  /\ message.content = payload[n]
  /\ Return(n)
  /\ UNCHANGED <<content, message, lark, recoveries, left>>

\* Faulty variant: the sequence number is not reserved before it is used.
ReserveNothing(n) ==
  /\ At(n, "reserve")
  /\ sequence' = [sequence EXCEPT ![n] = message.sequence + 1]
  /\ Goto(n, "update")
  /\ UNCHANGED <<content, started, lastScan, payload, card, holder, message,
                 lark, recoveries, left>>

ReserveSequence(n) ==
  /\ At(n, "reserve")
  /\ message' = [message EXCEPT !.sequence = @ + 1]
  /\ sequence' = [sequence EXCEPT ![n] = message.sequence + 1]
  /\ Goto(n, "update")
  /\ UNCHANGED <<content, started, lastScan, payload, card, holder,
                 lark, recoveries, left>>

\* What Lark makes of an update; a stale one is answered with a code that the
\* notifier takes for success.
Applied(request) ==
  IF request.sequence > cards[request.card].sequence
  THEN [cards EXCEPT ![request.card] = [content |-> request.content,
                                        sequence |-> request.sequence]]
  ELSE cards

RequestOf(n) == [card |-> card[n], content |-> payload[n], sequence |-> sequence[n]]

UpdateCard(n) ==
  /\ At(n, "update")
  /\ cards' = Applied(RequestOf(n))
  /\ Goto(n, "savePayload")
  /\ UNCHANGED <<content, started, lastScan, payload, card, sequence, holder,
                 message, shown, created, late, recoveries, left>>

SavePayload(n) ==
  /\ At(n, "savePayload")
  /\ message' = [message EXCEPT !.content = payload[n]]
  /\ Return(n)
  /\ UNCHANGED <<content, lark, recoveries, left>>

-----------------------------------------------------------------------------
(***************************************************************************)
(* createChatMessage.                                                      *)
(***************************************************************************)

CreateCard(n) ==
  /\ At(n, "create")
  /\ created' = created + 1
  /\ cards' = [cards EXCEPT ![created + 1] = [content |-> payload[n], sequence |-> 0]]
  /\ card' = [card EXCEPT ![n] = created + 1]
  /\ Goto(n, "send")
  /\ UNCHANGED <<content, started, lastScan, payload, sequence, holder, message,
                 shown, late, recoveries, left>>

\* Messages with the UUID of this match and chat are sent only once: a second
\* one is answered with the id of the first.
SendMessage(n) ==
  /\ At(n, "send")
  /\ shown' = IF shown = NoCard THEN card[n] ELSE shown
  /\ Goto(n, "resolve")
  /\ UNCHANGED <<content, started, lastScan, payload, card, sequence, holder,
                 message, cards, created, late, recoveries, left>>

\* Faulty variant: the card just created is taken for the card of the message.
ResolveNothing(n) ==
  /\ At(n, "resolve")
  /\ Goto(n, "saveMessage")
  /\ UNCHANGED <<content, started, lastScan, payload, card, sequence, holder,
                 message, lark, recoveries, left>>

\* The card of an earlier attempt is recovered with a Unix time as sequence.
ResolveCard(n) ==
  /\ At(n, "resolve")
  /\ card' = [card EXCEPT ![n] = shown]
  /\ IF shown = card[n]
     THEN Goto(n, "saveMessage") /\ UNCHANGED <<sequence, recoveries>>
     ELSE /\ Goto(n, "converge")
          /\ sequence' = [sequence EXCEPT ![n] = UnixTime + recoveries]
          /\ recoveries' = recoveries + 1
  /\ UNCHANGED <<content, started, lastScan, payload, holder, message, lark, left>>

ConvergeCard(n) ==
  /\ At(n, "converge")
  /\ cards' = Applied(RequestOf(n))
  /\ Goto(n, "saveMessage")
  /\ UNCHANGED <<content, started, lastScan, payload, card, sequence, holder,
                 message, shown, created, late, recoveries, left>>

SaveMessage(n) ==
  /\ At(n, "saveMessage")
  /\ message' = RequestOf(n)
  /\ Return(n)
  /\ UNCHANGED <<content, lark, recoveries, left>>

Step(n) ==
  \/ BeginScan(n) \/ SelectMatch(n) \/ SelectNothing(n) \/ BuildPayload(n)
  \/ NoCardYet(n) \/ TakeLock(n) \/ QueryMessage(n) \/ Unchanged(n)
  \/ ReserveSequence(n) \/ UpdateCard(n) \/ SavePayload(n)
  \/ CreateCard(n) \/ SendMessage(n) \/ ResolveCard(n) \/ ConvergeCard(n)
  \/ SaveMessage(n)

-----------------------------------------------------------------------------
(***************************************************************************)
(* Failures.  A request that was given up may still be on its way.         *)
(***************************************************************************)

LeaveRequest(n) ==
  \/ UNCHANGED late
  \/ pc[n] \in {"update", "converge"} /\ late' = late \cup {RequestOf(n)}

\* A call for the match fails or the two minutes of the scan are over: the
\* error is logged and the scan counts as successful all the same.
FailMatch(n) ==
  /\ pc[n] \notin {"idle", "select"}
  /\ left.failure > 0 /\ left' = [left EXCEPT !.failure = @ - 1]
  /\ Return(n)
  /\ LeaveRequest(n)
  /\ UNCHANGED <<content, message, shown, cards, created, recoveries>>

\* The query for the changed matches fails: the next scan repeats the window.
FailSelect(n) ==
  /\ At(n, "select")
  /\ left.failure > 0 /\ left' = [left EXCEPT !.failure = @ - 1]
  /\ Goto(n, "idle")
  /\ started' = [started EXCEPT ![n] = 0]
  /\ UNCHANGED <<content, lastScan, payload, card, sequence, holder, message,
                 lark, recoveries>>

\* A restarted notifier begins with the changes of the last thirty minutes.
Crash(n) ==
  /\ left.crash > 0 /\ left' = [left EXCEPT !.crash = @ - 1]
  /\ Goto(n, "idle")
  /\ Release(n)
  /\ lastScan' = [lastScan EXCEPT ![n] = 0]
  /\ started' = [started EXCEPT ![n] = 0]
  /\ payload' = [payload EXCEPT ![n] = 0]
  /\ card' = [card EXCEPT ![n] = NoCard]
  /\ sequence' = [sequence EXCEPT ![n] = 0]
  /\ LeaveRequest(n)
  /\ UNCHANGED <<content, message, shown, cards, created, recoveries>>

ArriveLate ==
  \E request \in late :
    /\ cards' = Applied(request)
    /\ late' = late \ {request}
    /\ UNCHANGED <<content, locals, holder, message, shown, created, recoveries, left>>

Next ==
  \/ Change \/ ArriveLate
  \/ \E n \in left.notifiers : Step(n) \/ FailMatch(n) \/ FailSelect(n) \/ Crash(n)

Spec == Init /\ [][Next]_vars

\* The ten-second ticker of runScanner keeps each notifier scanning.
FairSpec == Spec /\ \A n \in Notifiers : WF_vars(n \in left.notifiers /\ Step(n))

-----------------------------------------------------------------------------
(***************************************************************************)
(* The row names the card that the chat shows, and no sequence number used *)
(* or still under way on that card is above the one in the row; otherwise  *)
(* later updates would be swallowed (createChatMessage's recovery and the  *)
(* reservation in updateChatMessage).                                      *)
(***************************************************************************)
CardStaysWritable ==
  message.card # NoCard =>
    /\ message.card = shown
    /\ cards[shown].sequence <= message.sequence
    /\ \A request \in late :
         request.card = shown => request.sequence <= message.sequence

(***************************************************************************)
(* An update sent under the lock is never rejected as stale, although      *)
(* earlier ones were given up and arrive late: IsCardUpdateAlreadyApplied  *)
(* takes the rejection for success and the row would claim a delivery that *)
(* did not happen.                                                         *)
(***************************************************************************)
UpdatesLand ==
  [][\A n \in Notifiers :
       (UpdateCard(n) \/ ConvergeCard(n)) => cards'[card[n]].content = payload[n]]_vars

CardFollows ==
  <>[](content # 0 => shown # NoCard /\ cards[shown].content = content)

(***************************************************************************)
(* The chat ends up with a card that shows the current state of the match  *)
(* if there is one notifier and its calls succeed: restarts alone, at any  *)
(* point of a delivery, lose no change (runScanner's window).  A failed    *)
(* call does lose one, since SyncWindow counts as successful after it.     *)
(***************************************************************************)
CardFollowsUndisturbed ==
  [](left.failure = 0 /\ Cardinality(left.notifiers) = 1) => CardFollows
=============================================================================
