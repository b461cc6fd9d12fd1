----------------------------- MODULE RoundCapture -----------------------------
(***************************************************************************)
(* The jobs that capture one running round: a record-job per camera role   *)
(* (record-job/main.go, run) and the danmu-job that takes down the chat    *)
(* room (danmu-job/src/main.ts).  They share the round's row, which tells  *)
(* them when to stop, and the record metadata in the round's directory,    *)
(* which tells the danmu-job where the time of the main recording begins.  *)
(* Argo starts a recorder again when its pod is lost.                      *)
(*                                                                         *)
(* A recording is the set of ticks of the broadcast it holds; tick t ends  *)
(* when the clock shows t.  A stream may fail to deliver a tick, since     *)
(* ffmpeg reconnects to it by itself.  The role with sound (KeepAudio) is  *)
(* Main; the others are Side.                                              *)
(***************************************************************************)
EXTENDS Naturals, FiniteSets, Sequences

CONSTANTS
  Main,       \* the role recorded with sound
  Side,       \* the other roles
  Messages,   \* bound: messages of the audience
  Rounds,     \* the rounds looked at: the roles recorded, the messages of its
              \* audience, and a bound for the mishaps (pods and connections lost,
              \* streams stalled or given up, queries failed or timed out)
  Length,     \* bound: ticks of broadcast looked at
  HistoryLimit, \* how many messages the history query asks for
  Retries     \* how often Argo starts a lost recorder again (retry limit)

Roles == Side \cup {Main}
Chat  == 1..Messages    \* numbered in the order in which they are sent

ASSUME RolesApart == Main \notin Side
ASSUME CaptureAssumption ==
  /\ Rounds \subseteq [roles: SUBSET Roles, messages: 0..Messages, mishaps: Nat]
  /\ Messages \in Nat /\ Length \in Nat /\ HistoryLimit \in Nat /\ Retries \in Nat

Never == Length + 1
NoFile == {}
NoMeta == Never

VARIABLES
  round,                           \* the round that is captured
  now, endedAt,                    \* the broadcast's clock; when the row became ENDED
  step, part, full,                \* the recorders and their files
  zero, gone,                      \* when Main's recorder was last started, and the
                                   \* ticks its stream has not delivered since
  tries,                           \* recorders started again
  meta,                            \* Main's record metadata in the round's directory
  danmu,                           \* the danmu-job
  xml,                             \* how often each message was taken down
  sentAt,                          \* when the messages sent so far were sent
  unheard,                         \* history variable: messages sent so far that the
                                   \* room did not pass to the present client and its
                                   \* history does not contain
  spent                            \* mishaps and late answers so far

clock == <<round, now, endedAt>>
recorders == <<step, part, full, zero, gone, tries, meta>>
chat == <<danmu, xml, sentAt, unheard>>
vars == <<clock, recorders, chat, spent>>

Ended == endedAt # Never
Sent == DOMAIN sentAt
Latest == {m \in Sent : m + HistoryLimit > Len(sentAt)}

Mishap == spent.mishaps < round.mishaps /\ spent' = [spent EXCEPT !.mishaps = @ + 1]

Init ==
  /\ round \in Rounds
  /\ now = 0 /\ endedAt = Never
  /\ step = [r \in Roles |-> IF r \in round.roles THEN "queued" ELSE "absent"]
  /\ zero = 0 /\ gone = {}
  /\ part = [r \in Roles |-> NoFile] /\ full = [r \in Roles |-> NoFile]
  /\ tries = [r \in Roles |-> 0]
  /\ meta = NoMeta
  /\ danmu = [at |-> "meta", zero |-> 0, room |-> FALSE, up |-> FALSE,
              answer |-> {}, pending |-> {}, seen |-> {}]
  /\ xml = [m \in Chat |-> 0]
  /\ sentAt = <<>> /\ unheard = {}
  /\ spent = [mishaps |-> 0, late |-> 0]

-----------------------------------------------------------------------------
(* The broadcast and the round's row.                                      *)

Writing(r) == step[r] \in {"recording", "stopping"}

(* Time goes on: ffmpeg appends what its stream delivers to the partial    *)
(* file.  A stream may stall while ffmpeg tries to reconnect to it.        *)
Tick ==
  /\ now < Length /\ now' = now + 1
  /\ \E dry \in SUBSET {r \in Roles : Writing(r)} :
       /\ IF dry = {} THEN spent' = spent ELSE Mishap
       /\ gone' = IF Main \in dry THEN gone \cup {now'} ELSE gone
       /\ part' = [r \in Roles |-> IF Writing(r) /\ r \notin dry
                                  THEN part[r] \cup {now'} ELSE part[r]]
  /\ UNCHANGED <<round, endedAt, step, zero, full, tries, meta, chat>>

EndRound ==
  /\ ~Ended /\ endedAt' = now
  /\ UNCHANGED <<round, now, recorders, chat, spent>>

-----------------------------------------------------------------------------
(* record-job.                                                             *)

(* A recorder begins with what may be left of an earlier attempt: it       *)
(* removes the partial file; a recording that was committed stays until    *)
(* the next one replaces it.                                               *)
StartRecord(r) ==
  /\ step[r] = "queued"
  /\ step' = [step EXCEPT ![r] = "recording"]
  /\ zero' = IF r = Main THEN now ELSE zero
  /\ part' = [part EXCEPT ![r] = NoFile]
  /\ meta' = IF r = Main THEN now ELSE meta
  /\ gone' = IF r = Main THEN {} ELSE gone
  /\ UNCHANGED <<clock, full, tries, chat, spent>>

\* Faulty variant: only the first attempt polls the round's row.
SeeEndedOnce(r) ==
  /\ step[r] = "recording" /\ Ended /\ tries[r] = 0
  /\ step' = [step EXCEPT ![r] = "stopping"]
  /\ UNCHANGED <<clock, gone, zero, part, full, tries, meta, chat, spent>>

(* The poller reads ENDED; it asks ffmpeg to stop after StopDelaySeconds.  *)
SeeEnded(r) ==
  /\ step[r] = "recording" /\ Ended
  /\ step' = [step EXCEPT ![r] = "stopping"]
  /\ UNCHANGED <<clock, gone, zero, part, full, tries, meta, chat, spent>>

FfmpegStops(r) ==
  /\ step[r] = "stopping"
  /\ step' = [step EXCEPT ![r] = "commit"]
  /\ UNCHANGED <<clock, gone, zero, part, full, tries, meta, chat, spent>>

\* Faulty variant: the main role may commit early footage as well.
CanCommitAnyPartial(r) == part[r] # NoFile

CanCommitPartial(r) == r # Main /\ part[r] # NoFile

(* ffmpeg exits though nobody asked it to.  A role that may not commit     *)
(* what it has removes the metadata, whichever role it is.                 *)
FfmpegExits(r) ==
  /\ step[r] = "recording"
  /\ Mishap
  /\ IF CanCommitPartial(r)
     THEN step' = [step EXCEPT ![r] = "commit"] /\ meta' = meta
     ELSE step' = [step EXCEPT ![r] = "failed"] /\ meta' = NoMeta
  /\ UNCHANGED <<clock, gone, zero, part, full, tries, chat>>

(* The rename to the final name; without a partial file it fails. *)
Commit(r) ==
  /\ step[r] = "commit"
  /\ IF part[r] = NoFile
     THEN /\ step' = [step EXCEPT ![r] = "failed"]
          /\ meta' = IF r = Main THEN NoMeta ELSE meta
          /\ UNCHANGED <<part, full>>
     ELSE /\ step' = [step EXCEPT ![r] = "checksum"]
          /\ full' = [full EXCEPT ![r] = part[r]]
          /\ part' = [part EXCEPT ![r] = NoFile]
          /\ meta' = meta
  /\ UNCHANGED <<clock, gone, zero, tries, chat, spent>>

\* Faulty variant: the final metadata carries the time of completion.
FinishRecordWithNow(r) ==
  /\ step[r] = "checksum"
  /\ step' = [step EXCEPT ![r] = "done"]
  /\ meta' = IF r = Main THEN now ELSE meta
  /\ UNCHANGED <<clock, gone, zero, part, full, tries, chat, spent>>

FinishRecord(r) ==
  /\ step[r] = "checksum"
  /\ step' = [step EXCEPT ![r] = "done"]
  /\ meta' = IF r = Main THEN zero ELSE meta
  /\ UNCHANGED <<clock, gone, zero, part, full, tries, chat, spent>>

(* The pod is lost; Argo's retryStrategy OnError starts another. *)
LosePod(r) ==
  /\ step[r] \in {"recording", "stopping", "commit", "checksum"}
  /\ Mishap
  /\ IF tries[r] < Retries
     THEN step' = [step EXCEPT ![r] = "queued"] /\ tries' = [tries EXCEPT ![r] = @ + 1]
     ELSE step' = [step EXCEPT ![r] = "error"] /\ tries' = tries
  /\ UNCHANGED <<clock, gone, zero, part, full, meta, chat>>

Record(r) ==
  \/ StartRecord(r) \/ SeeEnded(r) \/ FfmpegStops(r) \/ Commit(r) \/ FinishRecord(r)

-----------------------------------------------------------------------------
(* danmu-job.                                                              *)

\* Faulty variant: the pending messages are not checked against the history.
Written_NotSeen(ms, seen) == {m \in ms : sentAt[m] >= danmu.zero}

(* writeMessageIfValid for a batch: what was seen is dropped, the rest is  *)
(* remembered, and what precedes the recording is not written.             *)
Written(ms, seen) == {m \in ms \ seen : sentAt[m] >= danmu.zero}
Add(ms, more) ==
  [m \in Chat |-> xml[m] + Cardinality({m} \cap ms) + Cardinality({m} \cap more)]

ReadMeta ==
  /\ danmu.at = "meta" /\ meta # NoMeta
  /\ danmu' = [danmu EXCEPT !.at = "connect", !.zero = meta]
  /\ UNCHANGED <<clock, recorders, xml, sentAt, unheard, spent>>

(* The client joins the room: from here on its handler is called, and      *)
(* keeps what comes in until the history has been written.  What was sent  *)
(* before can only come from the history.                                  *)
Connect ==
  /\ danmu.at = "connect" /\ ~Ended
  /\ danmu' = [danmu EXCEPT !.at = "joined", !.up = TRUE, !.pending = {}, !.seen = {}]
  /\ unheard' = Sent
  /\ UNCHANGED <<clock, recorders, xml, sentAt, spent>>

NotConnected ==
  /\ danmu.at = "connect" /\ Ended
  /\ danmu' = [danmu EXCEPT !.at = "wait", !.up = FALSE]
  /\ UNCHANGED <<clock, recorders, xml, sentAt, unheard, spent>>

(* LeanCloud answers the history query with the latest messages of the     *)
(* room, in time or not.                                                   *)
AnswerHistory ==
  /\ danmu.up
  /\ danmu' = [danmu EXCEPT !.at = IF @ = "joined" THEN "history" ELSE "late",
                            !.answer = Latest]
  /\ \/ danmu.at = "joined" /\ unheard' = unheard \ Latest
     \/ danmu.at = "closing" /\ unheard' = unheard
  /\ UNCHANGED <<clock, recorders, xml, sentAt, spent>>

\* Faulty variant: what came in during hydration is dropped.
HydrateHistoryOnly ==
  /\ danmu.at = "history"
  /\ xml' = Add(Written(danmu.answer, danmu.seen), {})
  /\ danmu' = [danmu EXCEPT !.at = "wait", !.room = TRUE, !.pending = {},
                            !.seen = @ \cup danmu.answer, !.answer = {}]
  /\ UNCHANGED <<clock, recorders, sentAt, unheard, spent>>

(* The history is written, then what came in meanwhile. *)
Hydrate ==
  /\ danmu.at = "history"
  /\ LET seen == danmu.seen \cup danmu.answer
     IN /\ xml' = Add(Written(danmu.answer, danmu.seen), Written(danmu.pending, seen))
        /\ danmu' = [danmu EXCEPT !.at = "wait", !.room = TRUE,
                                  !.seen = seen \cup danmu.pending, !.pending = {},
                                  !.answer = {}]
  /\ UNCHANGED <<clock, recorders, sentAt, unheard, spent>>

InRoom == danmu.at \in {"joined", "history"} \/ (danmu.at = "wait" /\ danmu.room)

(* The connection to LeanCloud is lost.  The job only logs that: it        *)
(* neither joins again nor asks for the history again, and the SDK may     *)
(* come back by itself, or not.                                            *)
Disconnect ==
  /\ InRoom /\ danmu.up
  /\ Mishap
  /\ danmu' = [danmu EXCEPT !.up = FALSE]
  /\ UNCHANGED <<clock, recorders, xml, sentAt, unheard>>

Reconnect ==
  /\ InRoom /\ ~danmu.up
  /\ danmu' = [danmu EXCEPT !.up = TRUE]
  /\ UNCHANGED <<clock, recorders, xml, sentAt, unheard, spent>>

(* The race is lost to the timer, at the latest when the connection is     *)
(* lost: the client is closed, and the job waits for that before it        *)
(* connects again.                                                         *)
ConnectTimesOut ==
  /\ danmu.at \in {"joined", "history"}
  /\ IF danmu.up THEN Mishap ELSE spent' = spent
  /\ danmu' = [danmu EXCEPT !.at = IF @ = "joined" THEN "closing" ELSE "late"]
  /\ UNCHANGED <<clock, recorders, xml, sentAt, unheard>>

(* The query that lost the race was not cancelled: an answer that arrives  *)
(* while the client closes is still written.                               *)
LateHistory ==
  /\ danmu.at = "late"
  /\ xml' = Add(Written(danmu.answer, danmu.seen), {})
  /\ danmu' = [danmu EXCEPT !.at = "connect", !.answer = {}]
  /\ spent' = [spent EXCEPT !.late = @ + 1]
  /\ UNCHANGED <<clock, recorders, sentAt, unheard>>

ClientClosed ==
  /\ danmu.at \in {"closing", "late"}
  /\ danmu' = [danmu EXCEPT !.at = "connect", !.answer = {}]
  /\ UNCHANGED <<clock, recorders, xml, sentAt, unheard, spent>>

\* Faulty variant: only a connected job looks at the round's row.
StopDanmuInRoom ==
  /\ danmu.at = "wait" /\ Ended /\ danmu.room
  /\ danmu' = [danmu EXCEPT !.at = "done", !.seen = {}]
  /\ UNCHANGED <<clock, recorders, xml, sentAt, unheard, spent>>

StopDanmu ==
  /\ danmu.at = "wait" /\ Ended
  /\ danmu' = [danmu EXCEPT !.at = "done", !.seen = {}]
  /\ UNCHANGED <<clock, recorders, xml, sentAt, unheard, spent>>

(* A query of the round's row fails, or the pod is lost: the job has no    *)
(* retryStrategy.                                                          *)
FailDanmu ==
  /\ danmu.at \in {"connect", "wait"}
  /\ Mishap
  /\ danmu' = [danmu EXCEPT !.at = "failed", !.seen = {}]
  /\ UNCHANGED <<clock, recorders, xml, sentAt, unheard>>

(* A message is sent; the handler of the room gets it when one is there    *)
(* and connected.  What is sent after the job has ended does not matter    *)
(* any more.                                                               *)
Send(m) ==
  /\ m = Len(sentAt) + 1 /\ m <= round.messages
  /\ danmu.at \notin {"done", "failed"}
  /\ sentAt' = Append(sentAt, now)
  /\ UNCHANGED <<clock, recorders, spent>>
  /\ \/ /\ danmu.at \in {"joined", "history"} /\ danmu.up
        /\ danmu' = [danmu EXCEPT !.pending = @ \cup {m}]
        /\ UNCHANGED <<xml, unheard>>
     \/ /\ danmu.at = "wait" /\ danmu.room /\ danmu.up
        /\ danmu' = [danmu EXCEPT !.seen = @ \cup {m}]
        /\ xml' = IF now >= danmu.zero THEN Add({m} \ danmu.seen, {}) ELSE xml
        /\ UNCHANGED unheard
     \/ /\ ~(InRoom /\ danmu.up)
        /\ unheard' = unheard \cup {m}
        /\ UNCHANGED <<danmu, xml>>

Danmu ==
  \/ ReadMeta \/ Connect \/ NotConnected \/ AnswerHistory \/ Hydrate
  \/ ConnectTimesOut \/ ClientClosed \/ StopDanmu

-----------------------------------------------------------------------------
Next ==
  \/ Tick \/ EndRound
  \/ \E r \in Roles : Record(r) \/ FfmpegExits(r) \/ LosePod(r)
  \/ Danmu \/ LateHistory \/ FailDanmu \/ Disconnect \/ Reconnect
  \/ \E m \in Chat : Send(m)

Fairness ==
  /\ \A r \in Roles : WF_vars(Record(r))
  /\ WF_vars(Danmu)

CaptureSpec == Init /\ [][Next]_vars /\ Fairness

-----------------------------------------------------------------------------
(* Properties.                                                             *)

Recordings == SUBSET (1..Length)

(* Every variable keeps to its type; in particular a recorder is started   *)
(* again no more often than Argo's retry limit allows.                     *)
TypeOK ==
  /\ round \in Rounds /\ now \in 0..Length /\ endedAt \in 0..Never
  /\ step \in [Roles -> {"queued", "recording", "stopping", "commit", "checksum",
                         "done", "failed", "error", "absent"}]
  /\ part \in [Roles -> Recordings] /\ full \in [Roles -> Recordings]
  /\ gone \in Recordings /\ zero \in 0..Length
  /\ tries \in [Roles -> 0..Retries]
  /\ meta \in 0..Never
  /\ danmu.at \in {"meta", "connect", "joined", "history", "closing", "late",
                   "wait", "done", "failed"}
  /\ danmu.zero \in 0..Length /\ danmu.room \in BOOLEAN /\ danmu.up \in BOOLEAN
  /\ \A ms \in {danmu.answer, danmu.pending, danmu.seen, unheard} : ms \subseteq Chat
  /\ xml \in [Chat -> Nat] /\ sentAt \in Seq(0..Length) /\ Len(sentAt) <= Messages

(* Hydration reads the history while the handler already holds messages    *)
(* back, so the same message may reach the job twice; it is taken down     *)
(* twice only if a query that timed out was answered after all             *)
(* (writeMessageIfValid, connectLeanCloud).                                *)
OnlyLateAnswersRepeat == \A m \in Chat : xml[m] <= 1 + spent.late

(* What a job that was connected has not taken down of the messages sent   *)
(* since the recording began was out of its reach: sent while it was not   *)
(* in the room, or had lost its connection, and no longer or not yet in    *)
(* the history when that was asked for.  Nothing is lost between history   *)
(* and handler or between two attempts (connectLeanCloud subscribes before *)
(* it asks for the history).                                               *)
NothingMissed ==
  danmu.at = "done" /\ danmu.room =>
    \A m \in Sent : sentAt[m] >= danmu.zero /\ xml[m] = 0 => m \in unheard

(* A finished main recording holds, of the round, exactly what its stream  *)
(* delivered from the last start of the recorder to the end of the round:  *)
(* it is only committed once the row was seen ENDED, whatever ffmpeg and   *)
(* the pods did before, and nothing of an earlier attempt gets into it     *)
(* (canCommitPartialRecord).  If the last start was after the end, that is *)
(* nothing, even if an earlier attempt had committed the round.            *)
HoldsWhatAired ==
  step[Main] = "done" =>
    /\ Ended
    /\ full[Main] \cap (1..endedAt) = (zero + 1 .. endedAt) \ gone

(* The clock of the chat is that of the finished main recording, if the    *)
(* recorder was not started again: the recording holds nothing from before *)
(* its zero and what comes first after it, unless the stream delivered     *)
(* nothing then (media_time_zero_wall_at is written twice and read at any  *)
(* time).                                                                  *)
OneClock ==
  step[Main] = "done" /\ tries[Main] = 0 /\ danmu.at # "meta" =>
    /\ \A t \in full[Main] : t > danmu.zero
    /\ danmu.zero + 1 \in full[Main] \cup gone

(* Once the round has ended every recorder stops, restarted ones too (the  *)
(* poller of run).                                                         *)
RecordersEnd ==
  Ended ~> \A r \in Roles : step[r] \in {"done", "failed", "error", "absent"}

(* Once it has the main recording's metadata the danmu-job stops with the  *)
(* round, connected or not (connectLeanCloudWithRetry, waitForRoundEnded). *)
DanmuFollows == Ended /\ danmu.at # "meta" ~> danmu.at \in {"done", "failed"}

(* The danmu-job of a round that was recorded with sound stops with the    *)
(* round.                                                                  *)
DanmuEnds ==
  Ended /\ step[Main] = "done" ~> danmu.at \in {"done", "failed"}
=============================================================================
