------------------------- MODULE RoundCaptureProofs -------------------------
(***************************************************************************)
(* Proofs about RoundCapture, for any roles, messages, retries, mishaps    *)
(* and history limit: types, what a finished main recording holds and      *)
(* whose clock the chat runs on, and that what the room or its history     *)
(* offered is taken down and, late answers aside, once.  The recorders and *)
(* the danmu-job only meet in the round's row and the record metadata, so  *)
(* the invariant has one half for each.                                    *)
(***************************************************************************)
EXTENDS RoundCapture, FiniteSetTheorems, TLAPS

-----------------------------------------------------------------------------
(* The inductive invariant                                                 *)

JobStates ==
  {"meta", "connect", "joined", "history", "closing", "late", "wait", "done", "failed"}

DanmuRecords ==
  [at : JobStates, zero : 0..Length, room : BOOLEAN, up : BOOLEAN,
   answer : SUBSET Chat, pending : SUBSET Chat, seen : SUBSET Chat]

Types ==
  /\ TypeOK
  /\ danmu \in DanmuRecords
  /\ spent \in [mishaps : Nat, late : Nat]

\* What a file of Main holds if it is that of the present attempt.
OfThisAttempt(file) ==
  /\ file \cap (1..endedAt) = (zero + 1 .. endedAt) \ gone
  /\ \A t \in file : t > zero
  /\ file # NoFile => zero + 1 \in file \cup gone

\* Main's recorder stops for the end of the round, and only then; until then
\* its partial file has whatever the stream delivered since it was started.
Recording ==
  /\ Ended => endedAt <= now
  /\ zero <= now /\ gone \subseteq 1..now
  /\ step[Main] \in {"stopping", "commit", "checksum", "done"} => Ended
  /\ Writing(Main) => part[Main] = (zero + 1 .. now) \ gone
  /\ step[Main] = "commit" => OfThisAttempt(part[Main])
  /\ step[Main] \in {"checksum", "done"} =>
       OfThisAttempt(full[Main]) /\ full[Main] # NoFile

\* The metadata anyone may have read are those of the running attempt.
Metadata ==
  /\ meta = NoMeta \/ meta \in 0..Length
  /\ tries[Main] = 0 =>
       /\ step[Main] = "queued" => meta = NoMeta /\ danmu.at = "meta"
       /\ meta # NoMeta => meta = zero
       /\ danmu.at # "meta" => danmu.zero = zero

\* A message that was taken down is known, or a late answer accounts for it.
Once ==
  /\ OnlyLateAnswersRepeat
  /\ danmu.at \notin {"wait", "done", "failed"} => \A m \in Chat : xml[m] <= spent.late
  /\ danmu.at = "wait" => \A m \in Chat \ danmu.seen : xml[m] <= spent.late

\* What was sent was held back, is in the answer or is out of reach, and what
\* was in reach is then taken down.
Complete ==
  /\ danmu.at \in {"joined", "history"} =>
       danmu.seen = {} /\ danmu.pending \subseteq Sent
  /\ danmu.at = "joined" => Sent \subseteq danmu.pending \cup unheard
  /\ danmu.at = "history" =>
       danmu.answer \subseteq Sent /\ Sent \subseteq danmu.answer \cup danmu.pending \cup unheard
  /\ danmu.at \in {"wait", "done"} /\ danmu.room =>
       /\ danmu.seen \subseteq Sent
       /\ \A m \in Sent : sentAt[m] >= danmu.zero => m \in unheard \/ xml[m] >= 1
  /\ danmu.room => danmu.at \in {"wait", "done", "failed"}

IInv == Types /\ Recording /\ Metadata /\ Once /\ Complete

-----------------------------------------------------------------------------
(* Helpers                                                                 *)

LEMMA Bounds == Never \in Nat /\ Never = Length + 1 /\ Length \in Nat /\ Main \in Roles
BY CaptureAssumption DEF Never, Roles

LEMMA Member ==
  ASSUME NEW m, NEW S
  PROVE  Cardinality({m} \cap S) = IF m \in S THEN 1 ELSE 0
<1>1. CASE m \in S
  <2>1. {m} \cap S = {m}
    BY <1>1
  <2> QED
    BY <1>1, <2>1, FS_Singleton
<1>2. CASE m \notin S
  <2>1. {m} \cap S = {}
    BY <1>2
  <2> QED
    BY <1>2, <2>1, FS_EmptySet
<1> QED
  BY <1>1, <1>2

\* What Add adds: one for each set the message is in.
LEMMA Added ==
  ASSUME xml \in [Chat -> Nat], NEW ms, NEW more
  PROVE  /\ Add(ms, more) \in [Chat -> Nat]
         /\ \A m \in Chat :
              Add(ms, more)[m] = xml[m] + (IF m \in ms THEN 1 ELSE 0)
                                        + (IF m \in more THEN 1 ELSE 0)
<1>1. \A m \in Chat : /\ Cardinality({m} \cap ms) = IF m \in ms THEN 1 ELSE 0
                      /\ Cardinality({m} \cap more) = IF m \in more THEN 1 ELSE 0
  BY Member
<1> QED
  BY <1>1 DEF Add

LEMMA Spends ==
  ASSUME Types, Mishap
  PROVE  spent' \in [mishaps : Nat, late : Nat] /\ spent'.late = spent.late
BY CaptureAssumption DEF Types, Mishap

\* The messages sent are the first ones, and so are not later than the next.
LEMMA SentFacts ==
  ASSUME Types
  PROVE  /\ Len(sentAt) \in Nat /\ Sent = 1..Len(sentAt)
         /\ Sent \subseteq Chat /\ Latest \subseteq Sent
BY CaptureAssumption DEF Types, TypeOK, Sent, Chat, Latest

LEMMA RecordingFrame ==
  ASSUME Recording, UNCHANGED <<now, endedAt, recorders>>
  PROVE  Recording'
BY DEF Recording, OfThisAttempt, Writing, Ended, NoFile, recorders

LEMMA ChatFrame ==
  ASSUME Once, Complete, UNCHANGED chat, spent'.late = spent.late
  PROVE  Once' /\ Complete'
BY DEF Once, Complete, OnlyLateAnswersRepeat, Sent, chat

-----------------------------------------------------------------------------
(* The broadcast                                                           *)

LEMMA TickKeeps ==
  ASSUME IInv, Tick
  PROVE  IInv'
<1>1. /\ now' = now + 1 /\ now < Length
      /\ UNCHANGED <<round, endedAt, step, zero, full, tries, meta, chat>>
  BY DEF Tick
<1>2. PICK dry \in SUBSET {r \in Roles : Writing(r)} :
        /\ IF dry = {} THEN spent' = spent ELSE Mishap
        /\ gone' = IF Main \in dry THEN gone \cup {now'} ELSE gone
        /\ part' = [r \in Roles |-> IF Writing(r) /\ r \notin dry
                                   THEN part[r] \cup {now'} ELSE part[r]]
  BY DEF Tick
<1>3. spent' \in [mishaps : Nat, late : Nat] /\ spent'.late = spent.late
  BY <1>2, Spends DEF IInv, Types
<1>4. now \in Nat /\ now' \in 1..Length /\ now' \in 0..Length /\ zero \in Nat
      /\ (Ended => endedAt \in Nat)
  BY <1>1, Bounds DEF IInv, Types, TypeOK, Ended
<1>5. Types'
  <2>1. part' \in [Roles -> Recordings] /\ gone' \in Recordings
    BY <1>2, <1>4 DEF IInv, Types, TypeOK, Recordings
  <2> QED
    BY <1>1, <1>3, <1>4, <2>1 DEF IInv, Types, TypeOK, chat
<1>6. Recording'
  <2>1. gone' \subseteq 1..now' /\ zero' <= now' /\ (Ended' => endedAt' <= now')
    BY <1>1, <1>2, <1>4 DEF IInv, Recording, Ended
  <2>2. CASE Writing(Main)
    <3>1. part'[Main] = IF Main \in dry THEN part[Main] ELSE part[Main] \cup {now'}
      BY <1>2, <2>2, Bounds
    <3>2. /\ part[Main] = (zero + 1 .. now) \ gone /\ now' \notin gone
          /\ zero + 1 .. now' = (zero + 1 .. now) \cup {now'}
      BY <1>1, <1>4, <2>2 DEF IInv, Recording
    <3>3. part'[Main] = (zero + 1 .. now') \ gone'
      <4> DEFINE old == zero + 1 .. now
                 new == zero + 1 .. now'
      <4>1. /\ part[Main] = old \ gone /\ now' \notin gone
            /\ new = old \cup {now'} /\ now' \notin old
        BY <1>1, <1>4, <3>2
      <4> HIDE DEF old, new
      <4>2. part'[Main] = new \ gone'
        BY <1>2, <3>1, <4>1
      <4> QED
        BY <4>2 DEF new
    <3> QED
      BY <1>1, <2>1, <2>2, <3>3 DEF IInv, Recording, Writing, Ended
  <2>3. CASE ~Writing(Main)
    <3>1. part'[Main] = part[Main] /\ gone' = gone
      BY <1>2, <2>3, Bounds
    <3> QED
      BY <1>1, <2>1, <2>3, <3>1 DEF IInv, Recording, OfThisAttempt, Writing, Ended, NoFile
  <2> QED
    BY <2>2, <2>3
<1>7. Metadata'
  BY <1>1 DEF IInv, Metadata, NoMeta, chat
<1>8. Once' /\ Complete'
  BY <1>1, <1>3, ChatFrame DEF IInv
<1> QED
  BY <1>5, <1>6, <1>7, <1>8 DEF IInv

LEMMA EndRoundKeeps ==
  ASSUME IInv, EndRound
  PROVE  IInv'
<1>1. ~Ended /\ endedAt' = now /\ UNCHANGED <<round, now, recorders, chat, spent>>
  BY DEF EndRound
<1>2. Types'
  BY <1>1, Bounds DEF IInv, Types, TypeOK, recorders, chat
<1>3. Recording'
  BY <1>1, Bounds DEF IInv, Types, TypeOK, Recording, Writing, Ended, NoFile, recorders
<1>4. Metadata'
  BY <1>1 DEF IInv, Metadata, NoMeta, recorders, chat
<1>5. Once' /\ Complete'
  BY <1>1, ChatFrame DEF IInv
<1> QED
  BY <1>2, <1>3, <1>4, <1>5 DEF IInv

-----------------------------------------------------------------------------
(* The recorders                                                           *)

LEMMA StartRecordKeeps ==
  ASSUME IInv, NEW r \in Roles, StartRecord(r)
  PROVE  IInv'
<1>1. /\ step[r] = "queued" /\ step' = [step EXCEPT ![r] = "recording"]
      /\ zero' = (IF r = Main THEN now ELSE zero) /\ gone' = (IF r = Main THEN {} ELSE gone)
      /\ part' = [part EXCEPT ![r] = NoFile]
      /\ meta' = (IF r = Main THEN now ELSE meta)
      /\ UNCHANGED <<round, now, endedAt, full, tries, chat, spent>>
  BY DEF StartRecord, clock
<1>2. NoFile \in Recordings /\ now \in 0..Length /\ now \in 0..Never /\ now # NoMeta
  BY Bounds DEF IInv, Types, TypeOK, NoFile, NoMeta, Recordings
<1>3. Types'
  BY <1>1, <1>2 DEF IInv, Types, TypeOK, chat, NoFile, Recordings
<1>4. /\ r # Main => step'[Main] = step[Main] /\ part'[Main] = part[Main]
      /\ r = Main => step'[Main] = "recording" /\ part'[Main] = NoFile
  BY <1>1, Bounds DEF IInv, Types, TypeOK
<1>5. Recording'
  <2>1. CASE r = Main
    <3>1. (now + 1 .. now) \ {} = NoFile
      BY <1>2 DEF NoFile
    <3> QED
      BY <1>1, <1>2, <1>4, <2>1, <3>1 DEF IInv, Recording, Writing, Ended
  <2>2. CASE r # Main
    BY <1>1, <1>4, <2>2 DEF IInv, Recording, OfThisAttempt, Writing, Ended, NoFile
  <2> QED
    BY <2>1, <2>2
<1>6. Metadata'
  BY <1>1, <1>2, <1>4 DEF IInv, Metadata, NoMeta, chat
<1>7. Once' /\ Complete'
  BY <1>1, ChatFrame DEF IInv
<1> QED
  BY <1>3, <1>5, <1>6, <1>7 DEF IInv

LEMMA SeeEndedKeeps ==
  ASSUME IInv, NEW r \in Roles, SeeEnded(r)
  PROVE  IInv'
<1>1. /\ step[r] = "recording" /\ Ended /\ step' = [step EXCEPT ![r] = "stopping"]
      /\ UNCHANGED <<round, now, endedAt, gone, zero, part, full, tries, meta, chat, spent>>
  BY DEF SeeEnded, clock
<1>2. Types'
  BY <1>1 DEF IInv, Types, TypeOK, chat
<1>3. /\ r # Main => step'[Main] = step[Main]
      /\ r = Main => step'[Main] = "stopping"
  BY <1>1, Bounds DEF IInv, Types, TypeOK
<1>4. Recording'
  BY <1>1, <1>3 DEF IInv, Recording, OfThisAttempt, Writing, Ended, NoFile
<1>5. Metadata'
  BY <1>1, <1>3 DEF IInv, Metadata, NoMeta, chat
<1>6. Once' /\ Complete'
  BY <1>1, ChatFrame DEF IInv
<1> QED
  BY <1>2, <1>4, <1>5, <1>6 DEF IInv

\* What Main's recorder has written when it stops for the end of the round.
LEMMA StoppedFile ==
  ASSUME IInv, step[Main] = "stopping"
  PROVE  OfThisAttempt(part[Main])
<1>1. /\ Ended /\ endedAt <= now /\ part[Main] = (zero + 1 .. now) \ gone
      /\ now \in Nat /\ endedAt \in Nat /\ zero \in Nat
  BY Bounds DEF IInv, Recording, Writing, Types, TypeOK
<1>2. (zero + 1 .. now) \cap (1..endedAt) = zero + 1 .. endedAt
  BY <1>1
<1>3. part[Main] # NoFile => zero + 1 \in zero + 1 .. now
  BY <1>1 DEF NoFile
<1> QED
  BY <1>1, <1>2, <1>3 DEF OfThisAttempt

LEMMA FfmpegStopsKeeps ==
  ASSUME IInv, NEW r \in Roles, FfmpegStops(r)
  PROVE  IInv'
<1>1. /\ step[r] = "stopping" /\ step' = [step EXCEPT ![r] = "commit"]
      /\ UNCHANGED <<round, now, endedAt, gone, zero, part, full, tries, meta, chat, spent>>
  BY DEF FfmpegStops, clock
<1>2. Types'
  BY <1>1 DEF IInv, Types, TypeOK, chat
<1>3. /\ r # Main => step'[Main] = step[Main]
      /\ r = Main => step'[Main] = "commit"
  BY <1>1, Bounds DEF IInv, Types, TypeOK
<1>4. r = Main => OfThisAttempt(part[Main])
  BY <1>1, StoppedFile
<1>5. Recording'
  BY <1>1, <1>3, <1>4 DEF IInv, Recording, OfThisAttempt, Writing, Ended, NoFile
<1>6. Metadata'
  BY <1>1, <1>3 DEF IInv, Metadata, NoMeta, chat
<1>7. Once' /\ Complete'
  BY <1>1, ChatFrame DEF IInv
<1> QED
  BY <1>2, <1>5, <1>6, <1>7 DEF IInv

LEMMA FfmpegExitsKeeps ==
  ASSUME IInv, NEW r \in Roles, FfmpegExits(r)
  PROVE  IInv'
<1>1. /\ step[r] = "recording" /\ Mishap
      /\ UNCHANGED <<round, now, endedAt, gone, zero, part, full, tries, chat>>
  BY DEF FfmpegExits, clock
<1>2. spent' \in [mishaps : Nat, late : Nat] /\ spent'.late = spent.late
  BY <1>1, Spends DEF IInv
<1>3. Once' /\ Complete'
  BY <1>1, <1>2, ChatFrame DEF IInv
<1>4. NoMeta \in 0..Never
  BY Bounds DEF NoMeta
<1>5. CASE CanCommitPartial(r)
  <2>1. step' = [step EXCEPT ![r] = "commit"] /\ meta' = meta /\ r # Main
    BY <1>5 DEF FfmpegExits, CanCommitPartial
  <2>2. step'[Main] = step[Main]
    BY <2>1, Bounds DEF IInv, Types, TypeOK
  <2>3. Types'
    BY <1>1, <1>2, <1>4, <2>1 DEF IInv, Types, TypeOK, chat
  <2>4. Recording'
    BY <1>1, <2>1, <2>2 DEF IInv, Recording, OfThisAttempt, Writing, Ended, NoFile
  <2>5. Metadata'
    BY <1>1, <2>1, <2>2 DEF IInv, Metadata, NoMeta, chat
  <2> QED
    BY <1>3, <2>3, <2>4, <2>5 DEF IInv
<1>6. CASE ~CanCommitPartial(r)
  <2>1. step' = [step EXCEPT ![r] = "failed"] /\ meta' = NoMeta
    BY <1>6 DEF FfmpegExits
  <2>2. step'[Main] = step[Main] \/ step'[Main] = "failed"
    BY <2>1, Bounds DEF IInv, Types, TypeOK
  <2>3. Types'
    BY <1>1, <1>2, <1>4, <2>1 DEF IInv, Types, TypeOK, chat
  <2>4. Recording'
    BY <1>1, <2>1, <2>2 DEF IInv, Recording, OfThisAttempt, Writing, Ended, NoFile
  <2>5. Metadata'
    BY <1>1, <2>1, <2>2 DEF IInv, Metadata, NoMeta, chat
  <2> QED
    BY <1>3, <2>3, <2>4, <2>5 DEF IInv
<1> QED
  BY <1>5, <1>6

LEMMA CommitKeeps ==
  ASSUME IInv, NEW r \in Roles, Commit(r)
  PROVE  IInv'
<1>1. step[r] = "commit" /\ UNCHANGED <<round, now, endedAt, gone, zero, tries, chat, spent>>
  BY DEF Commit, clock
<1>2. Once' /\ Complete'
  BY <1>1, ChatFrame DEF IInv
<1>3. NoFile \in Recordings /\ NoMeta \in 0..Never
  BY Bounds DEF NoFile, Recordings, NoMeta
<1>4. CASE part[r] = NoFile
  <2>1. /\ step' = [step EXCEPT ![r] = "failed"]
        /\ meta' = (IF r = Main THEN NoMeta ELSE meta)
        /\ UNCHANGED <<part, full>>
    BY <1>4 DEF Commit
  <2>2. step'[Main] = step[Main] \/ step'[Main] = "failed"
    BY <2>1, Bounds DEF IInv, Types, TypeOK
  <2>3. Types'
    BY <1>1, <1>3, <2>1 DEF IInv, Types, TypeOK, chat
  <2>4. Recording'
    BY <1>1, <2>1, <2>2 DEF IInv, Recording, OfThisAttempt, Writing, Ended, NoFile
  <2>5. Metadata'
    BY <1>1, <2>1, <2>2 DEF IInv, Metadata, NoMeta, chat
  <2> QED
    BY <1>2, <2>3, <2>4, <2>5 DEF IInv
<1>5. CASE part[r] # NoFile
  <2>1. /\ step' = [step EXCEPT ![r] = "checksum"] /\ full' = [full EXCEPT ![r] = part[r]]
        /\ part' = [part EXCEPT ![r] = NoFile] /\ meta' = meta
    BY <1>5 DEF Commit
  <2>2. /\ r # Main => step'[Main] = step[Main] /\ part'[Main] = part[Main]
                       /\ full'[Main] = full[Main]
        /\ r = Main => step'[Main] = "checksum" /\ full'[Main] = part[Main]
    BY <2>1, Bounds DEF IInv, Types, TypeOK
  <2>3. Types'
    BY <1>1, <1>3, <2>1 DEF IInv, Types, TypeOK, chat
  <2>4. Recording'
    BY <1>1, <1>5, <2>1, <2>2 DEF IInv, Recording, OfThisAttempt, Writing, Ended, NoFile
  <2>5. Metadata'
    BY <1>1, <2>1, <2>2 DEF IInv, Metadata, NoMeta, chat
  <2> QED
    BY <1>2, <2>3, <2>4, <2>5 DEF IInv
<1> QED
  BY <1>4, <1>5

LEMMA FinishRecordKeeps ==
  ASSUME IInv, NEW r \in Roles, FinishRecord(r)
  PROVE  IInv'
<1>1. /\ step[r] = "checksum" /\ step' = [step EXCEPT ![r] = "done"]
      /\ meta' = (IF r = Main THEN zero ELSE meta)
      /\ UNCHANGED <<round, now, endedAt, gone, zero, part, full, tries, chat, spent>>
  BY DEF FinishRecord, clock
<1>2. zero \in 0..Length /\ zero \in 0..Never /\ zero # NoMeta
  BY Bounds DEF IInv, Types, TypeOK, NoMeta
<1>3. Types'
  BY <1>1, <1>2 DEF IInv, Types, TypeOK, chat
<1>4. /\ r # Main => step'[Main] = step[Main]
      /\ r = Main => step[Main] = "checksum" /\ step'[Main] = "done"
  BY <1>1, Bounds DEF IInv, Types, TypeOK
<1>5. Recording'
  BY <1>1, <1>4 DEF IInv, Recording, OfThisAttempt, Writing, Ended, NoFile
<1>6. Metadata'
  BY <1>1, <1>2, <1>4 DEF IInv, Metadata, NoMeta, chat
<1>7. Once' /\ Complete'
  BY <1>1, ChatFrame DEF IInv
<1> QED
  BY <1>3, <1>5, <1>6, <1>7 DEF IInv

LEMMA LosePodKeeps ==
  ASSUME IInv, NEW r \in Roles, LosePod(r)
  PROVE  IInv'
<1>1. /\ step[r] # "queued"
      /\ UNCHANGED <<round, now, endedAt, gone, zero, part, full, meta, chat>> /\ Mishap
  BY DEF LosePod, clock
<1>2. spent' \in [mishaps : Nat, late : Nat] /\ spent'.late = spent.late
  BY <1>1, Spends DEF IInv
<1>3. Once' /\ Complete'
  BY <1>1, <1>2, ChatFrame DEF IInv
<1>4. PICK s \in {"queued", "error"} :
        /\ step' = [step EXCEPT ![r] = s]
        /\ s = "queued" => tries[r] < Retries /\ tries' = [tries EXCEPT ![r] = @ + 1]
        /\ s = "error" => tries' = tries
  BY DEF LosePod, clock
<1>5. tries' \in [Roles -> 0..Retries]
  <2>1. tries \in [Roles -> 0..Retries] /\ Retries \in Nat
    BY CaptureAssumption DEF IInv, Types, TypeOK
  <2> QED
    BY <1>4, <2>1
<1>6. Types'
  BY <1>1, <1>2, <1>4, <1>5 DEF IInv, Types, TypeOK, chat
<1>7. /\ r # Main => step'[Main] = step[Main] /\ tries'[Main] = tries[Main]
      /\ r = Main => step'[Main] = s
      /\ r = Main /\ s = "queued" => tries'[Main] = tries[Main] + 1
      /\ s = "error" => tries'[Main] = tries[Main]
      /\ tries[Main] \in Nat
  BY <1>4, Bounds, CaptureAssumption DEF IInv, Types, TypeOK
<1>8. Recording'
  BY <1>1, <1>4, <1>7 DEF IInv, Recording, OfThisAttempt, Writing, Ended, NoFile
<1>9. Metadata'
  <2>1. tries'[Main] = 0 =>
          tries[Main] = 0 /\ (step'[Main] = "queued" => step[Main] = "queued")
    BY <1>1, <1>7
  <2> QED
    BY <1>1, <2>1 DEF IInv, Metadata, NoMeta, chat
<1> QED
  BY <1>3, <1>6, <1>8, <1>9 DEF IInv

-----------------------------------------------------------------------------
(* The danmu-job                                                           *)

\* Steps of the danmu-job that take nothing down.
LEMMA JobMoves ==
  ASSUME IInv, danmu' \in DanmuRecords, UNCHANGED <<round, now, endedAt, recorders, xml, sentAt>>,
         unheard' \subseteq Chat,
         spent' \in [mishaps : Nat, late : Nat], spent'.late = spent.late,
         danmu'.at # "meta",
         danmu.at # "meta" => danmu'.zero = danmu.zero,
         danmu.at = "meta" => meta # NoMeta /\ danmu'.zero = meta,
         danmu.at \notin {"wait", "done", "failed"} \/ danmu'.at \in {"done", "failed"},
         Complete'
  PROVE  IInv'
<1>1. Types'
  BY DEF IInv, Types, TypeOK, recorders, DanmuRecords, JobStates
<1>2. Recording'
  BY RecordingFrame DEF IInv
<1>3. Metadata'
  BY DEF IInv, Metadata, NoMeta, recorders
<1>4. Once'
  <2>1. \A m \in Chat : xml[m] \in Nat
    BY DEF IInv, Types, TypeOK
  <2> QED
    BY <2>1 DEF IInv, Types, Once, OnlyLateAnswersRepeat
<1> QED
  BY <1>1, <1>2, <1>3, <1>4 DEF IInv

LEMMA ReadMetaKeeps ==
  ASSUME IInv, ReadMeta
  PROVE  IInv'
<1>1. /\ danmu.at = "meta" /\ meta # NoMeta
      /\ UNCHANGED <<round, now, endedAt, recorders, xml, sentAt, unheard, spent>>
      /\ danmu' = [danmu EXCEPT !.at = "connect", !.zero = meta]
  BY DEF ReadMeta, clock
<1>2. spent' \in [mishaps : Nat, late : Nat] /\ spent'.late = spent.late
  BY <1>1 DEF IInv, Types
<1>3. danmu' \in DanmuRecords
  BY <1>1 DEF IInv, Types, Metadata, DanmuRecords, JobStates
<1>4. Complete'
  BY <1>1, <1>3 DEF IInv, Types, DanmuRecords, Complete, Sent
<1> QED
  BY <1>1, <1>2, <1>3, <1>4, JobMoves DEF IInv, Types, TypeOK, DanmuRecords

LEMMA ConnectKeeps ==
  ASSUME IInv, Connect
  PROVE  IInv'
<1>1. /\ danmu.at = "connect"
      /\ UNCHANGED <<round, now, endedAt, recorders, xml, sentAt, spent>>
      /\ danmu' = [danmu EXCEPT !.at = "joined", !.up = TRUE, !.pending = {}, !.seen = {}]
      /\ unheard' = Sent /\ Sent \subseteq Chat
  BY SentFacts DEF Connect, clock, IInv
<1>2. spent' \in [mishaps : Nat, late : Nat] /\ spent'.late = spent.late
  BY <1>1 DEF IInv, Types
<1>3. danmu' \in DanmuRecords
  BY <1>1 DEF IInv, Types, Metadata, DanmuRecords, JobStates
<1>4. Complete'
  BY <1>1, <1>3 DEF IInv, Types, DanmuRecords, Complete, Sent
<1> QED
  BY <1>1, <1>2, <1>3, <1>4, JobMoves DEF IInv, Types, TypeOK, DanmuRecords

LEMMA AnswerHistoryKeeps ==
  ASSUME IInv, AnswerHistory
  PROVE  IInv'
<1>1. /\ danmu.at \in {"joined", "closing"}
      /\ UNCHANGED <<round, now, endedAt, recorders, xml, sentAt, spent>>
      /\ danmu' = [danmu EXCEPT !.at = IF @ = "joined" THEN "history" ELSE "late",
                                !.answer = Latest]
      /\ unheard' \subseteq unheard
      /\ danmu.at = "joined" => unheard' = unheard \ Latest
      /\ Latest \subseteq Sent /\ Sent \subseteq Chat
  BY SentFacts DEF AnswerHistory, clock, IInv
<1>2. spent' \in [mishaps : Nat, late : Nat] /\ spent'.late = spent.late
  BY <1>1 DEF IInv, Types
<1>3. danmu' \in DanmuRecords
  BY <1>1 DEF IInv, Types, Metadata, DanmuRecords, JobStates, Sent
<1>4. Complete'
  BY <1>1, <1>3 DEF IInv, Types, DanmuRecords, Complete, Sent
<1> QED
  BY <1>1, <1>2, <1>3, <1>4, JobMoves DEF IInv, Types, TypeOK, DanmuRecords

LEMMA ConnectTimesOutKeeps ==
  ASSUME IInv, ConnectTimesOut
  PROVE  IInv'
<1>1. /\ danmu.at \in {"joined", "history"}
      /\ UNCHANGED <<round, now, endedAt, recorders, xml, sentAt, unheard>>
      /\ danmu' = [danmu EXCEPT !.at = IF @ = "joined" THEN "closing" ELSE "late"]
  BY DEF ConnectTimesOut, clock
<1>2. spent' \in [mishaps : Nat, late : Nat] /\ spent'.late = spent.late
  BY Spends DEF IInv, Types, ConnectTimesOut
<1>3. danmu' \in DanmuRecords
  BY <1>1 DEF IInv, Types, Metadata, DanmuRecords, JobStates
<1>4. Complete'
  BY <1>1, <1>3 DEF IInv, Types, DanmuRecords, Complete, Sent
<1> QED
  BY <1>1, <1>2, <1>3, <1>4, JobMoves DEF IInv, Types, TypeOK, DanmuRecords

LEMMA ClientClosedKeeps ==
  ASSUME IInv, ClientClosed
  PROVE  IInv'
<1>1. /\ danmu.at \in {"closing", "late"}
      /\ UNCHANGED <<round, now, endedAt, recorders, xml, sentAt, unheard, spent>>
      /\ danmu' = [danmu EXCEPT !.at = "connect", !.answer = {}]
  BY DEF ClientClosed, clock
<1>2. spent' \in [mishaps : Nat, late : Nat] /\ spent'.late = spent.late
  BY <1>1 DEF IInv, Types
<1>3. danmu' \in DanmuRecords
  BY <1>1 DEF IInv, Types, Metadata, DanmuRecords, JobStates
<1>4. Complete'
  BY <1>1, <1>3 DEF IInv, Types, DanmuRecords, Complete, Sent
<1> QED
  BY <1>1, <1>2, <1>3, <1>4, JobMoves DEF IInv, Types, TypeOK, DanmuRecords

LEMMA DisconnectKeeps ==
  ASSUME IInv, Disconnect
  PROVE  IInv'
<1>1. /\ InRoom
      /\ UNCHANGED <<round, now, endedAt, recorders, xml, sentAt, unheard>>
      /\ danmu' = [danmu EXCEPT !.up = FALSE]
  BY DEF Disconnect, clock
<1>2. spent' \in [mishaps : Nat, late : Nat] /\ spent'.late = spent.late
  BY Spends DEF IInv, Disconnect
<1>3. danmu' \in DanmuRecords /\ danmu'.at # "meta"
  BY <1>1 DEF IInv, Types, DanmuRecords, InRoom
<1>4. Once' /\ Complete'
  BY <1>1, <1>2, <1>3 DEF IInv, Types, DanmuRecords, Once, OnlyLateAnswersRepeat, Complete, Sent
<1>5. Types' /\ Recording' /\ Metadata'
  BY <1>1, <1>2, <1>3, RecordingFrame
  DEF IInv, Types, TypeOK, DanmuRecords, Metadata, NoMeta, recorders
<1> QED
  BY <1>4, <1>5 DEF IInv

LEMMA ReconnectKeeps ==
  ASSUME IInv, Reconnect
  PROVE  IInv'
<1>1. /\ InRoom
      /\ UNCHANGED <<round, now, endedAt, recorders, xml, sentAt, unheard>>
      /\ danmu' = [danmu EXCEPT !.up = TRUE]
  BY DEF Reconnect, clock
<1>2. spent' \in [mishaps : Nat, late : Nat] /\ spent'.late = spent.late
  BY DEF IInv, Types, Reconnect
<1>3. danmu' \in DanmuRecords /\ danmu'.at # "meta"
  BY <1>1 DEF IInv, Types, DanmuRecords, InRoom
<1>4. Once' /\ Complete'
  BY <1>1, <1>2, <1>3 DEF IInv, Types, DanmuRecords, Once, OnlyLateAnswersRepeat, Complete, Sent
<1>5. Types' /\ Recording' /\ Metadata'
  BY <1>1, <1>2, <1>3, RecordingFrame
  DEF IInv, Types, TypeOK, DanmuRecords, Metadata, NoMeta, recorders
<1> QED
  BY <1>4, <1>5 DEF IInv

LEMMA StopDanmuKeeps ==
  ASSUME IInv, StopDanmu
  PROVE  IInv'
<1>1. /\ danmu.at = "wait"
      /\ UNCHANGED <<round, now, endedAt, recorders, xml, sentAt, unheard, spent>>
      /\ danmu' = [danmu EXCEPT !.at = "done", !.seen = {}]
  BY DEF StopDanmu, clock
<1>2. spent' \in [mishaps : Nat, late : Nat] /\ spent'.late = spent.late
  BY <1>1 DEF IInv, Types
<1>3. danmu' \in DanmuRecords
  BY <1>1 DEF IInv, Types, Metadata, DanmuRecords, JobStates
<1>4. Complete'
  BY <1>1, <1>3 DEF IInv, Types, DanmuRecords, Complete, Sent
<1> QED
  BY <1>1, <1>2, <1>3, <1>4, JobMoves DEF IInv, Types, TypeOK, DanmuRecords

LEMMA FailDanmuKeeps ==
  ASSUME IInv, FailDanmu
  PROVE  IInv'
<1>1. /\ danmu.at \in {"connect", "wait"}
      /\ UNCHANGED <<round, now, endedAt, recorders, xml, sentAt, unheard>>
      /\ danmu' = [danmu EXCEPT !.at = "failed", !.seen = {}]
  BY DEF FailDanmu, clock
<1>2. spent' \in [mishaps : Nat, late : Nat] /\ spent'.late = spent.late
  BY Spends DEF IInv, FailDanmu
<1>3. danmu' \in DanmuRecords
  BY <1>1 DEF IInv, Types, Metadata, DanmuRecords, JobStates
<1>4. Complete'
  BY <1>1, <1>3 DEF IInv, Types, DanmuRecords, Complete, Sent
<1> QED
  BY <1>1, <1>2, <1>3, <1>4, JobMoves DEF IInv, Types, TypeOK, DanmuRecords

LEMMA NotConnectedKeeps ==
  ASSUME IInv, NotConnected
  PROVE  IInv'
<1>1. /\ danmu.at = "connect"
      /\ UNCHANGED <<round, now, endedAt, recorders, xml, sentAt, unheard, spent>>
      /\ danmu' = [danmu EXCEPT !.at = "wait", !.up = FALSE]
  BY DEF NotConnected, clock
<1>2. spent' \in [mishaps : Nat, late : Nat] /\ spent'.late = spent.late
  BY <1>1 DEF IInv, Types
<1>3. danmu' \in DanmuRecords
  BY <1>1 DEF IInv, Types, Metadata, DanmuRecords, JobStates
<1>4. Complete'
  BY <1>1, <1>3 DEF IInv, Types, DanmuRecords, Complete, Sent
<1> QED
  BY <1>1, <1>2, <1>3, <1>4, JobMoves DEF IInv, Types, TypeOK, DanmuRecords

LEMMA HydrateKeeps ==
  ASSUME IInv, Hydrate
  PROVE  IInv'
<1> DEFINE old == Written(danmu.answer, danmu.seen)
           new == Written(danmu.pending, danmu.seen \cup danmu.answer)
<1>1. /\ danmu.at = "history" /\ UNCHANGED <<round, now, endedAt, recorders, sentAt, unheard, spent>>
      /\ xml' = Add(old, new)
      /\ danmu' = [danmu EXCEPT !.at = "wait", !.room = TRUE,
                                !.seen = (danmu.seen \cup danmu.answer) \cup danmu.pending,
                                !.pending = {}, !.answer = {}]
  BY DEF Hydrate, clock
<1>2. danmu' \in DanmuRecords
  BY <1>1 DEF IInv, Types, DanmuRecords, JobStates
<1>3. /\ xml' \in [Chat -> Nat]
      /\ \A m \in Chat : xml'[m] = xml[m] + (IF m \in old THEN 1 ELSE 0)
                                            + (IF m \in new THEN 1 ELSE 0)
  BY <1>1, Added DEF IInv, Types, TypeOK
<1>4. /\ old \subseteq danmu.answer /\ new \subseteq danmu.pending
      /\ \A m \in old : m \notin new
      /\ \A m \in Sent : sentAt[m] >= danmu.zero => m \in unheard \/ m \in old \/ m \in new
  BY <1>1 DEF Written, IInv, Complete
<1> HIDE DEF old, new
<1>5. danmu.seen = {} /\ danmu'.seen = danmu.answer \cup danmu.pending
  BY <1>1 DEF IInv, Complete, Types, DanmuRecords
<1>6. Types'
  BY <1>1, <1>2, <1>3 DEF IInv, Types, TypeOK, recorders, DanmuRecords, JobStates
<1>7. Recording' /\ Metadata'
  BY <1>1, RecordingFrame DEF IInv, Metadata, NoMeta, recorders, Types, DanmuRecords
<1>8. Once'
  <2>1. \A m \in Chat : xml[m] \in Nat /\ xml[m] <= spent.late
    BY <1>1 DEF IInv, Types, TypeOK, Once
  <2>2. spent.late \in Nat
    BY DEF IInv, Types
  <2>3. \A m \in Chat : xml'[m] <= 1 + spent.late
    BY <1>3, <1>4, <2>1, <2>2
  <2>4. \A m \in Chat \ danmu'.seen : xml'[m] <= spent.late
    BY <1>3, <1>4, <1>5, <2>1, <2>2
  <2> QED
    BY <1>1, <2>3, <2>4 DEF Once, OnlyLateAnswersRepeat, IInv, Types, DanmuRecords
<1>9. Complete'
  <2>1. danmu'.seen \subseteq Sent'
    BY <1>1, <1>5 DEF IInv, Complete, Sent
  <2>2. \A m \in Sent' : sentAt'[m] >= danmu'.zero => m \in unheard' \/ xml'[m] >= 1
    <3>1. SUFFICES ASSUME NEW m \in Sent, sentAt[m] >= danmu.zero, m \notin unheard
                   PROVE  xml'[m] >= 1
      BY <1>1 DEF Sent, IInv, Types, DanmuRecords
    <3>2. m \in Chat /\ xml[m] \in Nat
      BY SentFacts DEF IInv, Types, TypeOK
    <3> QED
      BY <1>3, <1>4, <3>1, <3>2
  <2> QED
    BY <1>1, <2>1, <2>2 DEF IInv, Complete, Types, DanmuRecords
<1> QED
  BY <1>6, <1>7, <1>8, <1>9 DEF IInv

LEMMA LateHistoryKeeps ==
  ASSUME IInv, LateHistory
  PROVE  IInv'
<1> DEFINE old == Written(danmu.answer, danmu.seen)
<1>1. /\ danmu.at = "late" /\ UNCHANGED <<round, now, endedAt, recorders, sentAt, unheard>>
      /\ xml' = Add(old, {})
      /\ danmu' = [danmu EXCEPT !.at = "connect", !.answer = {}]
      /\ spent' = [spent EXCEPT !.late = @ + 1]
  BY DEF LateHistory, clock
<1>2. danmu' \in DanmuRecords
  BY <1>1 DEF IInv, Types, DanmuRecords, JobStates
<1>3. /\ xml' \in [Chat -> Nat]
      /\ \A m \in Chat : xml'[m] = xml[m] + (IF m \in old THEN 1 ELSE 0)
                                            + (IF m \in {} THEN 1 ELSE 0)
  BY <1>1, Added DEF IInv, Types, TypeOK
<1> HIDE DEF old
<1>4. spent' \in [mishaps : Nat, late : Nat] /\ spent'.late = spent.late + 1
      /\ spent.late \in Nat
  BY <1>1 DEF IInv, Types
<1>5. Types'
  BY <1>1, <1>2, <1>3, <1>4 DEF IInv, Types, TypeOK, recorders, DanmuRecords, JobStates
<1>6. Recording' /\ Metadata'
  BY <1>1, RecordingFrame DEF IInv, Metadata, NoMeta, recorders, Types, DanmuRecords
<1>7. Once'
  <2>1. \A m \in Chat : xml[m] \in Nat /\ xml[m] <= spent.late
    BY <1>1 DEF IInv, Types, TypeOK, Once
  <2>2. \A m \in Chat : xml'[m] <= spent'.late /\ xml'[m] \in Nat
    BY <1>3, <1>4, <2>1
  <2> QED
    BY <1>1, <1>4, <2>2 DEF Once, OnlyLateAnswersRepeat, IInv, Types, DanmuRecords
<1>8. Complete'
  BY <1>1, <1>2 DEF IInv, Types, DanmuRecords, Complete, Sent
<1> QED
  BY <1>5, <1>6, <1>7, <1>8 DEF IInv

LEMMA SendKeeps ==
  ASSUME IInv, NEW m \in Chat, Send(m)
  PROVE  IInv'
<1>1. /\ m = Len(sentAt) + 1 /\ danmu.at \notin {"done", "failed"}
      /\ sentAt' = Append(sentAt, now)
      /\ UNCHANGED <<round, now, endedAt, recorders, spent>>
  BY DEF Send, clock
<1>2. now \in 0..Length /\ sentAt \in Seq(0..Length) /\ Len(sentAt) \in Nat
      /\ Sent = 1..Len(sentAt) /\ Sent \subseteq Chat
  BY SentFacts DEF IInv, Types, TypeOK
<1>3. /\ sentAt' \in Seq(0..Length) /\ Len(sentAt') <= Messages /\ sentAt'[m] = now
      /\ \A n \in Sent : n # m /\ sentAt'[n] = sentAt[n]
      /\ m \notin Sent /\ Sent' = Sent \cup {m}
  <2>1. /\ sentAt' \in Seq(0..Length) /\ Len(sentAt') = m /\ sentAt'[m] = now
        /\ \A n \in 1..Len(sentAt) : sentAt'[n] = sentAt[n]
        /\ DOMAIN sentAt' = 1..m
    BY <1>1, <1>2
  <2>2. 1..m = (1..Len(sentAt)) \cup {m} /\ m \notin 1..Len(sentAt) /\ m <= Messages
    BY <1>1, <1>2, CaptureAssumption DEF Chat
  <2> QED
    BY <1>2, <2>1, <2>2 DEF Sent
<1>4. Recording'
  BY <1>1, RecordingFrame DEF IInv
<1>5. CASE danmu.at \in {"joined", "history"} /\ UNCHANGED <<xml, unheard>>
            /\ danmu' = [danmu EXCEPT !.pending = @ \cup {m}]
  <2>1. danmu' \in DanmuRecords
    BY <1>5 DEF IInv, Types, DanmuRecords, JobStates
  <2>2. Types'
    <3>1. \A ms \in {danmu.answer, danmu.pending, danmu.seen, unheard}' : ms \subseteq Chat
      BY <1>5, <2>1 DEF IInv, Types, TypeOK, DanmuRecords
    <3>2. /\ danmu'.at \in JobStates /\ danmu'.zero \in 0..Length
          /\ danmu'.room \in BOOLEAN /\ danmu'.up \in BOOLEAN
      BY <2>1 DEF DanmuRecords
    <3> QED
      BY <1>1, <1>3, <1>5, <2>1, <3>1, <3>2 DEF IInv, Types, TypeOK, recorders, JobStates
  <2>3. Metadata' /\ Once'
    BY <1>1, <1>5 DEF IInv, Metadata, NoMeta, recorders, Once, OnlyLateAnswersRepeat, Types,
       DanmuRecords
  <2>4. Complete'
    BY <1>3, <1>5 DEF IInv, Complete, Types, DanmuRecords
  <2> QED
    BY <1>4, <2>2, <2>3, <2>4 DEF IInv
<1>6. CASE /\ danmu.at = "wait" /\ danmu.room /\ UNCHANGED unheard
           /\ danmu' = [danmu EXCEPT !.seen = @ \cup {m}]
           /\ xml' = IF now >= danmu.zero THEN Add({m} \ danmu.seen, {}) ELSE xml
  <2>1. danmu' \in DanmuRecords
    BY <1>6 DEF IInv, Types, DanmuRecords, JobStates
  <2>2. m \notin danmu.seen /\ {m} \ danmu.seen = {m}
    BY <1>3, <1>6 DEF IInv, Complete
  <2>3. /\ xml' \in [Chat -> Nat]
        /\ \A n \in Chat : xml'[n] = xml[n] + (IF n = m /\ now >= danmu.zero THEN 1 ELSE 0)
    <3>1. \A n \in Chat : xml[n] \in Nat
      BY DEF IInv, Types, TypeOK
    <3>2. CASE now >= danmu.zero
      <4>1. /\ xml' \in [Chat -> Nat]
            /\ \A n \in Chat : xml'[n] = xml[n] + (IF n \in {m} THEN 1 ELSE 0)
                                                  + (IF n \in {} THEN 1 ELSE 0)
        BY <1>6, <2>2, <3>2, Added DEF IInv, Types, TypeOK
      <4> QED
        BY <3>1, <3>2, <4>1
    <3>3. CASE ~(now >= danmu.zero)
      BY <1>6, <3>1, <3>3 DEF IInv, Types, TypeOK
    <3> QED
      BY <3>2, <3>3
  <2>4. Types'
    <3>1. \A ms \in {danmu.answer, danmu.pending, danmu.seen, unheard}' : ms \subseteq Chat
      BY <1>6, <2>1 DEF IInv, Types, TypeOK, DanmuRecords
    <3>2. /\ danmu'.at \in JobStates /\ danmu'.zero \in 0..Length
          /\ danmu'.room \in BOOLEAN /\ danmu'.up \in BOOLEAN
      BY <2>1 DEF DanmuRecords
    <3> QED
      BY <1>1, <1>3, <2>1, <2>3, <3>1, <3>2 DEF IInv, Types, TypeOK, recorders, JobStates
  <2>5. Metadata'
    BY <1>1, <1>6 DEF IInv, Metadata, NoMeta, recorders, Types, DanmuRecords
  <2>6. Once'
    <3>1. /\ \A n \in Chat : xml[n] \in Nat /\ xml[n] <= 1 + spent.late
          /\ \A n \in Chat \ danmu.seen : xml[n] <= spent.late
          /\ spent.late \in Nat /\ spent' = spent
      BY <1>1, <1>6 DEF IInv, Types, TypeOK, Once, OnlyLateAnswersRepeat
    <3>2. danmu'.seen = danmu.seen \cup {m}
      BY <1>6 DEF IInv, Types, DanmuRecords
    <3>3. ASSUME NEW n \in Chat PROVE xml'[n] <= 1 + spent.late
      <4>1. xml[n] \in Nat /\ xml[n] <= 1 + spent.late /\ spent.late \in Nat
        BY <3>1
      <4>2. n = m => xml[n] <= spent.late
        BY <2>2, <3>1
      <4> QED
        BY <2>3, <4>1, <4>2
    <3>4. ASSUME NEW n \in Chat \ danmu'.seen PROVE xml'[n] <= spent.late
      <4>1. n # m /\ n \in Chat \ danmu.seen
        BY <3>2
      <4>2. xml[n] \in Nat /\ xml[n] <= spent.late /\ xml'[n] = xml[n] + 0
        BY <2>3, <3>1, <4>1
      <4> QED
        BY <4>2
    <3> QED
      BY <1>6, <3>1, <3>3, <3>4 DEF Once, OnlyLateAnswersRepeat, IInv, Types, DanmuRecords
  <2>7. Complete'
    <3>1. danmu'.seen \subseteq Sent'
      BY <1>3, <1>6 DEF IInv, Complete, Types, DanmuRecords
    <3>2. \A n \in Sent : sentAt[n] >= danmu.zero => n \in unheard \/ xml[n] >= 1
      BY <1>6 DEF IInv, Complete
    <3>3. \A n \in Sent' : sentAt'[n] >= danmu'.zero => n \in unheard' \/ xml'[n] >= 1
      <4>1. danmu'.zero = danmu.zero /\ \A n \in Chat : xml[n] \in Nat
        BY <1>6 DEF IInv, Types, TypeOK, DanmuRecords
      <4>2. xml'[m] >= 1 \/ ~(sentAt'[m] >= danmu'.zero)
        BY <1>3, <2>3, <4>1
      <4>3. \A n \in Sent : n \in Chat /\ xml'[n] = xml[n] /\ sentAt'[n] = sentAt[n]
        BY <1>2, <1>3, <2>3, <4>1
      <4> QED
        BY <1>3, <1>6, <3>2, <4>1, <4>2, <4>3
    <3> QED
      BY <1>6, <3>1, <3>3 DEF IInv, Complete, Types, DanmuRecords
  <2> QED
    BY <1>4, <2>4, <2>5, <2>6, <2>7 DEF IInv
<1>7. CASE ~(InRoom /\ danmu.up) /\ unheard' = unheard \cup {m} /\ UNCHANGED <<danmu, xml>>
  <2>1. Types'
    BY <1>1, <1>3, <1>7 DEF IInv, Types, TypeOK, recorders
  <2>2. Metadata' /\ Once'
    BY <1>1, <1>7 DEF IInv, Metadata, NoMeta, recorders, Once, OnlyLateAnswersRepeat
  <2>3. Complete'
    BY <1>1, <1>3, <1>7 DEF IInv, Complete
  <2> QED
    BY <1>4, <2>1, <2>2, <2>3 DEF IInv
<1> QED
  BY <1>5, <1>6, <1>7 DEF Send

-----------------------------------------------------------------------------
(* The specification                                                       *)

LEMMA InitInv ==
  ASSUME Init
  PROVE  IInv
<1>1. NoFile \in Recordings /\ NoMeta \in 0..Never
  BY Bounds DEF NoFile, Recordings, NoMeta
<1>2. Types
  BY <1>1, Bounds, CaptureAssumption DEF Init, NoFile, Recordings, Types, TypeOK, DanmuRecords, JobStates
<1>3. Recording
  BY Bounds DEF Init, Recording, Writing, Ended
<1>4. Metadata
  BY Bounds DEF Init, Metadata
<1>5. Once /\ Complete
  BY DEF Init, Once, Complete, OnlyLateAnswersRepeat, Sent
<1> QED
  BY <1>2, <1>3, <1>4, <1>5 DEF IInv

LEMMA StepInv ==
  ASSUME IInv, [Next]_vars
  PROVE  IInv'
<1>1. CASE Tick \/ EndRound
  BY <1>1, TickKeeps, EndRoundKeeps
<1>2. ASSUME NEW r \in Roles, Record(r) \/ FfmpegExits(r) \/ LosePod(r)
      PROVE  IInv'
  BY <1>2, StartRecordKeeps, SeeEndedKeeps, FfmpegStopsKeeps, FfmpegExitsKeeps, CommitKeeps,
     FinishRecordKeeps, LosePodKeeps DEF Record
<1>3. CASE Danmu
  BY <1>3, ReadMetaKeeps, ConnectKeeps, NotConnectedKeeps, AnswerHistoryKeeps, HydrateKeeps,
     ConnectTimesOutKeeps, ClientClosedKeeps, StopDanmuKeeps DEF Danmu
<1>4. CASE LateHistory \/ FailDanmu \/ Disconnect \/ Reconnect
  BY <1>4, LateHistoryKeeps, FailDanmuKeeps, DisconnectKeeps, ReconnectKeeps
<1>5. ASSUME NEW m \in Chat, Send(m)
      PROVE  IInv'
  BY <1>5, SendKeeps
<1>6. CASE UNCHANGED vars
  BY <1>6, ChatFrame, RecordingFrame DEF vars, clock, IInv, Types, TypeOK, Metadata, NoMeta, recorders,
     chat
<1> QED
  BY <1>1, <1>2, <1>3, <1>4, <1>5, <1>6 DEF Next

THEOREM CaptureInvariant == CaptureSpec => []IInv
<1>1. Init => IInv
  BY InitInv
<1>2. IInv /\ [Next]_vars => IInv'
  BY StepInv
<1> QED
  BY <1>1, <1>2, PTL DEF CaptureSpec

(* Every variable keeps to its type, and Argo starts no recorder again     *)
(* beyond the retry limit.                                                 *)
THEOREM CaptureTypes == CaptureSpec => []TypeOK
<1>1. IInv => TypeOK
  BY DEF IInv, Types
<1> QED
  BY <1>1, CaptureInvariant, PTL

(* No message is taken down more often than once plus the answers that     *)
(* came after their timeout, whatever the order of history and handler.    *)
THEOREM TakenDownOnce == CaptureSpec => []OnlyLateAnswersRepeat
<1>1. IInv => OnlyLateAnswersRepeat
  BY DEF IInv, Once
<1> QED
  BY <1>1, CaptureInvariant, PTL

(* What a danmu-job that was in the room did not take down, of what was    *)
(* sent since the recording began, neither the room passed to it nor was   *)
(* in the history it was given.                                            *)
THEOREM ChatIsComplete == CaptureSpec => []NothingMissed
<1>1. IInv => NothingMissed
  <2>1. SUFFICES ASSUME IInv, danmu.at = "done", danmu.room,
                        NEW m \in Sent, sentAt[m] >= danmu.zero, xml[m] = 0
                 PROVE  m \in unheard
    BY DEF NothingMissed
  <2> QED
    BY <2>1 DEF IInv, Complete
<1> QED
  BY <1>1, CaptureInvariant, PTL

(* A finished main recording holds exactly what its stream delivered of    *)
(* the round since the recorder was last started.                          *)
THEOREM MainHoldsWhatAired == CaptureSpec => []HoldsWhatAired
<1>1. IInv => HoldsWhatAired
  BY DEF IInv, Recording, OfThisAttempt, HoldsWhatAired
<1> QED
  BY <1>1, CaptureInvariant, PTL

(* Chat and main recording share their clock if the recorder was started   *)
(* once.                                                                   *)
THEOREM ClocksAgree == CaptureSpec => []OneClock
<1>1. IInv => OneClock
  BY DEF IInv, Recording, OfThisAttempt, Metadata, OneClock, NoFile
<1> QED
  BY <1>1, CaptureInvariant, PTL

=============================================================================
