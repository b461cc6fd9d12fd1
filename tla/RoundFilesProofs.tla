-------------------------- MODULE RoundFilesProofs --------------------------
(***************************************************************************)
(* Proofs about RoundFiles, for every combination of options and every     *)
(* number of retries and mishaps: types, and the four invariants about the *)
(* archive, the danmu and the texts.  Each job works on files that no      *)
(* other job writes at that time, which follows from the order of the      *)
(* tasks; the rest is what a job started again finds.                      *)
(***************************************************************************)
EXTENDS RoundFiles, TLAPS

-----------------------------------------------------------------------------
(* The inductive invariant                                                 *)

Steps == {"remux", "validate", "rawSource", "cut", "exit", "clean", "extract", "recognize",
          "raw", "srt", "stt", "open", "save", "stale", "encode", "remove", "publish"}

Types ==
  /\ TypeOK
  /\ at \in [Stepwise -> Steps]
  /\ mishaps \in 0..Mishaps

\* What depends and when make of the order of the tasks.
Order ==
  /\ ~Settled("danmu") => status["trim"] = "waiting"
  /\ ~Settled("trim") =>
       status["stt"] = "waiting" /\ status["lark"] = "waiting" /\ status["transcode"] = "waiting"
  /\ status["lark"] = "running" => status["trim"] = "Succeeded"
  /\ ~Settled("lark") => status["transcode"] = "waiting"
  /\ status["ready"] \in {"running", "Succeeded"} =>
       status["transcode"] \in {"Succeeded", "Skipped", "Omitted"}
  /\ cleaner # "young" => AllSettled
  /\ \A t \in Stepwise : status[t] = "waiting" => at[t] = FirstStep[t]

\* The trimmed archive, until the transcoder or the cleaner may touch it; only
\* a transcoder started again may begin without one.
Archive ==
  /\ status["trim"] = "running" /\ at["trim"] \in {"rawSource", "cut", "exit"} =>
       mp4 = "trimmed"
  /\ status["trim"] = "Succeeded" /\ cleaner = "young" =>
       /\ status["transcode"] \in {"waiting", "Skipped", "Omitted"} => mp4 = "trimmed"
       /\ status["transcode"] = "Succeeded" => mp4 # "none"
  /\ At("lark", "save") => opened = "trimmed"
  /\ status["transcode"] = "running" => status["trim"] = "Succeeded"
  /\ At("transcode", "stale") \/ At("transcode", "encode") =>
       mp4 # "none" \/ tries["transcode"] > 0
  /\ At("transcode", "remove") \/ At("transcode", "publish") => av1 # "none"
  /\ At("transcode", "remove") \/ At("transcode", "exit") => mp4 # "none"
  /\ UploadedIsTrimmed
  /\ ArchiveLossIsSeen

\* The danmu and its raw copy, before, during and after the trim job.
Untouched == xml = "raw" /\ rawXml = "none"
Kept      == rawXml = "raw" /\ xml \in {"none", "cut"}

Danmaku ==
  /\ status["trim"] = "waiting" => rawXml = "none"
  /\ status["danmu"] = "Succeeded" =>
       /\ status["trim"] = "waiting" => Untouched
       /\ status["trim"] = "running" => Untouched \/ Kept
       /\ At("trim", "cut") => rawXml = "raw"
       /\ At("trim", "exit") => rawXml = "raw" /\ xml = "cut"
  /\ DanmuCutOnce

\* The texts of the current attempt, while they are published one by one.
Mine(f) == IF f \in made THEN tries["stt"] + 1 ELSE 0

OneAttempt ==
  /\ At("stt", "raw") => staged["raw"] = Mine("raw")
  /\ At("stt", "raw") \/ At("stt", "srt") => staged["srt"] = Mine("srt")
  /\ At("stt", "raw") \/ At("stt", "srt") \/ At("stt", "stt") => staged["stt"] = Mine("stt")
  /\ At("stt", "srt") \/ At("stt", "stt") \/ At("stt", "exit") => text["raw"] = Mine("raw")
  /\ At("stt", "stt") \/ At("stt", "exit") => text["srt"] = Mine("srt")
  /\ At("stt", "exit") => text["stt"] = Mine("stt")
  /\ TextsOfOneAttempt

IInv == Types /\ Order /\ Archive /\ Danmaku /\ OneAttempt

-----------------------------------------------------------------------------
(* The parts of the invariant that a step leaves alone                     *)

LEMMA OrderFrame ==
  ASSUME Order, UNCHANGED <<status, cleaner>>, Types,
         \A t \in Stepwise : status[t] = "waiting" => at'[t] = at[t]
  PROVE  Order'
BY DEF Order, Settled, AllSettled

LEMMA ArchiveFrame ==
  ASSUME Archive, UNCHANGED <<status, at, tries, mp4, av1, opened, upload, cleaner>>
  PROVE  Archive'
BY DEF Archive, At, UploadedIsTrimmed, ArchiveLossIsSeen

LEMMA DanmakuFrame ==
  ASSUME Danmaku, UNCHANGED <<status, danmu>>, at'["trim"] = at["trim"]
  PROVE  Danmaku'
BY DEF Danmaku, At, Untouched, Kept, DanmuCutOnce, danmu

LEMMA OneAttemptFrame ==
  ASSUME OneAttempt, UNCHANGED <<status, tries, texts>>, at'["stt"] = at["stt"]
  PROVE  OneAttempt'
BY DEF OneAttempt, At, Mine, TextsOfOneAttempt, texts

\* The jobs that have not begun, and the cleaner, while one runs.
LEMMA WhileTrimming ==
  ASSUME Types, Order, status["trim"] = "running"
  PROVE  /\ Settled("danmu") /\ cleaner = "young"
         /\ status["stt"] = "waiting" /\ status["lark"] = "waiting"
         /\ status["transcode"] = "waiting"
BY DEF Types, TypeOK, Order, Settled, AllSettled, Tasks, Stepwise

LEMMA WhileRunning ==
  ASSUME Types, Order, NEW t \in {"stt", "lark", "transcode"}, status[t] = "running"
  PROVE  /\ Settled("trim") /\ status["trim"] # "running" /\ cleaner = "young"
         /\ t = "lark" => status["trim"] = "Succeeded" /\ status["transcode"] = "waiting"
BY DEF Types, TypeOK, Order, Settled, AllSettled, Tasks, Stepwise

\* The round is not reported ready while the transcoder may still run.
LEMMA NotReadyYet ==
  ASSUME Types, Order, status["transcode"] \in {"waiting", "running", "Failed"}
  PROVE  status["ready"] \notin {"running", "Succeeded"}
BY DEF Order

-----------------------------------------------------------------------------
(* How the jobs go on                                                      *)

LEMMA GoesOn ==
  ASSUME Types, Order, NEW t \in Stepwise, NEW step \in Steps, status[t] = "running",
         Goto(t, step)
  PROVE  /\ at' \in [Stepwise -> Steps] /\ at'[t] = step
         /\ \A u \in Stepwise : u # t => at'[u] = at[u]
         /\ UNCHANGED <<status, tries>>
         /\ cleaner' = cleaner => Order'
<1>1. /\ at' \in [Stepwise -> Steps] /\ at'[t] = step
      /\ \A u \in Stepwise : u # t => at'[u] = at[u]
      /\ UNCHANGED <<status, tries>>
  BY DEF Goto, Types
<1>2. \A u \in Stepwise : status[u] = "waiting" => at'[u] = at[u]
  BY <1>1
<1> QED
  BY <1>1, <1>2, OrderFrame

\* A task that ends, for good or not, starts none.
LEMMA Ends ==
  ASSUME Types, Order, NEW t \in Tasks, NEW s \in {"Succeeded", "Failed"},
         status[t] = "running", status' = [status EXCEPT ![t] = s],
         UNCHANGED <<at, tries>>
  PROVE  /\ status'[t] = s /\ \A u \in Tasks : u # t => status'[u] = status[u]
         /\ status' \in [Tasks -> {"waiting", "running", "Succeeded", "Failed",
                                   "Skipped", "Omitted"}]
         /\ cleaner' = cleaner => Order'
<1>1. /\ status'[t] = s /\ \A u \in Tasks : u # t => status'[u] = status[u]
      /\ status' \in [Tasks -> {"waiting", "running", "Succeeded", "Failed",
                                "Skipped", "Omitted"}]
  BY DEF Types, TypeOK
<1>2. \A u \in Tasks : Settled(u) => Settled(u)'
  BY <1>1 DEF Settled
<1>3. \A u \in Tasks : status'[u] = "waiting" <=> status[u] = "waiting"
  BY <1>1
<1>4. \A u \in Tasks : status'[u] = "running" => status[u] = "running"
  BY <1>1
<1>5. status["trim"] = "Succeeded" => status'["trim"] = "Succeeded"
  BY <1>1 DEF Tasks, Stepwise
<1>6. {"danmu", "trim", "stt", "lark", "transcode", "ready"} \subseteq Tasks /\ Stepwise \subseteq Tasks
  BY DEF Tasks, Stepwise, Settling
<1>7. cleaner' = cleaner => Order'
  BY <1>1, <1>2, <1>3, <1>4, <1>5, <1>6 DEF Order, AllSettled
<1> QED
  BY <1>1, <1>7

-----------------------------------------------------------------------------
(* The jobs, step by step                                                   *)

LEMMA RemuxKeeps ==
  ASSUME IInv, Remux
  PROVE  IInv'
<1>1. /\ status["trim"] = "running" /\ at["trim"] = "remux" /\ Goto("trim", "validate")
      /\ UNCHANGED <<on, av1, xml, rawXml, staged, text, made, upload, opened, cleaner, mishaps>>
      /\ mp4' = "partial"
  BY DEF Remux, At, danmu, texts, lark
<1>2. /\ at' \in [Stepwise -> Steps] /\ at'["trim"] = "validate"
      /\ \A u \in Stepwise : u # "trim" => at'[u] = at[u]
      /\ UNCHANGED <<status, tries>> /\ Order'
  BY <1>1, GoesOn DEF IInv, Stepwise, Steps
<1>3. Types'
  BY <1>1, <1>2 DEF IInv, Types, TypeOK, Archives
<1>4. Archive'
  BY <1>1, <1>2, WhileTrimming DEF IInv, Stepwise, Archive, At,
     UploadedIsTrimmed, ArchiveLossIsSeen
<1>5. Danmaku'
  BY <1>1, <1>2 DEF IInv, Danmaku, At, Untouched, Kept, DanmuCutOnce
<1>6. OneAttempt'
  BY <1>1, <1>2, OneAttemptFrame DEF IInv, Stepwise, texts
<1> QED
  BY <1>2, <1>3, <1>4, <1>5, <1>6 DEF IInv

LEMMA ValidateOutputKeeps ==
  ASSUME IInv, ValidateOutput
  PROVE  IInv'
<1>1. /\ status["trim"] = "running" /\ at["trim"] = "validate" /\ Goto("trim", "rawSource")
      /\ UNCHANGED <<on, av1, xml, rawXml, staged, text, made, upload, opened, cleaner, mishaps>>
      /\ mp4' = "trimmed"
  BY DEF ValidateOutput, At, danmu, texts, lark
<1>2. /\ at' \in [Stepwise -> Steps] /\ at'["trim"] = "rawSource"
      /\ \A u \in Stepwise : u # "trim" => at'[u] = at[u]
      /\ UNCHANGED <<status, tries>> /\ Order'
  BY <1>1, GoesOn DEF IInv, Stepwise, Steps
<1>3. Types'
  BY <1>1, <1>2 DEF IInv, Types, TypeOK, Archives
<1>4. Archive'
  BY <1>1, <1>2, WhileTrimming DEF IInv, Stepwise, Archive, At,
     UploadedIsTrimmed, ArchiveLossIsSeen
<1>5. Danmaku'
  BY <1>1, <1>2 DEF IInv, Danmaku, At, Untouched, Kept, DanmuCutOnce
<1>6. OneAttempt'
  BY <1>1, <1>2, OneAttemptFrame DEF IInv, Stepwise, texts
<1> QED
  BY <1>2, <1>3, <1>4, <1>5, <1>6 DEF IInv

LEMMA EnsureRawSourceKeeps ==
  ASSUME IInv, EnsureRawSource
  PROVE  IInv'
<1>1. /\ status["trim"] = "running" /\ at["trim"] = "rawSource" /\ Goto("trim", "cut")
      /\ UNCHANGED <<on, mp4, av1, staged, text, made, upload, opened, cleaner, mishaps>>
      /\ rawXml' = (IF rawXml = "none" /\ xml # "none" THEN xml ELSE rawXml)
      /\ xml' = (IF rawXml = "none" /\ xml # "none" THEN "none" ELSE xml)
  BY DEF EnsureRawSource, At, danmu, texts, lark
<1>2. /\ at' \in [Stepwise -> Steps] /\ at'["trim"] = "cut"
      /\ \A u \in Stepwise : u # "trim" => at'[u] = at[u]
      /\ UNCHANGED <<status, tries>> /\ Order'
  BY <1>1, GoesOn DEF IInv, Stepwise, Steps
<1>3. Types'
  BY <1>1, <1>2 DEF IInv, Types, TypeOK, Danmu
<1>4. Archive'
  BY <1>1, <1>2, WhileTrimming DEF IInv, Stepwise, Archive, At,
     UploadedIsTrimmed, ArchiveLossIsSeen
<1>5. Danmaku'
  BY <1>1, <1>2 DEF IInv, Danmaku, At, Untouched, Kept, DanmuCutOnce
<1>6. OneAttempt'
  BY <1>1, <1>2, OneAttemptFrame DEF IInv, Stepwise, texts
<1> QED
  BY <1>2, <1>3, <1>4, <1>5, <1>6 DEF IInv

LEMMA TrimDanmuKeeps ==
  ASSUME IInv, TrimDanmu
  PROVE  IInv'
<1>1. /\ status["trim"] = "running" /\ at["trim"] = "cut" /\ Goto("trim", "exit")
      /\ UNCHANGED <<on, mp4, av1, rawXml, staged, text, made, upload, opened, cleaner, mishaps>>
      /\ rawXml = "raw" => xml' = "cut"
      /\ xml' \in Danmu
  BY DEF TrimDanmu, At, danmu, texts, lark, Danmu, IInv, Types, TypeOK
<1>2. /\ at' \in [Stepwise -> Steps] /\ at'["trim"] = "exit"
      /\ \A u \in Stepwise : u # "trim" => at'[u] = at[u]
      /\ UNCHANGED <<status, tries>> /\ Order'
  BY <1>1, GoesOn DEF IInv, Stepwise, Steps
<1>3. Types'
  BY <1>1, <1>2 DEF IInv, Types, TypeOK, Danmu
<1>4. Archive'
  BY <1>1, <1>2, WhileTrimming DEF IInv, Stepwise, Archive, At,
     UploadedIsTrimmed, ArchiveLossIsSeen
<1>5. Danmaku'
  BY <1>1, <1>2 DEF IInv, Danmaku, At, Untouched, Kept, DanmuCutOnce
<1>6. OneAttempt'
  BY <1>1, <1>2, OneAttemptFrame DEF IInv, Stepwise, texts
<1> QED
  BY <1>2, <1>3, <1>4, <1>5, <1>6 DEF IInv

LEMMA CleanStagedKeeps ==
  ASSUME IInv, CleanStaged
  PROVE  IInv'
<1>1. /\ status["stt"] = "running" /\ at["stt"] = "clean" /\ Goto("stt", "extract")
      /\ UNCHANGED <<on, mp4, av1, xml, rawXml, text, made, upload, opened, cleaner, mishaps>>
      /\ staged' = [f \in Texts |-> 0]
  BY DEF CleanStaged, At, danmu, texts, lark
<1>2. /\ at' \in [Stepwise -> Steps] /\ at'["stt"] = "extract"
      /\ \A u \in Stepwise : u # "stt" => at'[u] = at[u]
      /\ UNCHANGED <<status, tries>> /\ Order'
  BY <1>1, GoesOn DEF IInv, Stepwise, Steps
<1>3. Types'
  BY <1>1, <1>2, FilesAssumption DEF IInv, Types, TypeOK
<1>4. Archive'
  BY <1>1, <1>2 DEF IInv, Stepwise, Archive, At, UploadedIsTrimmed, ArchiveLossIsSeen
<1>5. Danmaku'
  BY <1>1, <1>2, DanmakuFrame DEF IInv, Stepwise, danmu
<1>6. OneAttempt'
  BY <1>1, <1>2 DEF IInv, OneAttempt, At, Mine, TextsOfOneAttempt
<1> QED
  BY <1>2, <1>3, <1>4, <1>5, <1>6 DEF IInv

LEMMA RecognizeKeeps ==
  ASSUME IInv, Recognize
  PROVE  IInv'
<1>1. /\ status["stt"] = "running" /\ at["stt"] = "recognize" /\ Goto("stt", "raw")
      /\ UNCHANGED <<on, mp4, av1, xml, rawXml, text, upload, opened, cleaner, mishaps>>
      /\ staged' = [f \in Texts |-> IF f \in made' THEN tries["stt"] + 1 ELSE 0]
      /\ made' \subseteq Texts
  BY DEF Recognize, At, danmu, texts, lark
<1>2. /\ at' \in [Stepwise -> Steps] /\ at'["stt"] = "raw"
      /\ \A u \in Stepwise : u # "stt" => at'[u] = at[u]
      /\ UNCHANGED <<status, tries>> /\ Order'
  BY <1>1, GoesOn DEF IInv, Stepwise, Steps
<1>3. Types'
  BY <1>1, <1>2, FilesAssumption DEF IInv, Types, TypeOK, Stepwise
<1>4. Archive'
  BY <1>1, <1>2 DEF IInv, Stepwise, Archive, At, UploadedIsTrimmed, ArchiveLossIsSeen
<1>5. Danmaku'
  BY <1>1, <1>2, DanmakuFrame DEF IInv, Stepwise, danmu
<1>6. OneAttempt'
  BY <1>1, <1>2 DEF IInv, OneAttempt, At, Mine, TextsOfOneAttempt, Texts
<1> QED
  BY <1>2, <1>3, <1>4, <1>5, <1>6 DEF IInv

LEMMA CommitSTTKeeps ==
  ASSUME IInv, NEW f \in Texts, CommitSTT(f)
  PROVE  IInv'
<1>1. /\ status["stt"] = "running" /\ at["stt"] = f /\ Goto("stt", (CASE f = "raw" -> "srt" [] f = "srt" -> "stt" [] f = "stt" -> "exit"))
      /\ UNCHANGED <<on, mp4, av1, xml, rawXml, made, upload, opened, cleaner, mishaps>>
      /\ staged' = [staged EXCEPT ![f] = 0]
      /\ text' = [text EXCEPT ![f] = staged[f]]
  BY DEF CommitSTT, At, danmu, texts, lark
<1>2. /\ at' \in [Stepwise -> Steps] /\ at'["stt"] = (CASE f = "raw" -> "srt" [] f = "srt" -> "stt" [] f = "stt" -> "exit")
      /\ \A u \in Stepwise : u # "stt" => at'[u] = at[u]
      /\ UNCHANGED <<status, tries>> /\ Order'
  <2>1. (CASE f = "raw" -> "srt" [] f = "srt" -> "stt" [] f = "stt" -> "exit") \in Steps
    BY DEF Texts, Steps
  <2> QED
    BY <1>1, <2>1, GoesOn DEF IInv, Stepwise
<1>3. Types'
  BY <1>1, <1>2, FilesAssumption DEF IInv, Types, TypeOK
<1>4. Archive'
  BY <1>1, <1>2 DEF IInv, Stepwise, Archive, At, UploadedIsTrimmed, ArchiveLossIsSeen
<1>5. Danmaku'
  BY <1>1, <1>2, DanmakuFrame DEF IInv, Stepwise, danmu
<1>6. OneAttempt'
  BY <1>1, <1>2 DEF IInv, Types, TypeOK, Texts, OneAttempt, At, Mine, TextsOfOneAttempt
<1> QED
  BY <1>2, <1>3, <1>4, <1>5, <1>6 DEF IInv


LEMMA SaveUploadKeeps ==
  ASSUME IInv, SaveUpload
  PROVE  IInv'
<1>1. /\ status["lark"] = "running" /\ at["lark"] = "save" /\ Goto("lark", "exit")
      /\ UNCHANGED <<on, mp4, av1, xml, rawXml, staged, text, made, opened, cleaner, mishaps>>
      /\ upload' = [upload EXCEPT !.file = opened]
  BY DEF SaveUpload, At, danmu, texts, lark
<1>2. /\ at' \in [Stepwise -> Steps] /\ at'["lark"] = "exit"
      /\ \A u \in Stepwise : u # "lark" => at'[u] = at[u]
      /\ UNCHANGED <<status, tries>> /\ Order'
  BY <1>1, GoesOn DEF IInv, Stepwise, Steps
<1>3. Types'
  BY <1>1, <1>2 DEF IInv, Types, TypeOK
<1>4. Archive'
  BY <1>1, <1>2 DEF IInv, Stepwise, Archive, At, UploadedIsTrimmed, ArchiveLossIsSeen
<1>5. Danmaku'
  BY <1>1, <1>2, DanmakuFrame DEF IInv, Stepwise, danmu
<1>6. OneAttempt'
  BY <1>1, <1>2, OneAttemptFrame DEF IInv, Stepwise, texts
<1> QED
  BY <1>2, <1>3, <1>4, <1>5, <1>6 DEF IInv

LEMMA RemoveStaleKeeps ==
  ASSUME IInv, RemoveStale
  PROVE  IInv'
<1>1. /\ status["transcode"] = "running" /\ at["transcode"] = "stale" /\ Goto("transcode", "encode")
      /\ UNCHANGED <<on, mp4, xml, rawXml, staged, text, made, upload, opened, cleaner, mishaps>>
      /\ av1' = "none"
  BY DEF RemoveStale, At, danmu, texts, lark
<1>2. /\ at' \in [Stepwise -> Steps] /\ at'["transcode"] = "encode"
      /\ \A u \in Stepwise : u # "transcode" => at'[u] = at[u]
      /\ UNCHANGED <<status, tries>> /\ Order'
  BY <1>1, GoesOn DEF IInv, Stepwise, Steps
<1>3. Types'
  BY <1>1, <1>2 DEF IInv, Types, TypeOK, Archives
<1>4. Archive'
  BY <1>1, <1>2, WhileRunning, WhileTrimming DEF IInv, Stepwise, Archive, At,
     UploadedIsTrimmed, ArchiveLossIsSeen
<1>5. Danmaku'
  BY <1>1, <1>2, DanmakuFrame DEF IInv, Stepwise, danmu
<1>6. OneAttempt'
  BY <1>1, <1>2, OneAttemptFrame DEF IInv, Stepwise, texts
<1> QED
  BY <1>2, <1>3, <1>4, <1>5, <1>6 DEF IInv

LEMMA RemoveArchiveKeeps ==
  ASSUME IInv, RemoveArchive
  PROVE  IInv'
<1>1. /\ status["transcode"] = "running" /\ at["transcode"] = "remove" /\ Goto("transcode", "publish")
      /\ UNCHANGED <<on, av1, xml, rawXml, staged, text, made, upload, opened, cleaner, mishaps>>
      /\ mp4' = "none"
  BY DEF RemoveArchive, At, danmu, texts, lark
<1>2. /\ at' \in [Stepwise -> Steps] /\ at'["transcode"] = "publish"
      /\ \A u \in Stepwise : u # "transcode" => at'[u] = at[u]
      /\ UNCHANGED <<status, tries>> /\ Order'
  BY <1>1, GoesOn DEF IInv, Stepwise, Steps
<1>3. Types'
  BY <1>1, <1>2 DEF IInv, Types, TypeOK, Archives
<1>4. Archive'
  BY <1>1, <1>2, WhileRunning, WhileTrimming, NotReadyYet DEF IInv, Stepwise, Archive, At,
     UploadedIsTrimmed, ArchiveLossIsSeen
<1>5. Danmaku'
  BY <1>1, <1>2, DanmakuFrame DEF IInv, Stepwise, danmu
<1>6. OneAttempt'
  BY <1>1, <1>2, OneAttemptFrame DEF IInv, Stepwise, texts
<1> QED
  BY <1>2, <1>3, <1>4, <1>5, <1>6 DEF IInv

LEMMA PublishArchiveKeeps ==
  ASSUME IInv, PublishArchive
  PROVE  IInv'
<1>1. /\ status["transcode"] = "running" /\ at["transcode"] = "publish" /\ Goto("transcode", "exit")
      /\ UNCHANGED <<on, xml, rawXml, staged, text, made, upload, opened, cleaner, mishaps>>
      /\ mp4' = av1
      /\ av1' = "none"
  BY DEF PublishArchive, At, danmu, texts, lark
<1>2. /\ at' \in [Stepwise -> Steps] /\ at'["transcode"] = "exit"
      /\ \A u \in Stepwise : u # "transcode" => at'[u] = at[u]
      /\ UNCHANGED <<status, tries>> /\ Order'
  BY <1>1, GoesOn DEF IInv, Stepwise, Steps
<1>3. Types'
  BY <1>1, <1>2 DEF IInv, Types, TypeOK, Archives
<1>4. Archive'
  BY <1>1, <1>2, WhileRunning, WhileTrimming DEF IInv, Stepwise, Archive, At,
     UploadedIsTrimmed, ArchiveLossIsSeen
<1>5. Danmaku'
  BY <1>1, <1>2, DanmakuFrame DEF IInv, Stepwise, danmu
<1>6. OneAttempt'
  BY <1>1, <1>2, OneAttemptFrame DEF IInv, Stepwise, texts
<1> QED
  BY <1>2, <1>3, <1>4, <1>5, <1>6 DEF IInv

-----------------------------------------------------------------------------
(* Tasks that start and end                                                *)

LEMMA StartFacts ==
  ASSUME Types, NEW t \in Tasks, Start(t)
  PROVE  /\ status[t] = "waiting"
         /\ status'[t] \in {"running", "Skipped", "Omitted"}
         /\ \A u \in Tasks : u # t => status'[u] = status[u]
         /\ t = "trim" => Settled("danmu")
         /\ t \in {"stt", "lark", "transcode"} => Settled("trim")
         /\ t \in {"lark", "transcode"} /\ status'[t] = "running" =>
              status["trim"] = "Succeeded"
         /\ t = "ready" /\ status'[t] = "running" =>
              status["transcode"] \in {"Succeeded", "Skipped", "Omitted"}
         /\ t = "transcode" => Settled("lark")
         /\ UNCHANGED <<at, tries, on, mp4, av1, xml, rawXml, staged, text, made, upload,
                        opened, cleaner, mishaps>>
<1>1. /\ status[t] = "waiting" /\ \A d \in Needs(t) \cup Enablers(t) : Settled(d)
      /\ UNCHANGED <<at, tries, on, mp4, av1, xml, rawXml, staged, text, made, upload,
                     opened, cleaner, mishaps>>
  BY DEF Start, danmu, texts, lark
<1>2. PICK s \in {"running", "Skipped", "Omitted"} :
        /\ s = "Omitted" <=> ~Depends(t)
        /\ status' = [status EXCEPT ![t] = s]
  BY DEF Start
<1>3. status'[t] = s /\ \A u \in Tasks : u # t => status'[u] = status[u]
  BY <1>2 DEF Types, TypeOK
<1>4. t = "trim" => Settled("danmu")
  BY <1>1 DEF Enablers
<1>5. t \in {"stt", "lark", "transcode"} => "trim" \in Needs(t)
  BY DEF Needs
<1>6. t = "transcode" => Settled("lark")
  BY <1>1 DEF Enablers
<1>7. t \in {"lark", "transcode"} /\ s = "running" => status["trim"] = "Succeeded"
  BY <1>2, <1>5 DEF Depends
<1>8. t = "ready" /\ s = "running" =>
        status["transcode"] \in {"Succeeded", "Skipped", "Omitted"}
  <2>1. t = "ready" => "transcode" \in Enablers(t)
    BY DEF Enablers
  <2> QED
    BY <1>2, <2>1 DEF Depends, Off
<1> QED
  BY <1>1, <1>2, <1>3, <1>4, <1>5, <1>6, <1>7, <1>8

LEMMA StartKeeps ==
  ASSUME IInv, NEW t \in Tasks, Start(t)
  PROVE  IInv'
<1>1. /\ status[t] = "waiting"
      /\ status'[t] \in {"running", "Skipped", "Omitted"}
      /\ \A u \in Tasks : u # t => status'[u] = status[u]
      /\ t = "trim" => Settled("danmu")
      /\ t \in {"stt", "lark", "transcode"} => Settled("trim")
      /\ t \in {"lark", "transcode"} /\ status'[t] = "running" =>
           status["trim"] = "Succeeded"
      /\ t = "ready" /\ status'[t] = "running" =>
           status["transcode"] \in {"Succeeded", "Skipped", "Omitted"}
      /\ t = "transcode" => Settled("lark")
      /\ UNCHANGED <<at, tries, on, mp4, av1, xml, rawXml, staged, text, made, upload,
                     opened, cleaner, mishaps>>
  BY StartFacts DEF IInv
<1>2. {"danmu", "trim", "stt", "lark", "transcode", "ready"} \subseteq Tasks /\ Stepwise \subseteq Tasks
  BY DEF Tasks, Stepwise, Settling
<1>3. Types'
  <2>1. status' \in [Tasks -> {"waiting", "running", "Succeeded", "Failed",
                               "Skipped", "Omitted"}]
    BY DEF Start, IInv, Types, TypeOK
  <2> QED
    BY <1>1, <2>1 DEF IInv, Types, TypeOK
<1>4. Order'
  <2>1. \A u \in Tasks : Settled(u) => Settled(u)'
    BY <1>1 DEF Settled
  <2>2. \A u \in Tasks : status'[u] = "waiting" => status[u] = "waiting"
    BY <1>1
  <2>3. ~Settled("danmu") => status'["trim"] = "waiting"
    BY <1>1, <1>2 DEF IInv, Order
  <2>4. ~Settled("trim") => status'["stt"] = "waiting" /\ status'["lark"] = "waiting"
                            /\ status'["transcode"] = "waiting"
    BY <1>1, <1>2 DEF IInv, Order
  <2>5. status'["lark"] = "running" => status'["trim"] = "Succeeded"
    BY <1>1, <1>2 DEF IInv, Order
  <2>6. ~Settled("lark") => status'["transcode"] = "waiting"
    BY <1>1, <1>2 DEF IInv, Order
  <2>7. status'["ready"] \in {"running", "Succeeded"} =>
          status'["transcode"] \in {"Succeeded", "Skipped", "Omitted"}
    BY <1>1, <1>2 DEF IInv, Order
  <2> QED
    BY <1>1, <1>2, <2>1, <2>2, <2>3, <2>4, <2>5, <2>6, <2>7 DEF IInv, Order, AllSettled
<1>5. \A u \in Stepwise : u = t => at[u] = FirstStep[u]
  BY <1>1 DEF IInv, Order
<1>6. Archive'
  <2>1. cleaner = "young" /\ cleaner' = "young"
    BY <1>1 DEF IInv, Order, AllSettled, Settled
  <2>2. UploadedIsTrimmed' /\ ArchiveLossIsSeen'
    BY <1>1, <1>2 DEF IInv, Archive, UploadedIsTrimmed, ArchiveLossIsSeen
  <2> QED
    BY <1>1, <1>2, <1>5, <2>1, <2>2 DEF IInv, Stepwise, FirstStep, Archive, At
<1>7. Danmaku'
  BY <1>1, <1>2, <1>5 DEF IInv, Stepwise, FirstStep, Danmaku, At, Untouched, Kept, DanmuCutOnce
<1>8. OneAttempt'
  BY <1>1, <1>2, <1>5 DEF IInv, Stepwise, FirstStep, OneAttempt, At, Mine, TextsOfOneAttempt
<1> QED
  BY <1>3, <1>4, <1>6, <1>7, <1>8 DEF IInv

LEMMA FinishKeeps ==
  ASSUME IInv, NEW t \in Tasks, Finish(t)
  PROVE  IInv'
<1>1. /\ t \in Settling /\ status[t] = "running"
      /\ status' = [status EXCEPT ![t] = "Succeeded"]
      /\ xml' = (IF t = "danmu" THEN "raw" ELSE xml)
      /\ UNCHANGED <<at, tries, on, mp4, av1, rawXml, staged, text, made, upload, opened,
                     cleaner, mishaps>>
  BY DEF Finish, texts, lark
<1>2. /\ status'[t] = "Succeeded" /\ \A u \in Tasks : u # t => status'[u] = status[u]
      /\ status' \in [Tasks -> {"waiting", "running", "Succeeded", "Failed",
                                "Skipped", "Omitted"}]
      /\ Order'
  BY <1>1, Ends DEF IInv
<1>3. {"danmu", "trim", "stt", "lark", "transcode", "ready"} \subseteq Tasks
      /\ t \notin {"trim", "stt", "lark", "transcode"}
  BY <1>1 DEF Tasks, Stepwise, Settling
<1>4. Types'
  BY <1>1, <1>2 DEF IInv, Types, TypeOK, Danmu
<1>5. Archive'
  <2>1. t = "ready" => status["transcode"] \in {"Succeeded", "Skipped", "Omitted"}
    BY <1>1 DEF IInv, Order
  <2>2. UploadedIsTrimmed' /\ ArchiveLossIsSeen'
    BY <1>1, <1>2, <1>3, <2>1 DEF IInv, Archive, UploadedIsTrimmed, ArchiveLossIsSeen
  <2> QED
    BY <1>1, <1>2, <1>3, <2>2 DEF IInv, Archive, At
<1>6. Danmaku'
  <2>1. CASE t = "danmu"
    <3>1. status["trim"] = "waiting" /\ status'["trim"] = "waiting"
      BY <1>1, <1>2, <1>3, <2>1 DEF IInv, Order, Settled
    <3> QED
      BY <1>1, <2>1, <3>1 DEF IInv, Danmaku, At, Untouched, DanmuCutOnce
  <2>2. CASE t # "danmu"
    BY <1>1, <1>2, <1>3, <2>2 DEF IInv, Danmaku, At, Untouched, Kept, DanmuCutOnce
  <2> QED
    BY <2>1, <2>2
<1>7. OneAttempt'
  BY <1>1, <1>2, <1>3 DEF IInv, OneAttempt, At, Mine, TextsOfOneAttempt
<1> QED
  BY <1>2, <1>4, <1>5, <1>6, <1>7 DEF IInv

LEMMA ExitKeeps ==
  ASSUME IInv, NEW t \in Stepwise, Exit(t)
  PROVE  IInv'
<1>1. /\ t \in Tasks /\ status[t] = "running" /\ at[t] = "exit"
      /\ status' = [status EXCEPT ![t] = "Succeeded"]
      /\ UNCHANGED <<at, tries, on, mp4, av1, xml, rawXml, staged, text, made, upload, opened,
                     cleaner, mishaps>>
  BY DEF Exit, At, danmu, texts, lark, Tasks
<1>2. /\ status'[t] = "Succeeded" /\ \A u \in Tasks : u # t => status'[u] = status[u]
      /\ status' \in [Tasks -> {"waiting", "running", "Succeeded", "Failed",
                                "Skipped", "Omitted"}]
      /\ Order'
  BY <1>1, Ends DEF IInv
<1>3. {"danmu", "trim", "stt", "lark", "transcode", "ready"} \subseteq Tasks /\ t # "danmu"
  BY DEF Tasks, Stepwise, Settling
<1>4. Types'
  BY <1>1, <1>2 DEF IInv, Types, TypeOK
<1>5. Archive'
  <2>1. UploadedIsTrimmed' /\ ArchiveLossIsSeen'
    BY <1>1, <1>2, <1>3 DEF IInv, Stepwise, Archive, At, UploadedIsTrimmed, ArchiveLossIsSeen
  <2> QED
    BY <1>1, <1>2, <1>3, <2>1 DEF IInv, Stepwise, Archive, At
<1>6. Danmaku'
  BY <1>1, <1>2, <1>3 DEF IInv, Danmaku, At, Untouched, Kept, DanmuCutOnce
<1>7. OneAttempt'
  <2>1. t = "stt" => \A f \in Texts : text[f] = Mine(f)
    BY <1>1 DEF IInv, OneAttempt, At, Texts
  <2>2. t = "stt" => text = [f \in Texts |-> Mine(f)]
    BY <2>1 DEF IInv, Types, TypeOK
  <2> QED
    BY <1>1, <1>2, <1>3, <2>2 DEF IInv, OneAttempt, At, Mine, TextsOfOneAttempt
<1> QED
  BY <1>2, <1>4, <1>5, <1>6, <1>7 DEF IInv

-----------------------------------------------------------------------------
(* Failures                                                                *)

\* A task that fails leaves the files as they are.
LEMMA FailsKeep ==
  ASSUME IInv, NEW t \in Tasks, status[t] = "running",
         status' = [status EXCEPT ![t] = "Failed"],
         UNCHANGED <<at, tries, on, mp4, av1, xml, rawXml, text, made, upload, cleaner>>,
         staged' = staged \/ t = "stt",
         opened' = opened \/ t = "lark",
         mishaps' \in 0..Mishaps,
         opened' \in Archives, staged' \in [Texts -> 0..(Retries + 1)]
  PROVE  IInv'
<1>1. /\ status'[t] = "Failed" /\ \A u \in Tasks : u # t => status'[u] = status[u]
      /\ status' \in [Tasks -> {"waiting", "running", "Succeeded", "Failed",
                                "Skipped", "Omitted"}]
      /\ Order'
  BY Ends DEF IInv
<1>2. {"danmu", "trim", "stt", "lark", "transcode", "ready"} \subseteq Tasks
  BY DEF Tasks, Stepwise, Settling
<1>3. Types'
  BY <1>1 DEF IInv, Types, TypeOK
<1>4. Archive'
  BY <1>1, <1>2 DEF IInv, Archive, At, UploadedIsTrimmed, ArchiveLossIsSeen
<1>5. Danmaku'
  BY <1>1, <1>2 DEF IInv, Danmaku, At, Untouched, Kept, DanmuCutOnce
<1>6. OneAttempt'
  BY <1>1, <1>2 DEF IInv, OneAttempt, At, Mine, TextsOfOneAttempt
<1> QED
  BY <1>1, <1>3, <1>4, <1>5, <1>6 DEF IInv

LEMMA MishapFacts ==
  ASSUME Types, Mishap
  PROVE  mishaps' \in 0..Mishaps
BY FilesAssumption DEF Types, Mishap

LEMMA FailKeeps ==
  ASSUME IInv, NEW t \in Tasks, Fail(t)
  PROVE  IInv'
<1>1. /\ status[t] = "running" /\ status' = [status EXCEPT ![t] = "Failed"]
      /\ UNCHANGED <<at, tries, on, mp4, av1, xml, rawXml, text, made, upload, opened, cleaner>>
      /\ staged' = (IF t = "stt" THEN [f \in Texts |-> 0] ELSE staged)
  BY DEF Fail, danmu, lark
<1>2. mishaps' \in 0..Mishaps
  BY MishapFacts DEF Fail, IInv
<1>3. /\ opened' \in Archives
      /\ staged' \in [Texts -> 0..(Retries + 1)]
  BY <1>1, FilesAssumption DEF IInv, Types, TypeOK
<1> QED
  BY <1>1, <1>2, <1>3, FailsKeep

LEMMA LosePodKeeps ==
  ASSUME IInv, NEW t \in Tasks, LosePod(t)
  PROVE  IInv'
<1>1. /\ t \in Stepwise /\ status[t] = "running"
      /\ UNCHANGED <<on, mp4, av1, xml, rawXml, staged, text, made, upload, opened, cleaner>>
  BY DEF LosePod, danmu, texts, lark
<1>2. mishaps' \in 0..Mishaps
  BY MishapFacts DEF LosePod, IInv
<1>3. CASE tries[t] < Retries
  <2>1. /\ at' = [at EXCEPT ![t] = FirstStep[t]] /\ status' = status
        /\ tries' = [tries EXCEPT ![t] = @ + 1]
    BY <1>3 DEF LosePod
  <2>2. /\ at'[t] = FirstStep[t] /\ \A u \in Stepwise : u # t => at'[u] = at[u]
        /\ \A u \in Stepwise : u # t => tries'[u] = tries[u]
    BY <1>1, <2>1 DEF IInv, Types, TypeOK
  <2>3. Types'
    <3>1. FirstStep[t] \in Steps
      BY <1>1 DEF Stepwise, FirstStep, Steps
    <3>2. tries' \in [Stepwise -> 0..Retries]
      BY <1>1, <1>3, <2>1, FilesAssumption DEF IInv, Types, TypeOK
    <3> QED
      BY <1>1, <1>2, <2>1, <3>1, <3>2 DEF IInv, Types, TypeOK
  <2>4. Order'
    BY <1>1, <2>1, <2>2, OrderFrame DEF IInv
  <2>5. Archive'
    <3>1. /\ tries[t] \in Nat /\ tries'[t] = tries[t] + 1
          /\ t # "transcode" => tries'["transcode"] = tries["transcode"]
      BY <1>1, <2>1, <2>2 DEF IInv, Types, TypeOK, Stepwise
    <3>2. UploadedIsTrimmed' /\ ArchiveLossIsSeen'
      BY <1>1, <2>1, <3>1 DEF IInv, Archive, UploadedIsTrimmed, ArchiveLossIsSeen
    <3>3. CASE t = "transcode"
      <4>1. at'["transcode"] = "stale"
        BY <2>2, <3>3 DEF FirstStep
      <4> QED
        BY <1>1, <2>1, <2>2, <3>1, <3>2, <3>3, <4>1 DEF IInv, Stepwise, Archive, At
    <3>4. CASE t # "transcode"
      BY <1>1, <2>1, <2>2, <3>1, <3>2, <3>4 DEF IInv, Stepwise, FirstStep, Archive, At
    <3> QED
      BY <3>3, <3>4
  <2>6. Danmaku'
    <3>1. CASE t = "trim"
      <4>1. at'["trim"] = "remux"
        BY <2>2, <3>1 DEF FirstStep
      <4> QED
        BY <1>1, <2>1, <3>1, <4>1 DEF IInv, Danmaku, At, Untouched, Kept, DanmuCutOnce
    <3>2. CASE t # "trim"
      BY <1>1, <2>1, <2>2, <3>2, DanmakuFrame DEF IInv, Stepwise, danmu
    <3> QED
      BY <3>1, <3>2
  <2>7. OneAttempt'
    BY <1>1, <2>1, <2>2 DEF IInv, Stepwise, FirstStep, OneAttempt, At, Mine, TextsOfOneAttempt
  <2> QED
    BY <2>3, <2>4, <2>5, <2>6, <2>7 DEF IInv
<1>4. CASE ~(tries[t] < Retries)
  <2>1. status' = [status EXCEPT ![t] = "Failed"] /\ UNCHANGED <<at, tries>>
    BY <1>4 DEF LosePod
  <2> QED
    BY <1>1, <1>2, <2>1, FailsKeep DEF IInv, Types, TypeOK
<1> QED
  BY <1>3, <1>4

\* Jobs that look for the archive give up if it is not there.
LEMMA ExtractAudioKeeps ==
  ASSUME IInv, ExtractAudio
  PROVE  IInv'
<1>1. /\ status["stt"] = "running" /\ at["stt"] = "extract"
      /\ UNCHANGED <<on, mp4, av1, xml, rawXml, staged, text, made, upload, opened, cleaner,
                     mishaps>>
  BY DEF ExtractAudio, At, danmu, texts, lark
<1>2. CASE mp4 = "none"
  <2>1. status' = [status EXCEPT !["stt"] = "Failed"] /\ UNCHANGED <<at, tries>>
    BY <1>2 DEF ExtractAudio, GiveUp
  <2> QED
    BY <1>1, <2>1, FailsKeep DEF IInv, Types, TypeOK, Tasks, Stepwise
<1>3. CASE mp4 # "none"
  <2>1. /\ at' \in [Stepwise -> Steps] /\ at'["stt"] = "recognize"
        /\ \A u \in Stepwise : u # "stt" => at'[u] = at[u]
        /\ UNCHANGED <<status, tries>> /\ Order'
    BY <1>1, <1>3, GoesOn DEF IInv, Stepwise, Steps, ExtractAudio
  <2>2. Types'
    BY <1>1, <2>1 DEF IInv, Types, TypeOK
  <2>3. Archive'
    BY <1>1, <2>1 DEF IInv, Stepwise, Archive, At, UploadedIsTrimmed, ArchiveLossIsSeen
  <2>4. Danmaku'
    BY <1>1, <2>1, DanmakuFrame DEF IInv, Stepwise, danmu
  <2>5. OneAttempt'
    BY <1>1, <2>1 DEF IInv, OneAttempt, At, Mine, TextsOfOneAttempt
  <2> QED
    BY <2>1, <2>2, <2>3, <2>4, <2>5 DEF IInv
<1> QED
  BY <1>2, <1>3

LEMMA OpenSourceKeeps ==
  ASSUME IInv, OpenSource
  PROVE  IInv'
<1>1. /\ status["lark"] = "running" /\ at["lark"] = "open"
      /\ UNCHANGED <<on, mp4, av1, xml, rawXml, staged, text, made, upload, cleaner, mishaps>>
  BY DEF OpenSource, At, danmu, texts
<1>2. CASE mp4 = "none"
  <2>1. /\ status' = [status EXCEPT !["lark"] = "Failed"] /\ UNCHANGED <<at, tries, opened>>
    BY <1>2 DEF OpenSource, GiveUp
  <2> QED
    BY <1>1, <2>1, FailsKeep DEF IInv, Types, TypeOK, Tasks, Stepwise
<1>3. CASE mp4 # "none"
  <2>1. /\ at' \in [Stepwise -> Steps] /\ at'["lark"] = "save"
        /\ \A u \in Stepwise : u # "lark" => at'[u] = at[u]
        /\ UNCHANGED <<status, tries>> /\ Order' /\ opened' = mp4
    BY <1>1, <1>3, GoesOn DEF IInv, Stepwise, Steps, OpenSource
  <2>2. mp4 = "trimmed"
    BY <1>1, WhileRunning DEF IInv, Archive
  <2>3. Types'
    BY <1>1, <2>1 DEF IInv, Types, TypeOK
  <2>4. Archive'
    BY <1>1, <2>1, <2>2 DEF IInv, Stepwise, Archive, At, UploadedIsTrimmed,
       ArchiveLossIsSeen
  <2>5. Danmaku'
    BY <1>1, <2>1, DanmakuFrame DEF IInv, Stepwise, danmu
  <2>6. OneAttempt'
    BY <1>1, <2>1, OneAttemptFrame DEF IInv, Stepwise, texts
  <2> QED
    BY <2>1, <2>3, <2>4, <2>5, <2>6 DEF IInv
<1> QED
  BY <1>2, <1>3

LEMMA EncodeKeeps ==
  ASSUME IInv, Encode
  PROVE  IInv'
<1>1. /\ status["transcode"] = "running" /\ at["transcode"] = "encode"
      /\ UNCHANGED <<on, mp4, xml, rawXml, staged, text, made, upload, opened, cleaner, mishaps>>
  BY DEF Encode, At, danmu, texts, lark
<1>2. CASE mp4 = "none"
  <2>1. /\ status' = [status EXCEPT !["transcode"] = "Failed"] /\ UNCHANGED <<at, tries>>
        /\ av1' = av1
    BY <1>2 DEF Encode, GiveUp
  <2> QED
    BY <1>1, <2>1, FailsKeep DEF IInv, Types, TypeOK, Tasks, Stepwise, Archives
<1>3. CASE mp4 # "none"
  <2>1. /\ at' \in [Stepwise -> Steps] /\ at'["transcode"] = "remove"
        /\ \A u \in Stepwise : u # "transcode" => at'[u] = at[u]
        /\ UNCHANGED <<status, tries>> /\ Order' /\ av1' \in {"av1", "av1Again"}
    BY <1>1, <1>3, GoesOn DEF IInv, Stepwise, Steps, Encode
  <2>2. Types'
    BY <1>1, <2>1 DEF IInv, Types, TypeOK, Archives
  <2>3. Archive'
    BY <1>1, <1>3, <2>1 DEF IInv, Stepwise, Archive, At, UploadedIsTrimmed,
       ArchiveLossIsSeen
  <2>4. Danmaku'
    BY <1>1, <2>1, DanmakuFrame DEF IInv, Stepwise, danmu
  <2>5. OneAttempt'
    BY <1>1, <2>1, OneAttemptFrame DEF IInv, Stepwise, texts
  <2> QED
    BY <2>1, <2>2, <2>3, <2>4, <2>5 DEF IInv
<1> QED
  BY <1>2, <1>3

-----------------------------------------------------------------------------
(* The cleaner                                                             *)

LEMMA CleanerKeeps ==
  ASSUME IInv, Age \/ RemoveSource \/ MarkDeleted \/ FailMark
  PROVE  IInv'
<1>1. /\ UNCHANGED <<status, at, tries, on, av1, xml, rawXml, staged, text, made, opened>>
      /\ AllSettled /\ cleaner' \in {"query", "mark"}
      /\ mp4' = mp4 \/ mp4' = "none"
      /\ upload'.file = upload.file
      /\ upload' \in [file : Archives, deleted : BOOLEAN]
      /\ mishaps' \in 0..Mishaps
  BY MishapFacts
     DEF Age, RemoveSource, MarkDeleted, FailMark, jobs, danmu, texts, lark, IInv, Order, Types,
         TypeOK
<1>2. {"trim", "lark", "transcode"} \subseteq Tasks
  BY DEF Tasks, Stepwise
<1>3. Types'
  BY <1>1 DEF IInv, Types, TypeOK, Archives
<1>4. Order'
  BY <1>1 DEF IInv, Order, AllSettled, Settled
<1>5. Archive'
  BY <1>1, <1>2 DEF IInv, Archive, At, AllSettled, Settled, UploadedIsTrimmed,
     ArchiveLossIsSeen
<1>6. Danmaku' /\ OneAttempt'
  BY <1>1, DanmakuFrame, OneAttemptFrame DEF IInv, danmu, texts
<1> QED
  BY <1>3, <1>4, <1>5, <1>6 DEF IInv

-----------------------------------------------------------------------------
(* The theorems                                                            *)

LEMMA InitInv == Init => IInv
<1> SUFFICES ASSUME Init PROVE IInv
  OBVIOUS
<1>1. FirstStep \in [Stepwise -> Steps]
  BY DEF FirstStep, Stepwise, Steps
<1>2. Types
  BY <1>1, FilesAssumption DEF Init, Types, TypeOK, Archives, Danmu
<1>3. \A t \in Tasks : status[t] = "waiting"
  BY DEF Init
<1>4. {"danmu", "trim", "stt", "lark", "transcode", "ready"} \subseteq Tasks
  BY DEF Tasks, Stepwise, Settling
<1>5. Order
  BY <1>3, <1>4 DEF Init, Order, Stepwise
<1>6. Archive /\ Danmaku /\ OneAttempt
  BY <1>3, <1>4 DEF Init, Archive, Danmaku, OneAttempt, At, UploadedIsTrimmed,
     ArchiveLossIsSeen, DanmuCutOnce, TextsOfOneAttempt
<1> QED
  BY <1>2, <1>5, <1>6 DEF IInv

LEMMA ProgressKeeps ==
  ASSUME IInv, Progress
  PROVE  IInv'
<1>1. CASE TrimStep
  BY <1>1, RemuxKeeps, ValidateOutputKeeps, EnsureRawSourceKeeps, TrimDanmuKeeps, ExitKeeps
     DEF TrimStep, Stepwise
<1>2. CASE STTStep
  BY <1>2, CleanStagedKeeps, ExtractAudioKeeps, RecognizeKeeps, CommitSTTKeeps, ExitKeeps
     DEF STTStep, Stepwise
<1>3. CASE LarkStep
  BY <1>3, OpenSourceKeeps, SaveUploadKeeps, ExitKeeps DEF LarkStep, Stepwise
<1>4. CASE TranscodeStep
  BY <1>4, RemoveStaleKeeps, EncodeKeeps, RemoveArchiveKeeps, PublishArchiveKeeps, ExitKeeps
     DEF TranscodeStep, Stepwise
<1> QED
  BY <1>1, <1>2, <1>3, <1>4, StartKeeps, FinishKeeps DEF Progress

LEMMA NextKeeps == IInv /\ [Next]_vars => IInv'
<1> SUFFICES ASSUME IInv, [Next]_vars PROVE IInv'
  OBVIOUS
<1>1. CASE UNCHANGED vars
  <2>1. UNCHANGED <<status, at, tries, on, mp4, av1, xml, rawXml, staged, text, made, upload,
                    opened, cleaner, mishaps>>
    BY <1>1 DEF vars, jobs, danmu, texts, lark
  <2> QED
    BY <2>1, OrderFrame, ArchiveFrame, DanmakuFrame, OneAttemptFrame
       DEF IInv, Types, TypeOK, danmu, texts
<1> QED
  BY <1>1, ProgressKeeps, CleanerKeeps, FailKeeps, LosePodKeeps DEF Next, Cleaner

LEMMA AlwaysIInv == FilesSpec => []IInv
BY InitInv, NextKeeps, PTL DEF FilesSpec

(***************************************************************************)
(* Every variable keeps its type, and no job is started again more often   *)
(* than its retryStrategy allows.                                          *)
(***************************************************************************)
THEOREM FilesTypes == FilesSpec => []TypeOK
<1>1. IInv => TypeOK
  BY DEF IInv, Types
<1> QED
  BY <1>1, AlwaysIInv, PTL

(***************************************************************************)
(* What is uploaded is the trimmed recording, whatever is retried: the     *)
(* upload runs after the trim job and before the transcoder.               *)
(***************************************************************************)
THEOREM UploadIsWhole == FilesSpec => []UploadedIsTrimmed
<1>1. IInv => UploadedIsTrimmed
  BY DEF IInv, Archive
<1> QED
  BY <1>1, AlwaysIInv, PTL

(***************************************************************************)
(* However often the trim job is started again, the danmu is cut once      *)
(* (ensure_raw_source keeps the first copy).                               *)
(***************************************************************************)
THEOREM CutOnce == FilesSpec => []DanmuCutOnce
<1>1. IInv => DanmuCutOnce
  BY DEF IInv, Danmaku
<1> QED
  BY <1>1, AlwaysIInv, PTL

(***************************************************************************)
(* The texts of a finished stt-job are those of its last attempt           *)
(* (commitSTT, which also removes what this attempt did not write).        *)
(***************************************************************************)
THEOREM TextsAgree == FilesSpec => []TextsOfOneAttempt
<1>1. IInv => TextsOfOneAttempt
  BY DEF IInv, OneAttempt
<1> QED
  BY <1>1, AlwaysIInv, PTL

(***************************************************************************)
(* A trimmed round without its archive has the successor that is about to  *)
(* take its place, or a restarted transcoder that does not succeed; it is  *)
(* never reported ready, until the cleaner comes.                          *)
(***************************************************************************)
THEOREM LossIsSeen == FilesSpec => []ArchiveLossIsSeen
<1>1. IInv => ArchiveLossIsSeen
  BY DEF IInv, Archive
<1> QED
  BY <1>1, AlwaysIInv, PTL
=============================================================================
