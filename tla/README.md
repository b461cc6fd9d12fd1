# rm-monitor: models, checks and proofs

rm-monitor follows the RoboMaster schedule, records every round of a match from
several cameras, processes the recordings and keeps one Lark (Feishu) card per
match up to date. This directory holds TLA+ modules of the parts of it that are
concurrent or must survive failures, TLC configurations that check them, and
TLAPS proofs about all of them: the scan loop, the round gates, the capture of a
round, the round's files, the settlement panel, the scan window, the card, the match
report and the uploads.
Paths below are relative to the repository.

`PROJECT.json` lists the runs, the source lines each definition stands for, the
hazards each property is aimed at, and a faulty variant of the model for every
property. Definitions commented "Faulty variant" exist for that purpose and take
no part in any specification.

To run something: `tlc -config RoundFiles.cfg RoundFiles.tla`,
`tlapm MatchScanProofs.tla`.

## 1. The system

| part | state it keeps | operations | talks to |
|---|---|---|---|
| `match-controller` scan loop (`internal/logic/matchscan.go`, `main.go`) | rows `matches`, `match_rounds`; last processed snapshot in Redis (24 h); the lease | a scan every 5 s: fetch schedule, load snapshot, upsert match, create workflow, end and start rounds, converge a finished match, save snapshot | schedule, PostgreSQL, Redis, Argo |
| round gate (`round_gate.go`) | nothing; its output parameters | poll match row, then round row, every 2 s, until its round is active, skipped or missed | PostgreSQL |
| `record-job` (`main.go`) | `.part` file, recording, `record.json` of the main role | record until the round row is ENDED, commit or give up | round row, stream, files |
| `danmu-job` (`src/main.ts`) | chat XML, set of seen messages | wait for `record.json`, join the chat, hydrate the history, write messages, stop with the round | LeanCloud, round row, files |
| match workflow (`workflowtemplates.yaml`) | task states, retries | start tasks by `depends` and `when`, retry | Argo |
| `record-trim-job`, `stt-job`, `transcode-job` | files of the round's directory | cut video and danmu; transcribe and publish texts; replace the archive by AV1 | files, Whisper, Dify |
| `lark-record-job` (`main.go`) | row `lark_bitable_records`, table cache, table lock, minute counters | create table and record, upload in parts, attach, enter the token | Lark, Redis, PostgreSQL |
| `artifact-cleaner` (`cleaner.go`) | deletion mark in `lark_bitable_records` | delete uploaded sources after the retention | PostgreSQL, files |
| `lark-notifier` (`notify.go`, `utils/`) | row `lark_messages`: card id, sequence, payload; `lastScan` in memory | scan changed matches page by page, render, lock, create or update the card, recover | PostgreSQL, Lark |
| `analyze-job` (`main.py`), `analyze-publish` (`analyze_publish.go`) | `settlement.jpg`, `round.json`; the settlement columns of `match_rounds` | find the panel, write picture and verdict; publish them in the row | files, PostgreSQL, Argo |
| backfill job (`artifact_backfill.go`, run by every install and upgrade of the chart) | the settlement columns, `highlight_clips` | complete rows from what is in the directories | files, PostgreSQL |
| workflow reconciler (`workflow_reconcile.go`) | workflow phase in the rows, a recovery annotation | sync phases, retry a workflow in Error once | Argo, PostgreSQL |
| `manifest-job` (`manifest.go`) | report files, `matches.report`, a Redis lease | write the match's README, generate or recover the report, save it | files, Dify, PostgreSQL |
| highlight jobs (`highlight-job`, `highlight-artifact-job`, `highlight-publish-bilibili-job`) | rows `highlight_clips`, publications; clips | find candidates, render, finalise, publish | files, Bilibili, PostgreSQL |
| `health-checker`, `migrate-job`, `pkg/*` | none that others race on | log only; schema; helpers | |

The parts share PostgreSQL rows and one directory per round; nothing but those
and Argo's task order synchronises them. What that makes hard:

* **scan loop** - each scan is a sequence of calls any of which may fail, and it is
  repeated from a snapshot in Redis that may be gone. The schedule gives counts of
  wins, not who won which game, and corrects itself. A leader that lost its lease
  finishes its scan beside the new one. *Correct when* rounds are opened and closed
  one at a time, ENDED is final, winners are the true ones and the final score gets
  into the rows.
* **gates** - two queries per poll see different moments. *Correct when* a skipped
  round is never played, none is missed, and no gate waits for ever.
* **capture** - recorders are restarted in the middle, streams stall or die early,
  history and live messages overlap, queries answer after their timeout, connections are
  lost. *Correct when* the main recording holds what its stream delivered until the
  round's end, what the chat offered is taken down, once and on the recording's clock,
  and everything stops with the round.
* **round's files** - four jobs rewrite the same files and are started again from
  any step. *Correct when* a retry does not repeat what was done, nobody reads a
  file while it is replaced, no round is ready without its archive, and skipped tasks
  block nothing.
* **card** - Lark drops an update whose sequence number is not new, requests given
  up may arrive late, notifiers overlap and restart. *Correct when* no update is
  swallowed and the card ends up showing the current state.
* **scan window** - the notifier finds changed matches by `updated_at`, which is the
  clock of the writer and is seen later, in pages that are queried one after the other
  while the rows change. *Correct when* every change falls into some window and every
  match of a window into some page.
* **settlement panel** - `analyze-job` writes its picture in place and its verdict last;
  a pod started again may come to another verdict; the backfill writes the same columns
  beside the workflow, from a list it read earlier. *Correct when* the row ends with
  verdict and whole picture of the accepted attempt, and the card shows that or nothing.
* **match report** - the report goes to two files, the row and README.md, one after
  the other; pods die in between or go on beside their successors; the match is read
  before the lease is asked for; the language model that reviews highlights may change
  its mind when it is asked again. *Correct when* all copies are one report, a saved
  report is never replaced, and the clips shown are those that were accepted and are
  whole.
* **reconciler** - it retries a workflow and marks it with a copy listed before.
  *Correct when* the phase of the workflow and its report reach the rows.
* **uploads** - jobs create one table and its fields under locks that have no owner,
  and share a rate counted per minute. *Correct when* the locks exclude, a job that
  succeeded has a row that names the record and the file attached to it, and every
  job ends.

## 2. The modules

| module | models | composed from |
|---|---|---|
| `Scoring` | win counts, decided match, order of wins, final redistribution (`matchscan.go` 897-938, 1027-1068) as operators | |
| `WinnerFill` | the two loops of `authoritativeWinners`, of which `Scoring` has the closed form, as operators | `Scoring` |
| `MatchScan` | the scan loop, one action per call | `Scoring` |
| `RoundBook` | abstract: rounds are opened and closed one at a time, in order | |
| `RoundOrder` | the refinement mapping to `RoundBook` and the inductive invariants `OrderInv` and `SettleInv` | `MatchScan`, `RoundBook` |
| `ScanHistory` | the true winner of each game as a history variable | `RoundOrder`, `WinnerFill` |
| `Leadership` | the lease and its takeover | `MatchScan` |
| `RoundGate` | the gates against the scanner | `MatchScan` |
| `RoundCapture`, `MCRoundCapture` | `record-job`s and `danmu-job` of one round | |
| `RoundFiles` | the round's task graph, its four rewriting jobs and the cleaner | |
| `Highlights` | review, rows, artifacts and finalisation of one round's clips | |
| `MatchReport` | `manifest-job`, its lease and files, Argo's view of it, the reconciler | `Highlights` |
| `BitableUpload` | concurrent `lark-record-job`s: table, fields, rate, record, row | |
| `LarkCard`, `MCLarkCard` | notifiers, lock, row and Lark's cards | |
| `ScanWindow` | the notifier's windows and pages over many matches, with writers beside it | |
| `Settlement` | `analyze-job`, `analyze-publish`, backfill and the picture on the card, for one round | |
| `MatchScanProofs` | theorems about the scanner and what is built on it: `RoundOrder`, `RoundGate`, `ScanHistory`, `WinnerFill` | `RoundGate`, `ScanHistory` |
| `RoundCaptureProofs`, `RoundFilesProofs`, `SettlementProofs`, `ScanWindowProofs`, `MatchReportProofs`, `BitableUploadProofs`, `LarkCardProofs` | theorems and their proofs | the module they are named after |

**MatchScan.** `feed` is the schedule entry, `row` the match row, `rounds` the round
rows, `snap` the Redis snapshot, `workflow` whether the workflow exists. Per
controller, `pc` names the next call, `cur` is the entry being processed, `prev` the
snapshot it loaded, `todo`/`phase` the rounds left to end, `seenRound`, `seenRow`,
`verdict` what earlier queries returned. One action is one call: `UpsertMatch`,
`EnsureMatchWorkflow`, `QueryRound`/`EndRound` (the query and the write of
`ensureEndedRound` are separate steps), `QueryStart`/`StartRound`, `ConvergeRounds`,
`ConvergeRow`, `ConvergeSave`, `SaveSnapshot`. `Fail` ends the scan anywhere: an
error, the one-minute timeout and a crash all leave the same state, since a scan
keeps nothing in memory.

**RoundGate** adds per gate the row it read first. `outrun` records whether the
schedule moved on while a gate had not yet seen its open round. Its types are part of the
proofs (`GateTypes`).

**RoundCapture.** The broadcast is cut into ticks and a recording is the set of ticks
it holds; `part` and `full` are the partial and the committed file. `Tick` adds to the
file of each running ffmpeg what its stream delivers, which may be nothing while ffmpeg
reconnects; `gone` are the ticks the main stream has not delivered since its recorder
was last started, at `zero`. `meta` is the time base in `record.json`, `xml` counts how
often each message was written. The `danmu-job` is one record: where it is, whether it
is in the room and connected, the answer to its history query, messages held back and
seen. The history query returns the last `HistoryLimit` messages. `unheard` are the
messages that neither the room passed to the present client nor the history it was given
contains. `MCRoundCapture` names the rounds that TLC looks at.

**RoundFiles.** `status` is Argo's view of each task; the four jobs that rewrite
files have steps of their own, the others only settle. A file is represented by what
is in it: `mp4` is none, partial, trimmed, av1 or av1Again (encoded from itself);
the danmu is raw, cut or cut again; a text carries the attempt that wrote it.

**Highlights.** `review` is the highlight pod at work, `clip` the rows, `step` and
`files` the artifact job and the directory of each clip, `ready` the rows that
`finalizeHighlightArtifact` or the backfill has completed. A pod that is started again
reviews every candidate anew, with verdicts of its own.

**MatchReport.** A report is named after the pod that had it generated. `match` is the
row, `disk` the files together with the temporary files, whose names all pods share.
Per pod there are the next step `pc`, `sawDone` (what `ReadMatch` saw) and the report
in hand, `text`. `lease` is the key in Redis, `lapsed` records that it expired under a
holder whose renewals failed. `wf` is the workflow as Argo has it, `rec` the
reconciler with the copy it listed, which is `current` until the workflow changes,
`rowPhase` the phase in the rows. `KillPod` leaves the lease behind, `AbandonPod`
leaves the pod running.

**BitableUpload.** A pod is a job and an attempt; it holds its next step, its table,
how it came by it (`via` decides whether `ensureTable` still has the lock, and whether
it will cache the table) and the API calls left. `job` is what Argo knows. `tables`,
`fields`, `records` and `attached` are Lark's state, `cache`, the locks, `count` and
`timed` are Redis'. `expired`, `untimed` and `abandoned` record that a lock expired
under its holder, that an `EXPIRE` was lost and which jobs have a pod that was given
up.

**LarkCard.** `content` is a number that grows with each change of the match.
`message` is the row, `cards` what Lark holds per card id with the last sequence
number it accepted, `late` the requests that were given up and may still arrive.
`Budgets` chooses in `Init` which notifiers run and how much may go wrong, so that
one run covers two instances.

**ScanWindow.** `version` counts the writes to a match that can be seen, `shown` is what
its card shows. `stamps` holds `updated_at` of the match row and of one row that hangs
on it; a row is stamped first (`StampRow`) and seen later (`CommitRow`). `scan` is the
scan under way with the page in hand; `Place` is the offset of a match in the result,
`PlacesFetched` the offset up to which pages were fetched. `excuses` records what may lose
a change: a failed or cut-off delivery, a notifier down for longer than it looks back, a
match row in a fetched place written while there are pages to come (`MovesBack`). Every
other write between two pages is left to the property `ScanCovers`.

**Settlement.** A picture is named after the attempt that wrote it and is `whole` or
not. `analyze` and `publish` are the tasks as Argo has them, `pods` and `publishers`
their pods, abandoned ones included. `row` has the status and the picture, which stands
for path, checksum and `settlement_ready_at`, since they are always written together.
`backfill` holds the row as it was listed, `render` the row that the notifier read.
`Init` is a round whose workflow is at work or an old one that only the backfill
completes.

## 3. The runs

| run | asks | bounds |
|---|---|---|
| `ScanHistory` | do rounds open and close in order, is `OrderInv` invariant, are winners true, is no round opened past the decision, does a complete scan of the final score leave it in the rows for good, do the loops of `authoritativeWinners` split every final score as their closed form does? | best of five, 2 failed scans, 1 corrected game |
| `Takeover` | does the final score reach the rows, is every round closed and is ENDED final, although the schedule does not wait and two controllers interleave? | best of three, 1 failure, 1 lost snapshot, 1 correction, 1 takeover |
| `RoundGate` | is a skipped round never played, no round missed, does every gate end? | 3 gates, best of three, 1 failure |
| `RoundCapture` | what recording and chat hold, and stopping, section 1 | 2 ticks, 1 retry; the main role alone with 2 messages, of which the history returns 1, and 2 mishaps; or with a side role, no message and 1 mishap |
| `RoundFiles` | retries, file conflicts, blocked tasks, section 1 | all options, 1 retry per job, 2 mishaps |
| `MatchReport` | one report everywhere, never replaced, clips delivered, does the outcome reach the row? | 1 clip, 1 retry, 2 faults (hence 3 pods), one of which may hit the highlight jobs |
| `BitableUpload` | do the locks exclude, is what succeeded uploaded, does every job end? | 2 jobs, 1 retry, rate 1, 1 call, 2 tables, 1 fault |
| `CardDelivery` | is the card writable, does every update land, do restarts alone lose nothing? | 2 notifiers, 2 changes, 1 failure, 1 restart; or 1 notifier, 4 changes, 3 restarts |
| `ScanWindow` | does every change fall into some window, does a scan leave out no match while rows are written between its pages, does every change reach its card? | 2 matches, pages of 1, overlap and lookback 1, 3 writes, clock to 2, 1 fault |
| `Settlement` | has the published row verdict and whole picture, does the card show only that, and in the end? | 1 retry, 1 backfill, 3 faults |
| `DanmuHangs` | *violated*: a dead side stream removes the metadata the danmu-job waits for | 1 mishap |
| `ArchiveLost` | *violated*: the cleaner deletes the only archive | no mishap |

Why the bounds are enough. The scan compares two consecutive entries, so one failed
scan at every point, one correction and one loss reach each pair of "half done"
rows and schedule; five games are the longest real match. In `Takeover` the change of
leader meets a scan after the first game of an otherwise undisturbed match
(`Undisturbed`), and the schedule is paced from then on; failures, losses and
corrections come without a takeover. The action `TakeOver` names this limit, and
`EndedStaysEnded` and `NothingPastDecision` are proved without it. A gate compares two
rows, and its neighbours matter only through the schedule. In `RoundCapture` two
messages are the least of which a history of one leaves one out, and two ticks the least
of which a recording may have one but not the other; two mishaps allow a restart and
another failure, or an outage and a late answer. A side role meets the others only in the
metadata that it may remove, for which one mishap is enough. In `RoundFiles` a job cut off, started again and cut off
again needs two mishaps; the chart's limit of two retries only adds a further
repetition of a state already reached. In `MatchReport` two faults put three pods side
by side or let one be cut off twice between files, and clips do not meet one another.
In `BitableUpload` two jobs and an attempt more for each give four pods for one lock;
a rate of one makes every second draw wait; a second table is what a forgotten cache
or an expired lock leads to. Two notifiers are what a change of leader yields. Two
changes distinguish an old from a current card. In `ScanWindow` two matches on two pages
are the least that can cross a border; three writes stamp one row during the last scan,
one between two pages and one after it, and a clock of two leaves room for a window that
does and one that does not reach back to a write. In `Settlement` one retry gives a
picture of an attempt that failed beside one that succeeded, and three faults let two
pods be lost and a backfill or an upload fail; two retries or two backfills find nothing
new.

Every invariant and action property of the passing runs, and the refinement, is also
proved for every value of these bounds (section 5); what is left to TLC alone are the
liveness properties. The types are proved wherever a module has proofs, so that the runs
do not repeat them.

`CHECK_DEADLOCK FALSE` stands where the modelled work ends: a captured round, a round whose
tasks have settled, uploads that are over. The scanners, the reconciler and the notifier
run for ever and are checked for deadlock.

The violations, in the source's terms:

* `DanmuHangs`: any role that may not commit calls `removeRecordMeta` on the shared
  file, and `waitForRecordMeta` polls without looking at the round.
* `ArchiveLost`: uploads take the MP4 path, and `archivePathForSource` maps an MP4
  to itself, so "source" and "archive" are one file.

Two properties of the notifier hold only because they except what the code gets wrong;
without the exceptions TLC refutes both:

* `ChangesArrive`: `SyncWindow` pages by offset through matches ordered by `updated_at`.
  A match of a fetched page that is written again moves behind the others, which all
  move up by one; the one that crosses the border is on no page, the scan succeeds and
  the window moves on ("moved"). `ScanCovers` has the same exception, and its proof shows
  that no other write between two pages can do it: a row that enters the window or moves
  within the places to come takes no other across the border. It takes more changed
  matches than a page holds (100), as after an import.
* `ChangesArrive` and `CardFollowsUndisturbed`: `SyncWindow` logs a failed delivery and
  returns nil, and `lastScan` moves on ("dropped"). The card stays outdated until the
  match changes again or the notifier is restarted within thirty minutes.

`SingleActiveRound` is stated of a snapshot that Redis keeps. When the snapshot is
lost, `loadLastProcessed` takes the missing key for a first scan, `upsertMatch` skips
`reconcileRounds`, and a round that ended meanwhile stays STARTED beside the next one
until the match is DONE; `Takeover` shows that it is put right then.

## 4. Fairness

All of it is weak fairness of what a running process does next; nothing is assumed
of the schedule, of failures or of the audience.

* `MatchScan`: `WF(Scan(c))`, the five-second ticker of `runController`.
  `Leadership` assumes it of `LoopStep`, since only the leader begins a scan.
* `RoundGate`: in addition `WF` of each gate's poll (two-second ticker).
* `RoundCapture`: `WF` of each recorder's own steps and of the danmu-job's. That a
  round ends, that ffmpeg exits by itself or that a lost connection comes back is not
  assumed; a query without connection ends by the job's own timeout (`withTimeout`).
* `RoundFiles`: `WF(Progress)`: Argo starts what may start, jobs run on.
* `MatchReport`: `WF` of each pod's steps, of the highlight jobs, of Argo, of the
  reconciler and of the lease's expiry. The reconciler runs after the scan in the same
  ticker and shares the scan's one-minute context (`match-controller/main.go`), so its
  fairness says that the scan does not use up the minute every time. That the scan
  ever writes DONE is not assumed: `OutcomeReachesRow` names the case.
* `BitableUpload`: `WF` of each pod's steps, of Argo starting a pod and of the expiry
  of a counter that has a time to live. That a lock expires is not needed, since
  waiting for it ends after ten seconds.
* `ScanWindow`: `WF(Scanner)`: the ticker and Kubernetes, which restarts the notifier.
  That a stamped row is ever seen is not assumed, nor that the clock goes on.
* `Settlement`: `WF` of each pod's steps, of Argo, of a backfill that has begun, and of
  the notifier for a row that has changed. No backfill and no further scan is assumed.
* `LarkCard`: `WF` of each notifier's step (ten-second ticker).

## 5. The proofs

| module | theorems | assumed of the constants |
|---|---|---|
| `MatchScanProofs` | `TypeCorrect`, `EndedStaysEnded`, `NothingPastDecision` | `ScanAssumption`: types, at least one controller |
| | `OrderCorrect`, `OneActiveRound`, `ScannerKeepsBook`, `WinnersStayTrue`, `ScoreIsRecorded`, `NothingLeftStarted` | also `Ordered`, the premise of these theorems: at most one controller, changes processed one by one (`Paced`), no lost snapshot |
| | `SkippedIsOver`, `GatesMissNoRound` | the same, and `GateAssumption` |
| | `WinnersFillTheScore` | `ScanAssumption` |
| `RoundCaptureProofs` | `CaptureTypes`, `TakenDownOnce`, `ChatIsComplete`, `MainHoldsWhatAired`, `ClocksAgree` | `RolesApart`, `CaptureAssumption` |
| `RoundFilesProofs` | `FilesTypes`, `UploadIsWhole`, `CutOnce`, `TextsAgree`, `LossIsSeen` | `FilesAssumption` |
| `ScanWindowProofs` | `WindowTypes`, `NextWindowCovers`, `NoMatchLeftOut` | `WindowAssumption` |
| `SettlementProofs` | `SettlementTypes`, `PublishedVerdict`, `CardShowsOnlyPanel` | `SettlementAssumption` |
| `MatchReportProofs` | `ReportTypes`, `CopiesAgree`, `SavedForGood`, `ClipsAgree` | `HighlightAssumption`, `ReportAssumption` |
| `BitableUploadProofs` | `UploadTypes`, `LocksHold`, `UploadsHold` | `UploadAssumption` |
| `LarkCardProofs` | `CardTypes`, `RowStaysAhead`, `UpdatesAlwaysLand` | `CardAssumption` |

The assumptions only say that numbers are numbers and that sets do not overlap; the one
condition on the deployment, `Ordered`, is a premise of the theorems that need it, and
holds in `ScanHistory` and `RoundGate`. Every proof has the same shape: an inductive invariant as a
conjunction of named parts, one lemma per action or group of actions, and a last
theorem that puts them together.

* **Scan loop, types and ENDED.** `TypeInv` adds to `TypeOK` that the wins of both
  sides together stay within the plan: without it a win moved by a correction could
  leave the range. `EndedStaysEnded` holds for any number of controllers, failures,
  losses and corrections: the only actions that write round rows are `EndRound`, which
  writes ENDED, and `StartRound`, which creates a row only where none is.
* **Past the decision.** `ReachInv` bounds what may be written by what the schedule
  has published: no row lies behind the game after the published ones (`Reach`), and
  neither does a round that some controller has in hand, with an entry that may be far
  behind (`HandReach`).
* **Order of rounds.** "One round STARTED" is not inductive: a scan may be anywhere
  between two entries. `OrderInv` says that the schedule is at most one change ahead
  of the snapshot (`FeedFollows`), that the rows are those of the snapshot or on their
  way to the schedule's (`RowsFollow`), that a scan works on the entry before or after
  that change (`ScanFollows`), and what is still to be done at each call
  (`TodoFollows`, `SeenFollows`, `StartFollows`). `ScanHistory` checks it with TLC.
  `ScannerKeepsBook` maps `EndRound` to `Close` or a stutter, `StartRound` to `Open`
  or a stutter, everything else to a stutter.
* **Gates.** On top of that invariant, `Behind` says that DONE in the match row implies
  DONE in the schedule, and that nothing is opened while the schedule says WAITING;
  `InHand` says the same of the entry that a scan has in hand; `GateInv` relates what a
  gate saw to the rows.
* **Winners.** The schedule publishes counts, so `HistoryInv` relates counts to games:
  in the schedule and in the snapshot each side has won as many of the first games as
  the score says (`ScoreIsTrue`), and a round waits to be ended with the winner it really
  had. One new win then names its side, since only one of the two counts has grown, and
  a finished match is rewritten with what it already has, by the next theorem. It is
  stated until a game is corrected: the schedule does not say which game was awarded to
  the other side.
* **Filling the score.** `WinnersFillTheScore` follows the loops of
  `authoritativeWinners` step by step. `KeepInv`: a side has been credited with its
  recorded rounds up to its wins (`Kept`). `FillInv`: the free slots from the top down
  are filled with blue's wins left over, then red's (`Filling`). There are as many free
  slots as wins left over (`FreeFitsLeftOver`), so that "draw" is never written.
  The induction over the rounds is that of sets of numbers (`SetInduction`, from the
  least number outside), since the library's theorem takes an operator.
* **Finished match.** `ScoreSettles` and `NothingLeftOpen` say that the end is put right
  at last; the theorems say when, and that it stays. Once the snapshot is DONE, a scan of
  the final score has gone through (`Settled`), and from then on the rows have it
  (`ScoreIsRecorded`) and no round is open (`NothingLeftStarted`). `SettleInv` follows
  `convergeCompletedRounds`: the rows together with the rounds still to be ended
  (`DueWinner`) split as the score does at every call, by `WinnersFillTheScore`, so that
  they do when the list is empty; the snapshot is saved only then. A later scan lists the
  winners that the rows already have, and may fail anywhere. That nothing is open rests on
  `NothingPastDecision`, if the match was decided, and on the test of the plan in
  `ensureStartedRound`, if it was played to its last game.
* **Capture.** `Recording`: while the main recorder writes, its partial file has exactly
  what was delivered since `zero`, and it stops only once the row is ENDED; so what is
  committed is complete up to that end (`OfThisAttempt`), whatever is delivered later.
  `Metadata`: what `record.json` and the danmu-job's clock say about that attempt.
  `Once` and `Complete`: where a message is that has not been written, in the answer, in
  the backlog or out of reach. `MainHoldsWhatAired` is about the last attempt only: if
  the recorder was started again after the end of the round, the new recording holds
  nothing of it and still replaces the one that was committed before.
* **Round's files.** `Order` fixes which jobs can run together, `Archive`, `Danmaku`
  and `OneAttempt` what the files contain at each step, so that a job started again
  finds nothing but what its own guards recognise. `LossIsSeen`: the archive may be lost
  for good, since a transcoder that is started again after it had removed the archive
  first removes the successor too. Only such a transcoder begins without an archive; it
  cannot succeed, and the round is ready only after it has.
* **Settlement panel.** `Analysis`: as long as no pod was abandoned, the watched pod is
  the only one, and the files are what it has left at each step. `Publishing` and
  `RowInv`: a publisher holds the picture that is in the directory, and the row of one
  that is done is what it wrote. `BackfillInv`: the backfill holds what it listed, and
  if the workflow was not at work then, the verdict is final. `OldRound` and `Shown`
  carry that to old rounds and to the card.
* **Scan window.** `Before` is a strict total order, so that every match of a window has
  a place of its own and a page holds exactly the matches at its places (`PageHolds`).
  `PlaceAfterCommit` says what a write does to the places: those to come move forward
  only if a match leaves a place already fetched, which is `MovesBack`. `WindowInv` joins
  what the next window covers (`WindowCovers`) with what the scan under way does
  (`ScanCovers`): when the scan succeeds nothing is ahead of it, so that everything still
  out of date was stamped since shortly before it began.
* **Report.** `Exclusive`: only the holder of the lease is inside. `Ordered`: the row
  is saved after report.md, which is published after report.json. `InHand`: what a pod
  inside holds is the report of the files, or there is none yet. `PagesAgree`: the
  staged and the published README show that report. All are stated of runs in which no
  lease has lapsed. For the clips: what the review, the directories and the rows have
  in common (`ReviewInv`, `FilesInv`, `PagesInv`).
* **Uploads.** `Types` adds to `TypeOK` that a pod past `ensureTable` has a table that
  exists and that a waiting job has attempts left. `Locked`: a holder's lock is there,
  and there is one holder. `Uploaded`: a pod that runs is the one Argo watches, unless
  its job has an abandoned pod (`PodGood`), and how far record, attachment and row
  have got (`Progress`); a job that succeeded is complete (`JobGood`).
* **Card.** `Exclusive`: the advisory lock; `Stage`: what the holder knows of row and
  card at each call; `RecoveryAbove`, `CardsKnown`, `Counted`: sequence numbers in
  requests, locals and cards are below the row's, and ids are not reused.

Only model-checked: the liveness properties `ScoreSettles`, `NothingLeftOpen`,
`GatesFinish`, `RecordersEnd`, `DanmuFollows`, `RoundBecomesReady`, `OutcomeReachesRow`,
`UploadsEnd`, `CardFollowsUndisturbed`, `ChangesArrive` and `PanelReachesCard`, since
fairness and ENABLED are outside of the prover; and the two violations.

## 6. Assumptions of the models

* PostgreSQL: each statement is atomic; the unique index rejects the second of two
  creations of a round, which the code takes for done (`EndedRow`, `StartedRow`).
* `MatchScan`: one match; other matches share nothing with it but the scan's time.
  Team rows and everything else the entry carries are data. A result published by
  the schedule is final; a win may move from one side to the other.
* `RoundCapture`: LeanCloud returns the latest messages of the room, as many as asked
  for (`historyLimit`, 80), and they are those the handler was or would have been given.
  What was sent before them, or while the connection was lost, is not taken down: the
  job only logs `disconnect` and `offline` (`main.ts` 451) and asks for the history once.
  `NothingMissed` excepts these messages (`unheard`), and nothing says that there are
  none. Whether the SDK finds its way back into the room is left open. The 5000
  messages that the job remembers are never outgrown while a message may still repeat.
  A stream that ffmpeg reconnects to delivers each tick of the broadcast or does not; the
  time base is that of ffmpeg's start, not of the first frame. ffmpeg's exit and the
  stop flag are read together; an eviction with grace is ffmpeg's exit.
* `RoundFiles`: replacing one text (`replaceFile`) and one rename are atomic; the
  seven-day retention outlasts the workflow; highlight and analysis jobs change no
  file that the four jobs read. Tasks of the other roles run like the main role's.
* `Highlights`: an artifact job publishes each file by a rename; "video" stands for the
  files published before the preview. Exit code 1 is not retried (retry policy of the
  chart), other verdicts are possible on every attempt. A highlight or artifact pod that
  Argo has given up but that still runs beside its successor is not modelled, unlike
  in `MatchReport`, `BitableUpload` and `Settlement`: `ClipsDelivered` says nothing of it.
* `MatchReport`: a statement, a rename and a Redis command are atomic. Argo starts a
  pod again after a lost pod or exit code 75, as `retryStrategy` says. DONE and the end
  of the last round are one step of the scan, whose order `MatchScan` has. The retry
  of a workflow always changes its resource version, so the mark written with the copy
  listed before (`workflow_reconcile.go` 74) is refused and the workflow can be retried
  again when it ends in Error again. Argo does not wait for DONE: a manifest that
  reads the match before (`manifest.go` 75) succeeds without a report. Runs with a
  lapsed lease (`pkg/redisx/lease.go` 72 drops the error of a renewal) are excepted from
  `ReportAgrees` and `SavedReportIsFinal`; without the exception both are false.
* `BitableUpload`: Lark returns the same record for the same client token, attaches
  the last file and lists tables in the order of their creation; whether it refuses a
  second table of the same name is left open. The table and record hints are left out:
  nothing in the repository sets them. Every counter of a minute is like the one that
  is modelled. Excepted are jobs with an abandoned pod (`SucceededIsUploaded`), a lock
  that expired under its holder (`LocksExclude`) and a lost EXPIRE (`UploadsEnd`).
* `ScanWindow`: at least one chat is joined (otherwise `SyncWindow` succeeds at once). A
  statement takes less than the overlap of five seconds from its stamp until it can be
  seen, and the clocks of the nodes agree that well. One delivery is one step;
  `LarkCard` has the inside of it. The rows that hang on a match (rounds, teams,
  records, clips) are represented by one.
* `Settlement`: `cv2.imwrite` creates or empties the file and fills it; `round.json` is
  replaced by a rename. The header of a torn picture may pass `DecodeConfig`, and Lark
  may take or refuse it. `GetLocalImageKey` is one step, its cache by checksum
  does not change its result. Exceptions, each of which TLC shows to be needed: an
  abandoned analysis that goes on beside its successor, a backfill that listed the round
  while the workflow was at work (`CardShowsPanel`) or writes over a row published since
  (`VerdictPublished`), a failed upload of the picture (`PanelReachesCard`).
* `LarkCard`: one chat and one match; the advisory lock is not lost while its holder
  runs; Lark's deduplication of request ids covers the retries of a call; Unix times
  used to recover a sequence grow and exceed any count of updates; rows written
  before cards had ids are left out.

## 7. Not modelled, and the plan

Done, in order of importance: scan loop; takeover; gates; card; capture; round's
files; report, highlights and reconciler; uploads; settlement panel; scan window; and
the proofs of the safety properties of all of them.

Next:

1. Composition of `BitableUpload` with `artifact-cleaner`, which deletes sources by the
   row that an upload writes, and of the uploads of all roles with `RoundFiles`.
2. Composition of `ScanWindow` with `LarkCard`, so that a window holds several matches
   whose deliveries have an inside.
3. The safety that the other liveness properties rest on, as theorems, in the way of
   `ScoreIsRecorded`: what `RoundBecomesReady`, `OutcomeReachesRow` and
   `CardFollowsUndisturbed` find when the work is over.

Left out for good:

* `src/ent`, about 37 000 of the repository's 48 000 lines, is generated by a library
  from the schema; its unique constraints appear as guards of the models. Of the rest,
  much is rendering (`lark-notifier/utils`), prompts and scoring, media commands and
  configuration, which have no state that others see.
* `highlight-publish-bilibili-job`: nothing in the repository starts it, so that
  neither its retries nor what runs beside it can be taken from the source. Reading it
  shows that a clip is submitted before `write_publication` and that no run looks for an
  earlier publication; `write_publication` uses the blocking PostgreSQL client inside of
  the tokio runtime of `main`, which panics.
* The detectors and the OCR of `analyze-job` (data), `health-checker` (reads only),
  `migrate-job`, formatting (`pkg/subtitle`, `pkg/stttext`), paths, HTTP clients without
  state, the limiter of chat messages, which only delays a call, and the sequence
  numbers that the backfill gives to messages of before CardKit.
