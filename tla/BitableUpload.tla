--------------------------- MODULE BitableUpload ---------------------------
(***************************************************************************)
(* lark-record-job: recordings are uploaded to one table of a Lark Bitable *)
(* by several jobs at once.  The first ones create the table and its       *)
(* fields under locks in Redis that have a time to live but no owner; all  *)
(* of them draw slots of an upload rate that Redis counts per minute.      *)
(* Argo starts another pod for a job whose pod was lost or ended with exit *)
(* code 75, and a pod given up as lost may go on beside its successor.     *)
(***************************************************************************)
EXTENDS Naturals

CONSTANTS
  Jobs,        \* the recordings
  RetryLimit,  \* times Argo starts another pod for a job
  Rate,        \* RateLimitPerMinute
  Calls,       \* API calls of one upload: prepare, the parts, finish
  MaxTables,   \* bound on tables created with the name
  MaxFaults    \* bound on failures, lost pods, lost keys and slow lock holders

ASSUME UploadAssumption ==
  /\ {Rate, Calls, MaxTables} \subseteq Nat \ {0}
  /\ RetryLimit \in Nat /\ MaxFaults \in Nat

Attempts == 1..(RetryLimit + 1)
Pods     == Jobs \X Attempts
JobOf(p) == p[1]
Token(p) == p[2]        \* each pod uploads the file anew and gets a token of its own
Tables   == 1..MaxTables
None     == 0           \* no table, no token

VARIABLES
  pod,         \* each pod: next step, table, how the table was come by, calls left
  job,         \* what Argo knows of each job
  tables,      \* Lark: number of tables created with the name, listed in that order
  fields,      \* Lark: tables with all required fields
  records,     \* Lark: records, one per job and table thanks to the client token
  attached,    \* Lark: the attachment of each record
  row,         \* the lark_bitable_records row of each job
  cache,       \* Redis: the table id
  tableLock,   \* Redis: lock on the creation of the table
  fieldLock,   \* Redis: locks on the fields of the tables
  count,       \* Redis: the counter of a minute, counted up to Rate + 1
  timed,       \* Redis: whether the counter has a time to live
  faults,
  expired,     \* whether a lock expired under its holder
  untimed,     \* whether an EXPIRE was lost
  abandoned    \* jobs with a pod that was given up and goes on

lark   == <<tables, fields, records, attached>>
locks  == <<cache, tableLock, fieldLock>>
slots  == <<count, timed>>
ghosts == <<expired, untimed, abandoned>>
vars   == <<pod, job, lark, row, locks, slots, faults, ghosts>>

Ended   == {"new", "done", "failed", "lost"}
Polling == {"wait", "waitFields", "poll"}
PodSteps == Ended \cup Polling \cup
  {"table", "find", "lock", "create", "fields", "make", "record", "row", "slot",
   "expire", "upload", "attach", "save"}

TypeOK ==
  /\ pod \in [Pods -> [at : PodSteps, table : Tables \cup {None},
                       via : {"cache", "find", "wait", "create"},
                       left : 0..Calls]]
  /\ job \in [Jobs -> [state : {"waiting", "running", "Succeeded", "Failed"},
                       try : 0..(RetryLimit + 1)]]
  /\ tables \in 0..MaxTables
  /\ fields \in SUBSET Tables
  /\ records \in SUBSET (Jobs \X Tables)
  /\ attached \in [Jobs \X Tables -> Attempts \cup {None}]
  /\ row \in [Jobs -> [table : Tables \cup {None}, token : Attempts \cup {None},
                       full : BOOLEAN]]
  /\ cache \in 0..tables
  /\ tableLock \in BOOLEAN
  /\ fieldLock \in SUBSET Tables
  /\ count \in 0..(Rate + 1)
  /\ timed \in BOOLEAN
  /\ faults \in 0..MaxFaults
  /\ expired \in BOOLEAN /\ untimed \in BOOLEAN /\ abandoned \in SUBSET Jobs

\* A pod that has done nothing yet, and what is left of one that has ended.
Fresh(step) == [at |-> step, table |-> None, via |-> "cache", left |-> Calls]

Init ==
  /\ pod = [p \in Pods |-> Fresh("new")]
  /\ job = [j \in Jobs |-> [state |-> "waiting", try |-> 0]]
  /\ tables = 0 /\ fields = {} /\ records = {}
  /\ attached = [r \in Jobs \X Tables |-> None]
  /\ row = [j \in Jobs |-> [table |-> None, token |-> None, full |-> FALSE]]
  /\ cache = None /\ tableLock = FALSE /\ fieldLock = {}
  /\ count = 0 /\ timed = FALSE
  /\ faults = 0
  /\ expired = FALSE /\ untimed = FALSE /\ abandoned = {}

Fault == faults < MaxFaults /\ faults' = faults + 1

At(p, step) == pod[p].at = step
To(p, step) == pod' = [pod EXCEPT ![p].at = step]

End(p, how) == pod' = [pod EXCEPT ![p] = Fresh(how)]

\* findTable: the first table with the name.
FoundTable == IF tables = 0 THEN None ELSE 1

-----------------------------------------------------------------------------
(* ensureTable                                                             *)

\* The table and how it was come by; its fields are looked at next.
Take(p, table, via) ==
  pod' = [pod EXCEPT ![p].table = table, ![p].via = via, ![p].at = "fields"]

ReadCache(p) ==
  /\ At(p, "table")
  /\ IF cache # None THEN Take(p, cache, "cache") ELSE To(p, "find")
  /\ UNCHANGED <<job, lark, row, locks, slots, faults, ghosts>>

FindTable(p) ==
  /\ At(p, "find")
  /\ IF FoundTable # None THEN Take(p, FoundTable, "find") ELSE To(p, "lock")
  /\ UNCHANGED <<job, lark, row, locks, slots, faults, ghosts>>

\* Only the one that gets the lock goes on to create; it does not look again.
LockTable(p) ==
  /\ At(p, "lock")
  /\ tableLock' = TRUE
  /\ To(p, IF tableLock THEN "wait" ELSE "create")
  /\ UNCHANGED <<job, lark, row, cache, fieldLock, slots, faults, ghosts>>

\* The others poll for the table, which they cache at once, ...
WaitTable(p) ==
  /\ At(p, "wait")
  /\ FoundTable # None
  /\ cache' = FoundTable
  /\ Take(p, FoundTable, "wait")
  /\ UNCHANGED <<job, lark, row, tableLock, fieldLock, slots, faults, ghosts>>

CreateTable(p) ==
  /\ At(p, "create")
  /\ tables < MaxTables
  /\ tables' = tables + 1
  /\ Take(p, tables + 1, "create")
  /\ UNCHANGED <<job, fields, records, attached, row, locks, slots, faults, ghosts>>

-----------------------------------------------------------------------------
(* ensureTableFields                                                       *)

LockFields(p) ==
  /\ At(p, "fields")
  /\ fieldLock' = fieldLock \cup {pod[p].table}
  /\ To(p, IF pod[p].table \in fieldLock THEN "waitFields" ELSE "make")
  /\ UNCHANGED <<job, lark, row, cache, tableLock, slots, faults, ghosts>>

\* The fields are there: the table is cached, and the lock on its creation
\* deleted by the pod that had it.
FieldsReady(p) ==
  /\ cache' = IF pod[p].via \in {"find", "create"} THEN pod[p].table ELSE cache
  /\ tableLock' = (tableLock /\ pod[p].via # "create")
  /\ pod' = [pod EXCEPT ![p].via = "cache", ![p].at = "record"]

MakeFields(p) ==
  /\ At(p, "make")
  /\ fields' = fields \cup {pod[p].table}
  /\ fieldLock' = fieldLock \ {pod[p].table}
  /\ FieldsReady(p)
  /\ UNCHANGED <<job, tables, records, attached, row, slots, faults, ghosts>>

WaitFields(p) ==
  /\ At(p, "waitFields")
  /\ pod[p].table \in fields
  /\ FieldsReady(p)
  /\ UNCHANGED <<job, lark, row, fieldLock, slots, faults, ghosts>>

-----------------------------------------------------------------------------
(* The record, its row and the upload                                      *)

Record(p) == <<JobOf(p), pod[p].table>>

\* The client token makes Lark answer a repeated call with the same record.
CreateRecord(p) ==
  /\ At(p, "record")
  /\ records' = records \cup {Record(p)}
  /\ To(p, "row")
  /\ UNCHANGED <<job, tables, fields, attached, row, locks, slots, faults, ghosts>>

\* Faulty variant: a row that is there keeps its table and record.
UpsertKeepsTable(p, token, full) ==
  [row EXCEPT ![JobOf(p)] =
     [table |-> IF @.table = None THEN pod[p].table ELSE @.table,
      token |-> IF token = None THEN @.token ELSE token, full |-> full]]

\* upsertLarkBitableRecord: without a token the row keeps the one it has.
Upsert(p, token, full) ==
  [row EXCEPT ![JobOf(p)] =
     [table |-> pod[p].table, token |-> IF token = None THEN @.token ELSE token,
      full |-> full]]

SaveRecord(p) ==
  /\ At(p, "row")
  /\ row' = Upsert(p, None, FALSE)
  /\ To(p, "slot")
  /\ UNCHANGED <<job, lark, locks, slots, faults, ghosts>>

Capped(n) == IF n > Rate + 1 THEN Rate + 1 ELSE n

\* Faulty variant: counters get no time to live.
TimesNever(n) == FALSE

\* The increment that created the counter gives it a time to live.
Times(n) == n = 1

\* waitUploadSlot: an INCR on the counter of the minute of the first call, again
\* and again.  Counters of different minutes do not meet: this is one of them.
DrawSlot(p) ==
  /\ pod[p].at \in {"slot", "poll"}
  /\ count' = Capped(count + 1)
  /\ To(p, IF Times(count') THEN "expire" ELSE IF count' <= Rate THEN "upload" ELSE "poll")
  /\ UNCHANGED <<job, lark, row, locks, timed, faults, ghosts>>

TimeCounter(p) ==
  /\ At(p, "expire")
  /\ timed' = TRUE
  /\ To(p, "upload")
  /\ UNCHANGED <<job, lark, row, locks, count, faults, ghosts>>

\* One API call, retried on the spot; the next one needs a slot of its own.
UploadCall(p) ==
  /\ At(p, "upload")
  /\ pod' = [pod EXCEPT ![p].left = @ - 1,
                        ![p].at = IF pod[p].left = 1 THEN "attach" ELSE "slot"]
  /\ UNCHANGED <<job, lark, row, locks, slots, faults, ghosts>>

AttachFile(p) ==
  /\ At(p, "attach")
  /\ attached' = [attached EXCEPT ![Record(p)] = Token(p)]
  /\ To(p, "save")
  /\ UNCHANGED <<job, tables, fields, records, row, locks, slots, faults, ghosts>>

\* Argo watches the last pod of a running job only.
Watched(p) == job[JobOf(p)] = [state |-> "running", try |-> Token(p)]

JobIs(p, state) == [job EXCEPT ![JobOf(p)].state = IF Watched(p) THEN state ELSE @]

SaveUpload(p) ==
  /\ At(p, "save")
  /\ row' = Upsert(p, Token(p), TRUE)
  /\ End(p, "done")
  /\ job' = JobIs(p, "Succeeded")
  /\ UNCHANGED <<lark, locks, slots, faults, ghosts>>

-----------------------------------------------------------------------------
(* Failures                                                                *)

\* Between the lock and the return of ensureTable, and inside of ensureTableFields.
HoldsTable(p) ==
  \/ At(p, "create")
  \/ pod[p].via = "create" /\ pod[p].at \in {"fields", "make", "waitFields"}

HoldsFields(p, table) == At(p, "make") /\ pod[p].table = table

\* Faulty variant: the deferred DEL is run by those who did not get the lock, too.
UnlocksTableAlways(p) == HoldsTable(p) \/ At(p, "wait")

\* Which pods delete the lock when they return early.
UnlocksTable(p) == HoldsTable(p)

\* An error ends the pod; the deferred DELs are run, whoever has the locks now.
EndWithError(p) ==
  /\ End(p, "failed")
  /\ tableLock' = (tableLock /\ ~UnlocksTable(p))
  /\ fieldLock' = fieldLock \ {t \in Tables : HoldsFields(p, t)}

\* Argo tries again after a lost pod and after exit code 75.
TryAgain(p) ==
  JobIs(p, IF job[JobOf(p)].try <= RetryLimit THEN "waiting" ELSE "Failed")

\* Ten seconds are over: an error that reads like a temporary one.
WaitTimesOut(p) ==
  /\ \/ At(p, "wait") /\ FoundTable = None
     \/ At(p, "waitFields") /\ pod[p].table \notin fields
  /\ EndWithError(p)
  /\ job' = TryAgain(p)
  /\ UNCHANGED <<lark, row, cache, slots, faults, ghosts>>

\* Lark may refuse a second table with the name, which is no temporary error.
TableRefused(p) ==
  /\ At(p, "create")
  /\ tables > 0
  /\ EndWithError(p)
  /\ job' = JobIs(p, "Failed")
  /\ UNCHANGED <<lark, row, cache, slots, faults, ghosts>>

\* Any other call fails, for good or with a temporary error.
FailPod(p) ==
  /\ pod[p].at \notin Ended
  /\ Fault
  /\ EndWithError(p)
  /\ job' \in {TryAgain(p), JobIs(p, "Failed")}
  /\ untimed' = (untimed \/ At(p, "expire"))
  /\ UNCHANGED <<lark, row, cache, slots, expired, abandoned>>

\* The pod is gone and leaves its locks behind.
KillPod(p) ==
  /\ pod[p].at \notin Ended
  /\ Fault
  /\ End(p, "lost")
  /\ job' = TryAgain(p)
  /\ untimed' = (untimed \/ At(p, "expire"))
  /\ UNCHANGED <<lark, row, locks, slots, expired, abandoned>>

\* Its node is unreachable: the job is tried again while the pod goes on.
AbandonPod(p) ==
  /\ pod[p].at \notin Ended
  /\ Watched(p)
  /\ Fault
  /\ job' = TryAgain(p)
  /\ abandoned' = abandoned \cup {JobOf(p)}
  /\ UNCHANGED <<pod, lark, row, locks, slots, expired, untimed>>

\* The error of EXPIRE is not looked at.
LoseExpire(p) ==
  /\ At(p, "expire")
  /\ Fault
  /\ untimed' = TRUE
  /\ To(p, "upload")
  /\ UNCHANGED <<job, lark, row, locks, slots, expired, abandoned>>

\* Locks live for thirty seconds, longer than a holder that is gone.
ExpireLock(lock, held) ==
  /\ lock
  /\ IF held THEN Fault /\ expired' = TRUE ELSE UNCHANGED <<faults, expired>>

ExpireTableLock ==
  /\ ExpireLock(tableLock, \E p \in Pods : HoldsTable(p))
  /\ tableLock' = FALSE
  /\ UNCHANGED <<pod, job, lark, row, cache, fieldLock, slots, untimed, abandoned>>

ExpireFieldLock(table) ==
  /\ ExpireLock(table \in fieldLock, \E p \in Pods : HoldsFields(p, table))
  /\ fieldLock' = fieldLock \ {table}
  /\ UNCHANGED <<pod, job, lark, row, cache, tableLock, slots, untimed, abandoned>>

\* The cached table is forgotten after a day, or Redis loses it.
LoseCache ==
  /\ cache # None
  /\ Fault
  /\ cache' = None
  /\ UNCHANGED <<pod, job, lark, row, tableLock, fieldLock, slots, ghosts>>

-----------------------------------------------------------------------------
(* Argo and the time to live of the counter                                *)

StartPod(j) ==
  /\ job[j].state = "waiting"
  /\ job' = [job EXCEPT ![j] = [state |-> "running", try |-> job[j].try + 1]]
  /\ pod' = [pod EXCEPT ![<<j, job[j].try + 1>>] = Fresh("table")]
  /\ UNCHANGED <<lark, row, locks, slots, faults, ghosts>>

\* Ninety seconds after it was created.
ExpireCounter ==
  /\ timed
  /\ timed' = FALSE
  /\ count' = 0
  /\ UNCHANGED <<pod, job, lark, row, locks, faults, ghosts>>

-----------------------------------------------------------------------------
PodStep(p) ==
  \/ ReadCache(p) \/ FindTable(p) \/ LockTable(p) \/ WaitTable(p) \/ CreateTable(p)
  \/ LockFields(p) \/ MakeFields(p) \/ WaitFields(p)
  \/ CreateRecord(p) \/ SaveRecord(p) \/ DrawSlot(p) \/ TimeCounter(p)
  \/ UploadCall(p) \/ AttachFile(p) \/ SaveUpload(p)
  \/ WaitTimesOut(p) \/ TableRefused(p)

Mishap(p) == FailPod(p) \/ KillPod(p) \/ AbandonPod(p) \/ LoseExpire(p)

Next ==
  \/ \E p \in Pods : PodStep(p) \/ Mishap(p)
  \/ \E j \in Jobs : StartPod(j)
  \/ ExpireTableLock \/ (\E t \in Tables : ExpireFieldLock(t)) \/ LoseCache
  \/ ExpireCounter

\* Pods run, Argo starts them, and Redis drops a counter when its time is over.
Fairness ==
  /\ \A p \in Pods : WF_vars(PodStep(p))
  /\ \A j \in Jobs : WF_vars(StartPod(j))
  /\ WF_vars(ExpireCounter)

Spec == Init /\ [][Next]_vars

FairSpec == Spec /\ Fairness

-----------------------------------------------------------------------------
(***************************************************************************)
(* One pod at a time creates the table, and one at a time the fields of a  *)
(* table: a lock is deleted by its holder or expires after it.  Only a     *)
(* holder slower than the time to live, whose late DEL frees the lock of   *)
(* its successor, breaks this.                                             *)
(***************************************************************************)
LocksExclude ==
  ~expired =>
    \A p, q \in Pods :
      (\/ HoldsTable(p) /\ HoldsTable(q)
       \/ \E t \in Tables : HoldsFields(p, t) /\ HoldsFields(q, t)) => p = q

(***************************************************************************)
(* A job that succeeded has a row that names an existing record in a table *)
(* with all its fields, and the token attached to that record, although    *)
(* attempts before it may have used another table and uploaded another     *)
(* file.  Only a pod that was given up and goes on can undo this.          *)
(***************************************************************************)
SucceededIsUploaded ==
  \A j \in Jobs : job[j].state = "Succeeded" /\ j \notin abandoned =>
    LET record == <<j, row[j].table>>
    IN  /\ row[j].full /\ row[j].token # None
        /\ record \in records /\ row[j].table \in fields
        /\ attached[record] = row[j].token

(***************************************************************************)
(* Every job ends: none waits for ever for a lock whose holder is gone or  *)
(* for a slot of a minute long past, unless the EXPIRE of a counter was    *)
(* lost.                                                                   *)
(***************************************************************************)
UploadsEnd ==
  <>(untimed \/ \A j \in Jobs : job[j].state \in {"Succeeded", "Failed"})
=============================================================================
