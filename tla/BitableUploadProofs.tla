------------------------ MODULE BitableUploadProofs ------------------------
(***************************************************************************)
(* Proofs about BitableUpload, for every number of jobs, attempts, tables  *)
(* and faults: types, the exclusion of the ownerless locks, and what the   *)
(* row of a job that succeeded tells.                                      *)
(***************************************************************************)
EXTENDS BitableUpload, TLAPS

-----------------------------------------------------------------------------
(* Types                                                                   *)

PodType == [at : PodSteps, table : Tables \cup {None},
            via : {"cache", "find", "wait", "create"}, left : 0..Calls]
JobType == [state : {"waiting", "running", "Succeeded", "Failed"}, try : 0..(RetryLimit + 1)]
RowType == [table : Tables \cup {None}, token : Attempts \cup {None}, full : BOOLEAN]

\* What the steps of this module do to a pod keeps its type.
LEMMA ToType ==
  ASSUME pod \in [Pods -> PodType], NEW p \in Pods, NEW at \in PodSteps, To(p, at)
  PROVE  /\ pod' \in [Pods -> PodType]
         /\ pod'[p].at = at /\ pod'[p].table = pod[p].table /\ pod'[p].via = pod[p].via
         /\ pod'[p].left = pod[p].left
         /\ \A q \in Pods : q # p => pod'[q] = pod[q]
BY DEF To, PodType

LEMMA TakeType ==
  ASSUME pod \in [Pods -> PodType], NEW p \in Pods, NEW table \in Tables,
         NEW via \in {"cache", "find", "wait", "create"}, Take(p, table, via)
  PROVE  /\ pod' \in [Pods -> PodType]
         /\ pod'[p].at = "fields" /\ pod'[p].table = table /\ pod'[p].via = via
         /\ pod'[p].left = pod[p].left
         /\ \A q \in Pods : q # p => pod'[q] = pod[q]
BY DEF Take, PodType, PodSteps

LEMMA EndType ==
  ASSUME pod \in [Pods -> PodType], NEW p \in Pods, NEW how \in Ended, End(p, how)
  PROVE  /\ pod' \in [Pods -> PodType]
         /\ pod'[p].at = how /\ pod'[p].via = "cache" /\ pod'[p].left = Calls
         /\ \A q \in Pods : q # p => pod'[q] = pod[q]
<1>1. Fresh(how) \in PodType
  BY UploadAssumption DEF PodType, PodSteps, Fresh
<1> QED
  BY <1>1 DEF End, PodType, Fresh

LEMMA JobIsType ==
  ASSUME job \in [Jobs -> JobType], NEW p \in Pods,
         NEW state \in {"waiting", "running", "Succeeded", "Failed"}
  PROVE  JobIs(p, state) \in [Jobs -> JobType]
BY DEF JobIs, JobType, JobOf, Pods

LEMMA TryAgainType ==
  ASSUME job \in [Jobs -> JobType], NEW p \in Pods
  PROVE  TryAgain(p) \in [Jobs -> JobType]
BY JobIsType DEF TryAgain

LEMMA UpsertType ==
  ASSUME row \in [Jobs -> RowType], pod \in [Pods -> PodType], NEW p \in Pods,
         NEW token \in Attempts \cup {None}, NEW full \in BOOLEAN
  PROVE  Upsert(p, token, full) \in [Jobs -> RowType]
<1>1. JobOf(p) \in Jobs
  BY DEF JobOf, Pods
<1>2. [table |-> pod[p].table,
       token |-> IF token = None THEN row[JobOf(p)].token ELSE token, full |-> full] \in RowType
  BY <1>1 DEF RowType, PodType
<1> QED
  BY <1>1, <1>2 DEF Upsert

\* The types of the jobs and pods, of Lark, of Redis and of the rest.
ActorTypes == pod \in [Pods -> PodType] /\ job \in [Jobs -> JobType]
LarkTypes  == /\ tables \in 0..MaxTables /\ fields \in SUBSET Tables
              /\ records \in SUBSET (Jobs \X Tables)
              /\ attached \in [Jobs \X Tables -> Attempts \cup {None}]
              /\ row \in [Jobs -> RowType]
RedisTypes == cache \in 0..tables /\ tableLock \in BOOLEAN /\ fieldLock \in SUBSET Tables
SlotTypes  == count \in 0..(Rate + 1) /\ timed \in BOOLEAN
OtherTypes == faults \in 0..MaxFaults /\ expired \in BOOLEAN /\ untimed \in BOOLEAN
              /\ abandoned \in SUBSET Jobs

LEMMA TypesSplit ==
  TypeOK <=> ActorTypes /\ LarkTypes /\ RedisTypes /\ SlotTypes /\ OtherTypes
BY DEF TypeOK, ActorTypes, LarkTypes, RedisTypes, SlotTypes, OtherTypes, PodType, JobType, RowType

LEMMA FaultType ==
  ASSUME faults \in 0..MaxFaults, Fault
  PROVE  faults' \in 0..MaxFaults
BY UploadAssumption DEF Fault

\* A pod that works on a table has one, which was created, and one that uploads
\* has calls left.
HasTable(p) ==
  pod[p].at \in {"fields", "make", "waitFields", "record", "row", "slot", "poll", "expire",
                "upload", "attach", "save"} => pod[p].table \in 1..tables
HasCalls(p) == pod[p].at \notin {"attach", "save"} => pod[p].left # 0

PodsHaveTables == \A p \in Pods : HasTable(p) /\ HasCalls(p)

LEMMA TablesAreTables == LarkTypes => 1..tables \subseteq Tables
BY UploadAssumption DEF LarkTypes, Tables

\* The steps in which a pod only goes on.
LEMMA GoesOn ==
  ASSUME TypeOK, PodsHaveTables, NEW p \in Pods,
         pod' \in [Pods -> PodType], \A q \in Pods : q # p => pod'[q] = pod[q],
         tables' \in Nat, tables <= tables',
         HasTable(p)', HasCalls(p)'
  PROVE  PodsHaveTables'
<1>1. tables \in Nat
  BY TypesSplit, UploadAssumption DEF LarkTypes
<1>2. ASSUME NEW q \in Pods, q # p PROVE HasTable(q)' /\ HasCalls(q)'
  <2>1. HasTable(q) /\ HasCalls(q)
    BY DEF PodsHaveTables
  <2>2. pod'[q] = pod[q]
    BY <1>2
  <2>3. 1..tables \subseteq 1..tables'
    BY <1>1
  <2> QED
    BY <2>1, <2>2, <2>3 DEF HasTable, HasCalls
<1> QED
  BY <1>2 DEF PodsHaveTables

\* A job that waits for a pod has an attempt left.
JobsHaveTries == \A j \in Jobs : job[j].state = "waiting" => job[j].try <= RetryLimit

Types == TypeOK /\ PodsHaveTables /\ JobsHaveTries

\* What the end of a pod may do to its job.
JobOutcome(p) ==
  job' \in {job, JobIs(p, "Succeeded"), JobIs(p, "Failed"), TryAgain(p)}

LEMMA TriesStep ==
  ASSUME job \in [Jobs -> JobType], JobsHaveTries, NEW p \in Pods, JobOutcome(p)
  PROVE  job' \in [Jobs -> JobType] /\ JobsHaveTries'
<1>1. job' \in [Jobs -> JobType]
  BY JobIsType, TryAgainType DEF JobOutcome
<1>2. ASSUME NEW j \in Jobs, job'[j].state = "waiting"
      PROVE  job'[j].try <= RetryLimit
  <2>1. CASE job' = job
    BY <1>2, <2>1 DEF JobsHaveTries
  <2>2. ASSUME NEW state \in {"Succeeded", "Failed"}, job' = JobIs(p, state)
        PROVE  job'[j].try <= RetryLimit
    BY <1>2, <2>2 DEF JobsHaveTries, JobIs, JobType
  <2>3. CASE job' = JobIs(p, "waiting") /\ job[JobOf(p)].try <= RetryLimit
    BY <1>2, <2>3 DEF JobsHaveTries, JobIs, JobType
  <2> QED
    BY <2>1, <2>2, <2>3 DEF JobOutcome, TryAgain
<1> QED
  BY <1>1, <1>2 DEF JobsHaveTries

\* What is left to show of a step of one pod.
LEMMA StepTypes ==
  ASSUME Types, NEW p \in Pods, pod' \in [Pods -> PodType], JobOutcome(p),
         \A q \in Pods : q # p => pod'[q] = pod[q],
         LarkTypes', RedisTypes', SlotTypes', OtherTypes', tables <= tables',
         HasTable(p)', HasCalls(p)'
  PROVE  Types'
<1>1. tables' \in Nat
  BY UploadAssumption DEF LarkTypes
<1>2. PodsHaveTables'
  BY <1>1, GoesOn DEF Types
<1>3. ActorTypes' /\ JobsHaveTries'
  BY TypesSplit, TriesStep DEF ActorTypes, Types
<1> QED
  BY <1>2, <1>3, TypesSplit, PTL DEF Types

\* Only the last call leaves none.
LEMMA CallsStep ==
  ASSUME pod \in [Pods -> PodType], NEW p \in Pods, HasCalls(p), PodStep(p)
  PROVE  HasCalls(p)'
<1> USE DEF HasCalls, At
<1>1. CASE \/ ReadCache(p) \/ FindTable(p) \/ LockTable(p) \/ WaitTable(p) \/ CreateTable(p)
           \/ LockFields(p) \/ MakeFields(p) \/ WaitFields(p) \/ CreateRecord(p)
           \/ SaveRecord(p) \/ DrawSlot(p) \/ TimeCounter(p)
  <2>1. pod[p].at \notin {"attach", "save"}
    BY <1>1 DEF ReadCache, FindTable, LockTable, WaitTable, CreateTable, LockFields, MakeFields,
                WaitFields, CreateRecord, SaveRecord, DrawSlot, TimeCounter
  <2>2. \/ \E at : To(p, at)
        \/ \E table, via : Take(p, table, via)
        \/ FieldsReady(p)
    BY <1>1 DEF ReadCache, FindTable, LockTable, WaitTable, CreateTable, LockFields, MakeFields,
                WaitFields, CreateRecord, SaveRecord, DrawSlot, TimeCounter
  <2>3. pod'[p].left = pod[p].left
    <3>1. ASSUME NEW at, To(p, at) PROVE pod'[p].left = pod[p].left
      BY <3>1 DEF To, PodType
    <3>2. ASSUME NEW table, NEW via, Take(p, table, via) PROVE pod'[p].left = pod[p].left
      BY <3>2 DEF Take, PodType
    <3>3. FieldsReady(p) => pod'[p].left = pod[p].left
      BY DEF FieldsReady, PodType
    <3> QED
      BY <2>2, <3>1, <3>2, <3>3
  <2> QED
    BY <2>1, <2>3
<1>2. CASE AttachFile(p)
  BY <1>2 DEF AttachFile, To, PodType
<1>3. CASE UploadCall(p)
  <2>1. \/ pod'[p].at = "attach"
        \/ pod'[p].left = pod[p].left - 1 /\ pod[p].left # 1
    BY <1>3 DEF UploadCall, PodType
  <2> QED
    BY <2>1, UploadAssumption DEF PodType
<1>4. CASE SaveUpload(p) \/ WaitTimesOut(p) \/ TableRefused(p)
  <2>1. \E how \in Ended : End(p, how)
    BY <1>4 DEF SaveUpload, WaitTimesOut, TableRefused, EndWithError, Ended
  <2> QED
    BY <2>1, EndType, UploadAssumption
<1> QED
  BY <1>1, <1>2, <1>3, <1>4 DEF PodStep

\* The steps that read and write what the pod itself has.
LEMMA PodTypeStep ==
  ASSUME Types, NEW p \in Pods, PodStep(p)
  PROVE  Types'
<1>t. /\ ActorTypes /\ LarkTypes /\ RedisTypes /\ SlotTypes /\ OtherTypes
      /\ PodsHaveTables
  BY TypesSplit DEF Types
<1>a. pod \in [Pods -> PodType] /\ job \in [Jobs -> JobType]
  BY <1>t DEF ActorTypes
<1>n. /\ tables \in Nat /\ tables <= MaxTables /\ MaxTables \in Nat /\ cache \in 0..tables
      /\ 1..tables \subseteq Tables
  BY <1>t, UploadAssumption, TablesAreTables DEF LarkTypes, RedisTypes
<1>j. JobOf(p) \in Jobs /\ Token(p) \in Attempts
  BY DEF JobOf, Token, Pods
<1>h. HasTable(p) /\ HasCalls(p)
  BY <1>t DEF PodsHaveTables
<1>c. HasCalls(p)' /\ JobOutcome(p)
  <2>1. HasCalls(p)'
    BY <1>a, <1>h, CallsStep
  <2>2. JobOutcome(p)
    BY DEF PodStep, ReadCache, FindTable, LockTable, WaitTable, CreateTable, LockFields, MakeFields,
           WaitFields, CreateRecord, SaveRecord, DrawSlot, TimeCounter, UploadCall, AttachFile,
           SaveUpload, WaitTimesOut, TableRefused, JobOutcome
  <2> QED
    BY <2>1, <2>2
<1> USE DEF lark, locks, slots, ghosts
<1>1. CASE ReadCache(p)
  <2>1. UNCHANGED <<job, lark, row, locks, slots, faults, ghosts>>
    BY <1>1 DEF ReadCache
  <2>2. LarkTypes' /\ RedisTypes' /\ SlotTypes' /\ OtherTypes' /\ tables' = tables
    BY <1>t, <2>1 DEF LarkTypes, RedisTypes, SlotTypes, OtherTypes
  <2>3. CASE cache # None
    <3>1. Take(p, cache, "cache") /\ cache \in Tables /\ cache \in 1..tables
      BY <1>1, <2>3, <1>n DEF ReadCache, None
    <3> QED
      BY <1>a, <1>n, <1>c, <2>1, <2>2, <3>1, TakeType, StepTypes DEF HasTable
  <2>4. CASE cache = None
    <3>1. To(p, "find")
      BY <1>1, <2>4 DEF ReadCache
    <3> QED
      BY <1>a, <1>n, <1>c, <2>1, <2>2, <3>1, ToType, StepTypes DEF HasTable, PodSteps
  <2> QED
    BY <2>3, <2>4
<1>2. CASE FindTable(p)
  <2>1. UNCHANGED <<job, lark, row, locks, slots, faults, ghosts>>
    BY <1>2 DEF FindTable
  <2>2. LarkTypes' /\ RedisTypes' /\ SlotTypes' /\ OtherTypes' /\ tables' = tables
    BY <1>t, <2>1 DEF LarkTypes, RedisTypes, SlotTypes, OtherTypes
  <2>3. CASE FoundTable # None
    <3>1. Take(p, 1, "find") /\ 1 \in 1..tables
      BY <1>2, <2>3, <1>n DEF FindTable, FoundTable, None
    <3> QED
      BY <1>a, <1>n, <1>c, <2>1, <2>2, <3>1, TakeType, StepTypes DEF HasTable
  <2>4. CASE FoundTable = None
    <3>1. To(p, "lock")
      BY <1>2, <2>4 DEF FindTable
    <3> QED
      BY <1>a, <1>n, <1>c, <2>1, <2>2, <3>1, ToType, StepTypes DEF HasTable, PodSteps
  <2> QED
    BY <2>3, <2>4
<1>3. CASE LockTable(p)
  <2>1. \E at \in {"wait", "create"} : To(p, at)
    BY <1>3 DEF LockTable
  <2>2. LarkTypes' /\ RedisTypes' /\ SlotTypes' /\ OtherTypes' /\ UNCHANGED <<tables, job>>
    BY <1>3, <1>t DEF LockTable, LarkTypes, RedisTypes, SlotTypes, OtherTypes
  <2>3. /\ pod' \in [Pods -> PodType] /\ pod'[p].at \in {"wait", "create"}
        /\ pod'[p].left = pod[p].left /\ \A q \in Pods : q # p => pod'[q] = pod[q]
    BY <1>a, <2>1, ToType DEF PodSteps, Polling
  <2> QED
    BY <1>a, <1>n, <1>c, <2>2, <2>3, StepTypes DEF HasTable
<1>4. CASE WaitTable(p)
  <2>1. Take(p, 1, "wait") /\ 1 \in 1..tables /\ cache' = 1
    BY <1>4, <1>n DEF WaitTable, FoundTable, None
  <2>2. LarkTypes' /\ RedisTypes' /\ SlotTypes' /\ OtherTypes' /\ UNCHANGED <<tables, job>>
    BY <1>4, <2>1, <1>t, <1>n DEF WaitTable, LarkTypes, RedisTypes, SlotTypes, OtherTypes
  <2> QED
    BY <1>a, <1>n, <1>c, <2>1, <2>2, TakeType, StepTypes DEF HasTable
<1>5. CASE CreateTable(p)
  <2>1. Take(p, tables + 1, "create") /\ tables' = tables + 1 /\ tables + 1 \in Tables
    BY <1>5, <1>n DEF CreateTable, Tables
  <2>2. LarkTypes' /\ RedisTypes' /\ SlotTypes' /\ OtherTypes' /\ UNCHANGED job
    BY <1>5, <2>1, <1>t, <1>n DEF CreateTable, LarkTypes, RedisTypes, SlotTypes, OtherTypes
  <2> QED
    BY <1>a, <1>n, <1>c, <2>1, <2>2, TakeType, StepTypes DEF HasTable
<1>6. CASE LockFields(p)
  <2>1. /\ \E at \in {"waitFields", "make"} : To(p, at)
        /\ pod[p].table \in 1..tables
    BY <1>6, <1>h DEF LockFields, HasTable, At
  <2>2. LarkTypes' /\ RedisTypes' /\ SlotTypes' /\ OtherTypes' /\ UNCHANGED <<tables, job>>
    BY <1>6, <2>1, <1>t, <1>n DEF LockFields, LarkTypes, RedisTypes, SlotTypes, OtherTypes
  <2>3. /\ pod' \in [Pods -> PodType] /\ pod'[p].table = pod[p].table /\ pod'[p].left = pod[p].left
        /\ \A q \in Pods : q # p => pod'[q] = pod[q]
    BY <1>a, <2>1, ToType DEF PodSteps, Polling
  <2> QED
    BY <1>a, <1>n, <1>c, <2>1, <2>2, <2>3, StepTypes DEF HasTable
<1>7. CASE MakeFields(p) \/ WaitFields(p)
  <2>1. /\ pod[p].table \in 1..tables
        /\ pod' = [pod EXCEPT ![p].via = "cache", ![p].at = "record"]
        /\ cache' \in {cache, pod[p].table} /\ tableLock' \in BOOLEAN
        /\ fields' \in {fields, fields \cup {pod[p].table}}
        /\ fieldLock' \in {fieldLock, fieldLock \ {pod[p].table}}
        /\ UNCHANGED <<job, tables, records, attached, row, slots, faults, ghosts>>
    BY <1>7, <1>h, <1>t DEF MakeFields, WaitFields, FieldsReady, HasTable, At, RedisTypes
  <2>2. LarkTypes' /\ RedisTypes' /\ SlotTypes' /\ OtherTypes'
    BY <2>1, <1>t, <1>n DEF LarkTypes, RedisTypes, SlotTypes, OtherTypes
  <2>3. /\ pod' \in [Pods -> PodType] /\ pod'[p].table = pod[p].table /\ pod'[p].left = pod[p].left
        /\ \A q \in Pods : q # p => pod'[q] = pod[q]
    BY <1>a, <2>1 DEF PodType, PodSteps
  <2> QED
    BY <1>a, <1>n, <1>c, <2>1, <2>2, <2>3, StepTypes DEF HasTable
<1>8. CASE CreateRecord(p)
  <2>1. To(p, "row") /\ pod[p].table \in 1..tables /\ UNCHANGED <<tables, job>>
    BY <1>8, <1>h DEF CreateRecord, HasTable, At
  <2>2. LarkTypes' /\ RedisTypes' /\ SlotTypes' /\ OtherTypes'
    BY <1>8, <2>1, <1>t, <1>n, <1>j DEF CreateRecord, Record, LarkTypes, RedisTypes, SlotTypes,
       OtherTypes
  <2>3. /\ pod' \in [Pods -> PodType] /\ pod'[p].table = pod[p].table /\ pod'[p].left = pod[p].left
        /\ \A q \in Pods : q # p => pod'[q] = pod[q]
    BY <1>a, <2>1, ToType DEF PodSteps
  <2> QED
    BY <1>a, <1>n, <1>c, <2>1, <2>2, <2>3, StepTypes DEF HasTable
<1>9. CASE SaveRecord(p)
  <2>1. To(p, "slot") /\ pod[p].table \in 1..tables /\ UNCHANGED <<tables, job>>
    BY <1>9, <1>h DEF SaveRecord, HasTable, At
  <2>2. row' \in [Jobs -> RowType]
    BY <1>9, <1>a, <1>t, UpsertType DEF SaveRecord, LarkTypes
  <2>3. LarkTypes' /\ RedisTypes' /\ SlotTypes' /\ OtherTypes'
    BY <1>9, <2>2, <1>t DEF SaveRecord, LarkTypes, RedisTypes, SlotTypes, OtherTypes
  <2>4. /\ pod' \in [Pods -> PodType] /\ pod'[p].table = pod[p].table /\ pod'[p].left = pod[p].left
        /\ \A q \in Pods : q # p => pod'[q] = pod[q]
    BY <1>a, <2>1, ToType DEF PodSteps
  <2> QED
    BY <1>a, <1>n, <1>c, <2>1, <2>3, <2>4, StepTypes DEF HasTable
<1>10. CASE DrawSlot(p)
  <2>1. /\ \E at \in {"expire", "upload", "poll"} : To(p, at)
        /\ pod[p].table \in 1..tables /\ UNCHANGED <<tables, job>>
    BY <1>10, <1>h DEF DrawSlot, HasTable
  <2>2. count' \in 0..(Rate + 1)
    BY <1>10, <1>t, UploadAssumption DEF DrawSlot, Capped, SlotTypes
  <2>3. LarkTypes' /\ RedisTypes' /\ SlotTypes' /\ OtherTypes'
    BY <1>10, <2>2, <1>t DEF DrawSlot, LarkTypes, RedisTypes, SlotTypes, OtherTypes
  <2>4. /\ pod' \in [Pods -> PodType] /\ pod'[p].table = pod[p].table /\ pod'[p].left = pod[p].left
        /\ \A q \in Pods : q # p => pod'[q] = pod[q]
    BY <1>a, <2>1, ToType DEF PodSteps, Polling
  <2> QED
    BY <1>a, <1>n, <1>c, <2>1, <2>3, <2>4, StepTypes DEF HasTable
<1>11. CASE TimeCounter(p)
  <2>1. To(p, "upload") /\ pod[p].table \in 1..tables /\ UNCHANGED <<tables, job>>
    BY <1>11, <1>h DEF TimeCounter, HasTable, At
  <2>2. LarkTypes' /\ RedisTypes' /\ SlotTypes' /\ OtherTypes'
    BY <1>11, <2>1, <1>t, <1>n, <1>j DEF TimeCounter, LarkTypes, RedisTypes, SlotTypes,
       OtherTypes
  <2>3. /\ pod' \in [Pods -> PodType] /\ pod'[p].table = pod[p].table /\ pod'[p].left = pod[p].left
        /\ \A q \in Pods : q # p => pod'[q] = pod[q]
    BY <1>a, <2>1, ToType DEF PodSteps
  <2> QED
    BY <1>a, <1>n, <1>c, <2>1, <2>2, <2>3, StepTypes DEF HasTable
<1>12. CASE UploadCall(p)
  <2>1. /\ pod[p].table \in 1..tables
        /\ UNCHANGED <<job, lark, row, locks, slots, faults, ghosts>>
    BY <1>12, <1>h DEF UploadCall, HasTable, At
  <2>2. LarkTypes' /\ RedisTypes' /\ SlotTypes' /\ OtherTypes'
    BY <2>1, <1>t DEF LarkTypes, RedisTypes, SlotTypes, OtherTypes
  <2>3. pod[p].left - 1 \in 0..Calls /\ (pod[p].left # 1 => pod[p].left - 1 # 0)
    BY <1>12, <1>a, <1>h, UploadAssumption DEF UploadCall, HasCalls, At, PodType
  <2>4. /\ pod' \in [Pods -> PodType] /\ pod'[p].table = pod[p].table
        /\ pod'[p].at = (IF pod[p].left = 1 THEN "attach" ELSE "slot")
        /\ pod'[p].left = pod[p].left - 1
        /\ \A q \in Pods : q # p => pod'[q] = pod[q]
    BY <1>12, <1>a, <2>3 DEF UploadCall, PodType, PodSteps
  <2> QED
    BY <1>a, <1>n, <1>c, <2>1, <2>2, <2>3, <2>4, StepTypes DEF HasTable
<1>13. CASE AttachFile(p)
  <2>1. To(p, "save") /\ pod[p].table \in 1..tables /\ UNCHANGED <<tables, job>>
    BY <1>13, <1>h DEF AttachFile, HasTable, At
  <2>2. LarkTypes' /\ RedisTypes' /\ SlotTypes' /\ OtherTypes'
    BY <1>13, <2>1, <1>t, <1>n, <1>j DEF AttachFile, Record, LarkTypes, RedisTypes, SlotTypes,
       OtherTypes
  <2>3. /\ pod' \in [Pods -> PodType] /\ pod'[p].table = pod[p].table /\ pod'[p].left = pod[p].left
        /\ \A q \in Pods : q # p => pod'[q] = pod[q]
    BY <1>a, <2>1, ToType DEF PodSteps
  <2> QED
    BY <1>a, <1>n, <1>c, <2>1, <2>2, <2>3, StepTypes DEF HasTable
<1>14. CASE SaveUpload(p)
  <2>1. End(p, "done") /\ UNCHANGED tables
    BY <1>14 DEF SaveUpload
  <2>2. row' \in [Jobs -> RowType]
    BY <1>14, <1>a, <1>j, <1>t, UpsertType DEF SaveUpload, LarkTypes
  <2>3. LarkTypes' /\ RedisTypes' /\ SlotTypes' /\ OtherTypes'
    BY <1>14, <2>2, <1>t DEF SaveUpload, LarkTypes, RedisTypes, SlotTypes, OtherTypes
  <2> QED
    BY <1>a, <1>n, <1>c, <2>1, <2>2, <2>3, EndType, StepTypes, UploadAssumption DEF HasTable, Ended
<1>15. CASE WaitTimesOut(p) \/ TableRefused(p)
  <2>1. EndWithError(p) /\ UNCHANGED <<lark, row, cache, slots, faults, ghosts>>
    BY <1>15 DEF WaitTimesOut, TableRefused
  <2>3. LarkTypes' /\ RedisTypes' /\ SlotTypes' /\ OtherTypes'
    BY <2>1, <1>t DEF EndWithError, LarkTypes, RedisTypes, SlotTypes, OtherTypes
  <2> QED
    BY <1>a, <1>n, <1>c, <2>1, <2>3, EndType, StepTypes, UploadAssumption
       DEF EndWithError, HasTable, Ended
<1> QED
  BY <1>1, <1>2, <1>3, <1>4, <1>5, <1>6, <1>7, <1>8, <1>9, <1>10, <1>11, <1>12, <1>13, <1>14,
     <1>15 DEF PodStep

LEMMA MishapTypeStep ==
  ASSUME Types, NEW p \in Pods, Mishap(p)
  PROVE  Types'
<1>t. /\ ActorTypes /\ LarkTypes /\ RedisTypes /\ SlotTypes /\ OtherTypes
      /\ PodsHaveTables
  BY TypesSplit DEF Types
<1>a. pod \in [Pods -> PodType] /\ job \in [Jobs -> JobType]
  BY <1>t DEF ActorTypes
<1>n. tables \in Nat
  BY <1>t, UploadAssumption DEF LarkTypes
<1>h. HasTable(p) /\ HasCalls(p)
  BY <1>t DEF PodsHaveTables
<1>f. faults' \in 0..MaxFaults
  BY <1>t, FaultType DEF Mishap, FailPod, KillPod, AbandonPod, LoseExpire, OtherTypes
<1>j. JobOf(p) \in Jobs
  BY DEF JobOf, Pods
<1>1. LarkTypes' /\ RedisTypes' /\ SlotTypes' /\ OtherTypes' /\ UNCHANGED tables
  BY <1>t, <1>f, <1>j DEF Mishap, FailPod, KillPod, AbandonPod, LoseExpire, EndWithError, LarkTypes,
     RedisTypes, SlotTypes, OtherTypes, lark, locks, slots
<1>2. JobOutcome(p)
  BY DEF Mishap, FailPod, KillPod, AbandonPod, LoseExpire, JobOutcome
<1>3. CASE FailPod(p) \/ KillPod(p)
  <2>1. \E how \in Ended : End(p, how)
    BY <1>3 DEF FailPod, KillPod, EndWithError, Ended
  <2> QED
    BY <1>a, <1>n, <1>1, <1>2, <2>1, EndType, StepTypes, UploadAssumption
       DEF HasTable, HasCalls, Ended
<1>4. CASE AbandonPod(p)
  <2>1. UNCHANGED pod
    BY <1>4 DEF AbandonPod
  <2> QED
    BY <1>a, <1>n, <1>h, <1>1, <1>2, <2>1, StepTypes DEF HasTable, HasCalls
<1>5. CASE LoseExpire(p)
  <2>1. To(p, "upload") /\ At(p, "expire")
    BY <1>5 DEF LoseExpire
  <2> QED
    BY <1>a, <1>n, <1>h, <1>1, <1>2, <2>1, ToType, StepTypes DEF HasTable, HasCalls, At, PodSteps
<1> QED
  BY <1>3, <1>4, <1>5 DEF Mishap

LEMMA OtherTypeStep ==
  ASSUME Types,
         \/ \E j \in Jobs : StartPod(j)
         \/ ExpireTableLock \/ (\E t \in Tables : ExpireFieldLock(t)) \/ LoseCache
         \/ ExpireCounter \/ UNCHANGED vars
  PROVE  Types'
<1>t. /\ ActorTypes /\ LarkTypes /\ RedisTypes /\ SlotTypes /\ OtherTypes
      /\ PodsHaveTables /\ JobsHaveTries
  BY TypesSplit DEF Types
<1>n. tables \in Nat
  BY <1>t, UploadAssumption DEF LarkTypes
<1> SUFFICES /\ ActorTypes' /\ LarkTypes' /\ RedisTypes' /\ SlotTypes' /\ OtherTypes'
             /\ PodsHaveTables' /\ JobsHaveTries'
  BY TypesSplit, PTL DEF Types
<1>1. ASSUME NEW j \in Jobs, StartPod(j)
      PROVE  ActorTypes' /\ PodsHaveTables' /\ JobsHaveTries'
  <2>1. Fresh("table") \in PodType
    BY UploadAssumption DEF PodType, PodSteps, Fresh
  <2>2. job[j].try + 1 \in 1..(RetryLimit + 1)
    BY <1>1, <1>t, UploadAssumption DEF StartPod, ActorTypes, JobType, JobsHaveTries
  <2>3. job' \in [Jobs -> JobType]
    BY <1>1, <1>t, <2>2 DEF StartPod, ActorTypes, JobType
  <2>4. PICK p \in Pods : p = <<j, job[j].try + 1>>
    BY <2>2 DEF Pods, Attempts
  <2>5. pod' = [pod EXCEPT ![p] = Fresh("table")]
    BY <1>1, <2>4 DEF StartPod
  <2>6. /\ pod' \in [Pods -> PodType] /\ pod'[p] = Fresh("table")
        /\ \A q \in Pods : q # p => pod'[q] = pod[q]
    BY <2>1, <2>4, <2>5, <1>t DEF ActorTypes
  <2>7. HasTable(p)' /\ HasCalls(p)'
    BY <2>6, UploadAssumption DEF HasTable, HasCalls, Fresh
  <2>8. PodsHaveTables'
    <3>1. UNCHANGED tables
      BY <1>1 DEF StartPod, lark
    <3>2. \A q \in Pods : q # p => HasTable(q)' /\ HasCalls(q)'
      BY <1>t, <2>6, <3>1 DEF PodsHaveTables, HasTable, HasCalls
    <3> QED
      BY <2>7, <3>2 DEF PodsHaveTables
  <2>9. JobsHaveTries'
    BY <1>1, <1>t DEF JobsHaveTries, StartPod, ActorTypes, JobType
  <2> QED
    BY <2>3, <2>6, <2>8, <2>9 DEF ActorTypes
<1>2. UNCHANGED <<pod, job, tables>> => ActorTypes' /\ PodsHaveTables' /\ JobsHaveTries'
  BY <1>t DEF ActorTypes, PodsHaveTables, HasTable, HasCalls, JobsHaveTries
<1>3. LarkTypes' /\ SlotTypes'
  <2>1. UNCHANGED <<tables, fields, records, attached, row>>
    BY DEF StartPod, ExpireTableLock, ExpireFieldLock, LoseCache, ExpireCounter, lark, vars
  <2>2. UNCHANGED <<count, timed>> \/ (count' = 0 /\ timed' = FALSE)
    BY DEF StartPod, ExpireTableLock, ExpireFieldLock, LoseCache, ExpireCounter, slots, vars
  <2>3. 0 \in 0..(Rate + 1)
    BY UploadAssumption
  <2>4. LarkTypes'
    BY <1>t, <2>1 DEF LarkTypes
  <2>5. SlotTypes'
    BY <1>t, <2>2, <2>3 DEF SlotTypes
  <2> QED
    BY <2>4, <2>5
<1>4. RedisTypes'
  <2>1. /\ tables' = tables /\ cache' \in {cache, 0} /\ tableLock' \in {tableLock, FALSE}
        /\ fieldLock' = fieldLock \/ \E t \in Tables : fieldLock' = fieldLock \ {t}
    BY DEF StartPod, ExpireTableLock, ExpireFieldLock, LoseCache, ExpireCounter, lark, locks, vars,
           None
  <2>2. cache' \in 0..tables'
    BY <1>t, <1>n, <2>1 DEF RedisTypes
  <2>3. tableLock' \in BOOLEAN
    BY <1>t, <2>1 DEF RedisTypes
  <2>4. fieldLock' \in SUBSET Tables
    BY <1>t, <2>1 DEF RedisTypes
  <2> QED
    BY <2>2, <2>3, <2>4 DEF RedisTypes
<1>5. OtherTypes'
  BY <1>t, FaultType DEF StartPod, ExpireTableLock, ExpireFieldLock, ExpireLock, LoseCache,
     ExpireCounter, OtherTypes, ghosts, vars
<1> QED
  BY <1>1, <1>2, <1>3, <1>4, <1>5
     DEF ExpireTableLock, ExpireFieldLock, LoseCache, ExpireCounter, lark, vars

LEMMA TypesAlways == Spec => []Types
<1>1. Init => Types
  <2>1. Fresh("new") \in PodType
    BY UploadAssumption DEF PodType, PodSteps, Ended, Fresh
  <2>2. Init => ActorTypes /\ PodsHaveTables /\ JobsHaveTries
    BY <2>1, UploadAssumption DEF Init, ActorTypes, PodsHaveTables, JobsHaveTries, JobType,
       HasTable, HasCalls, Fresh
  <2>3. Init => LarkTypes
    <3>1. [table |-> None, token |-> None, full |-> FALSE] \in RowType
      BY DEF RowType
    <3> QED
      BY <3>1, UploadAssumption DEF Init, LarkTypes
  <2>4. Init => RedisTypes /\ SlotTypes /\ OtherTypes
    <3>1. 0 \in 0..0 /\ 0 \in 0..(Rate + 1) /\ 0 \in 0..MaxFaults
      BY UploadAssumption
    <3>2. Init => RedisTypes
      BY <3>1 DEF Init, RedisTypes, None
    <3>3. Init => SlotTypes /\ OtherTypes
      BY <3>1 DEF Init, SlotTypes, OtherTypes
    <3> QED
      BY <3>2, <3>3
  <2> QED
    BY <2>2, <2>3, <2>4, TypesSplit DEF Types
<1>2. Types /\ [Next]_vars => Types'
  BY PodTypeStep, MishapTypeStep, OtherTypeStep DEF Next
<1> QED
  BY <1>1, <1>2, PTL DEF Spec

(***************************************************************************)
(* Pods, jobs, rows, records and locks keep their types, and Argo starts   *)
(* no pod beyond the limit, whatever fails.                                *)
(***************************************************************************)
THEOREM UploadTypes == Spec => []TypeOK
<1>1. Types => TypeOK
  BY DEF Types
<1> QED
  BY <1>1, TypesAlways, PTL

-----------------------------------------------------------------------------
(* The locks                                                               *)

\* Whoever creates has the lock, and no one else, as long as none expired early.
TableLocked == /\ \A p \in Pods : HoldsTable(p) => tableLock
               /\ \A p, q \in Pods : HoldsTable(p) /\ HoldsTable(q) => p = q
FieldLocked(t) == /\ \A p \in Pods : HoldsFields(p, t) => t \in fieldLock
                  /\ \A p, q \in Pods : HoldsFields(p, t) /\ HoldsFields(q, t) => p = q
Locked == ~expired => TableLocked /\ \A t \in Tables : FieldLocked(t)

\* A step of p takes a lock only if it is free, and drops only locks p has.
ByLock(p, t) ==
  /\ HoldsTable(p)' => tableLock' /\ (HoldsTable(p) \/ ~tableLock)
  /\ tableLock => tableLock' \/ HoldsTable(p)
  /\ HoldsFields(p, t)' => t \in fieldLock' /\ (HoldsFields(p, t) \/ t \notin fieldLock)
  /\ t \in fieldLock => t \in fieldLock' \/ HoldsFields(p, t)

LEMMA LockStep ==
  ASSUME Locked, NEW p \in Pods, \A q \in Pods : q # p => pod'[q] = pod[q],
         expired' = expired, ~expired => \A t \in Tables : ByLock(p, t)
  PROVE  Locked'
<1> SUFFICES ASSUME ~expired PROVE TableLocked' /\ \A t \in Tables : FieldLocked(t)'
  BY DEF Locked
<1>1. TableLocked /\ \A t \in Tables : FieldLocked(t)
  BY DEF Locked
<1>2. \A q \in Pods : q # p => (HoldsTable(q)' <=> HoldsTable(q))
  BY DEF HoldsTable, At
<1>3. 1 \in Tables
  BY UploadAssumption DEF Tables
<1>4. TableLocked'
  BY <1>1, <1>2, <1>3 DEF TableLocked, ByLock
<1>5. ASSUME NEW t \in Tables PROVE FieldLocked(t)'
  <2>1. \A q \in Pods : q # p => (HoldsFields(q, t)' <=> HoldsFields(q, t))
    BY DEF HoldsFields, At
  <2> QED
    BY <1>1, <2>1 DEF FieldLocked, ByLock
<1> QED
  BY <1>4, <1>5

LEMMA PodLockStep ==
  ASSUME TypeOK, Locked, NEW p \in Pods, PodStep(p)
  PROVE  Locked'
<1>a. pod \in [Pods -> PodType]
  BY TypesSplit DEF ActorTypes
<1>e. expired' = expired
  BY DEF PodStep, ReadCache, FindTable, LockTable, WaitTable, CreateTable, LockFields, MakeFields,
         WaitFields, CreateRecord, SaveRecord, DrawSlot, TimeCounter, UploadCall, AttachFile,
         SaveUpload, WaitTimesOut, TableRefused, ghosts
<1> USE DEF HoldsTable, HoldsFields, At, ByLock
<1>1. CASE ReadCache(p) \/ FindTable(p) \/ WaitTable(p) \/ CreateTable(p)
  <2>1. UNCHANGED <<tableLock, fieldLock>>
    BY <1>1 DEF ReadCache, FindTable, WaitTable, CreateTable, locks
  <2>2. CASE \E at \in {"find", "lock"} : To(p, at)
    <3>1. pod'[p].at \in {"find", "lock"} /\ \A q \in Pods : q # p => pod'[q] = pod[q]
      BY <1>a, <2>2, ToType DEF PodSteps
    <3>2. pod[p].at \in {"table", "find"}
      BY <1>1, <1>a, <2>2, <3>1 DEF ReadCache, FindTable, WaitTable, CreateTable, Take, PodType
    <3> QED
      BY <1>e, <2>1, <3>1, <3>2, LockStep
  <2>3. CASE \E table, via : Take(p, table, via) /\ (via = "create" => At(p, "create"))
    <3>1. PICK table, via : Take(p, table, via) /\ (via = "create" => At(p, "create"))
      BY <2>3
    <3>2. /\ pod'[p].at = "fields" /\ pod'[p].via = via
          /\ \A q \in Pods : q # p => pod'[q] = pod[q]
      BY <1>a, <3>1 DEF Take, PodType
    <3>3. HoldsTable(p) => via = "create"
      BY <1>1, <1>a, <3>1, <3>2 DEF ReadCache, FindTable, WaitTable, CreateTable, Take, PodType
    <3>4. ~expired => (HoldsTable(p) => tableLock)
      BY DEF Locked, TableLocked
    <3> QED
      BY <1>e, <2>1, <3>1, <3>2, <3>3, <3>4, LockStep
  <2> QED
    BY <1>1, <2>2, <2>3 DEF ReadCache, FindTable, WaitTable, CreateTable
<1>2. CASE LockTable(p)
  BY <1>2, <1>a, <1>e, LockStep DEF LockTable, To, PodType
<1>3. CASE LockFields(p)
  <2>1. /\ pod'[p].table = pod[p].table /\ pod'[p].via = pod[p].via
        /\ pod'[p].at = (IF pod[p].table \in fieldLock THEN "waitFields" ELSE "make")
        /\ \A q \in Pods : q # p => pod'[q] = pod[q]
    BY <1>3, <1>a DEF LockFields, To, PodType
  <2>2. tableLock' = tableLock /\ fieldLock' = fieldLock \cup {pod[p].table} /\ At(p, "fields")
    BY <1>3 DEF LockFields
  <2>3. ~expired => (HoldsTable(p) => tableLock)
    BY DEF Locked, TableLocked
  <2> QED
    BY <1>e, <2>1, <2>2, <2>3, LockStep
<1>4. CASE MakeFields(p) \/ WaitFields(p)
  <2>1. /\ pod'[p].at = "record" /\ \A q \in Pods : q # p => pod'[q] = pod[q]
        /\ tableLock' = (tableLock /\ pod[p].via # "create")
    BY <1>4, <1>a DEF MakeFields, WaitFields, FieldsReady, PodType
  <2>2. \/ At(p, "make") /\ fieldLock' = fieldLock \ {pod[p].table}
        \/ At(p, "waitFields") /\ fieldLock' = fieldLock
    BY <1>4 DEF MakeFields, WaitFields
  <2> QED
    BY <1>e, <2>1, <2>2, LockStep
<1>5. CASE \/ CreateRecord(p) \/ SaveRecord(p) \/ DrawSlot(p) \/ TimeCounter(p) \/ UploadCall(p)
           \/ AttachFile(p) \/ SaveUpload(p)
  <2>1. /\ pod'[p].at \notin {"create", "fields", "make", "waitFields"}
        /\ \A q \in Pods : q # p => pod'[q] = pod[q]
    <3>1. CASE SaveUpload(p)
      BY <3>1, <1>a, EndType DEF SaveUpload, Ended
    <3>2. CASE UploadCall(p)
      BY <3>2, <1>a DEF UploadCall, PodType
    <3>3. CASE CreateRecord(p) \/ SaveRecord(p) \/ DrawSlot(p) \/ TimeCounter(p) \/ AttachFile(p)
      <4>1. \E at \in {"row", "slot", "expire", "upload", "poll", "save"} : To(p, at)
        BY <3>3 DEF CreateRecord, SaveRecord, DrawSlot, TimeCounter, AttachFile
      <4> QED
        BY <1>a, <4>1, ToType DEF PodSteps, Polling
    <3> QED
      BY <1>5, <3>1, <3>2, <3>3
  <2>2. UNCHANGED <<tableLock, fieldLock>>
    BY <1>5 DEF CreateRecord, SaveRecord, DrawSlot, TimeCounter, UploadCall, AttachFile, SaveUpload,
       locks
  <2> QED
    BY <1>e, <2>1, <2>2, LockStep
<1>6. CASE WaitTimesOut(p) \/ TableRefused(p)
  <2>1. EndWithError(p)
    BY <1>6 DEF WaitTimesOut, TableRefused
  <2>2. pod'[p].at = "failed" /\ \A q \in Pods : q # p => pod'[q] = pod[q]
    BY <1>a, <2>1, EndType DEF EndWithError, Ended
  <2> QED
    BY <1>e, <2>1, <2>2, LockStep DEF EndWithError, UnlocksTable
<1> QED
  BY <1>1, <1>2, <1>3, <1>4, <1>5, <1>6 DEF PodStep

LEMMA OtherLockStep ==
  ASSUME TypeOK, Locked,
         \/ \E p \in Pods : Mishap(p)
         \/ \E j \in Jobs : StartPod(j)
         \/ ExpireTableLock \/ (\E t \in Tables : ExpireFieldLock(t)) \/ LoseCache
         \/ ExpireCounter \/ UNCHANGED vars
  PROVE  Locked'
<1>a. pod \in [Pods -> PodType]
  BY TypesSplit DEF ActorTypes
<1> USE DEF HoldsTable, HoldsFields, At
<1>1. ASSUME NEW p \in Pods, Mishap(p) PROVE Locked'
  <2>e. expired' = expired
    BY <1>1 DEF Mishap, FailPod, KillPod, AbandonPod, LoseExpire
  <2>1. CASE FailPod(p) \/ KillPod(p)
    <3>1. \E how \in Ended : End(p, how)
      BY <2>1 DEF FailPod, KillPod, EndWithError, Ended
    <3>2. pod'[p].at \in Ended /\ \A q \in Pods : q # p => pod'[q] = pod[q]
      BY <1>a, <3>1, EndType
    <3>3. UNCHANGED <<tableLock, fieldLock>> \/ EndWithError(p)
      BY <2>1 DEF FailPod, KillPod, locks
    <3>4. ~HoldsTable(p)' /\ \A t \in Tables : ~HoldsFields(p, t)'
      BY <3>2 DEF Ended
    <3>5. /\ tableLock => tableLock' \/ HoldsTable(p)
          /\ \A t \in Tables : t \in fieldLock => t \in fieldLock' \/ HoldsFields(p, t)
      <4>1. CASE UNCHANGED <<tableLock, fieldLock>>
        BY <4>1
      <4>2. CASE EndWithError(p)
        <5>1. tableLock => tableLock' \/ UnlocksTable(p)
          BY <4>2 DEF EndWithError
        <5>2. UnlocksTable(p) => HoldsTable(p)
          BY DEF UnlocksTable
        <5>3. \A t \in Tables : t \in fieldLock => t \in fieldLock' \/ HoldsFields(p, t)
          BY <4>2 DEF EndWithError
        <5> QED
          BY <5>1, <5>2, <5>3
      <4> QED
        BY <3>3, <4>1, <4>2
    <3>6. \A t \in Tables : ByLock(p, t)
      BY <3>4, <3>5 DEF ByLock
    <3> QED
      BY <2>e, <3>2, <3>6, LockStep
  <2>2. CASE AbandonPod(p)
    BY <2>2, <2>e DEF AbandonPod, locks, Locked, TableLocked, FieldLocked
  <2>3. CASE LoseExpire(p)
    <3>1. pod'[p].at = "upload" /\ At(p, "expire") /\ \A q \in Pods : q # p => pod'[q] = pod[q]
      BY <1>a, <2>3, ToType DEF LoseExpire, PodSteps
    <3> QED
      BY <2>3, <2>e, <3>1, LockStep DEF LoseExpire, locks, ByLock
  <2> QED
    BY <1>1, <2>1, <2>2, <2>3 DEF Mishap
<1>2. ASSUME NEW j \in Jobs, StartPod(j) PROVE Locked'
  <2>1. /\ pod' = [pod EXCEPT ![<<j, job[j].try + 1>>] = Fresh("table")]
        /\ UNCHANGED <<tableLock, fieldLock, expired>>
    BY <1>2 DEF StartPod, locks, ghosts
  <2>2. \A q \in Pods : \/ pod'[q] = pod[q]
                        \/ pod'[q].at = "table" /\ pod'[q].via = "cache"
    <3>1. ASSUME NEW q \in Pods, q = <<j, job[j].try + 1>>
          PROVE  pod'[q].at = "table" /\ pod'[q].via = "cache"
      <4>1. pod'[q] = Fresh("table")
        BY <1>a, <2>1, <3>1
      <4> QED
        BY <4>1 DEF Fresh
    <3>2. ASSUME NEW q \in Pods, q # <<j, job[j].try + 1>> PROVE pod'[q] = pod[q]
      BY <1>a, <2>1, <3>2
    <3> QED
      BY <3>1, <3>2
  <2>3. /\ \A q \in Pods : HoldsTable(q)' => HoldsTable(q)
        /\ \A q \in Pods, t \in Tables : HoldsFields(q, t)' => HoldsFields(q, t)
    BY <2>2
  <2> QED
    BY <2>1, <2>3 DEF Locked, TableLocked, FieldLocked
<1>3. CASE ExpireTableLock
  <2>1. expired' \/ (expired' = expired /\ ~\E p \in Pods : HoldsTable(p))
    BY <1>3 DEF ExpireTableLock, ExpireLock
  <2>2. UNCHANGED <<pod, fieldLock>>
    BY <1>3 DEF ExpireTableLock
  <2> QED
    BY <2>1, <2>2 DEF Locked, TableLocked, FieldLocked
<1>4. ASSUME NEW t \in Tables, ExpireFieldLock(t) PROVE Locked'
  <2>1. expired' \/ (expired' = expired /\ ~\E p \in Pods : HoldsFields(p, t))
    BY <1>4 DEF ExpireFieldLock, ExpireLock
  <2>2. UNCHANGED <<pod, tableLock>> /\ fieldLock' = fieldLock \ {t}
    BY <1>4 DEF ExpireFieldLock
  <2> QED
    BY <2>1, <2>2 DEF Locked, TableLocked, FieldLocked
<1>5. CASE LoseCache \/ ExpireCounter \/ UNCHANGED vars
  BY <1>5 DEF LoseCache, ExpireCounter, vars, locks, ghosts, Locked, TableLocked, FieldLocked
<1> QED
  BY <1>1, <1>2, <1>3, <1>4, <1>5

(***************************************************************************)
(* Without an early expiry no two pods create the table or the fields of   *)
(* one table at the same time: each lock is dropped by the pod that has    *)
(* it, by Argo's loss of that pod, or by its time to live after that.      *)
(***************************************************************************)
THEOREM LocksHold == Spec => []LocksExclude
<1>1. Init => Locked
  BY DEF Init, Locked, TableLocked, FieldLocked, HoldsTable, HoldsFields, At, Fresh
<1>2. TypeOK /\ Locked /\ [Next]_vars => Locked'
  BY PodLockStep, OtherLockStep DEF Next
<1>3. Locked => LocksExclude
  BY DEF Locked, TableLocked, FieldLocked, LocksExclude
<1> QED
  BY <1>1, <1>2, <1>3, UploadTypes, PTL DEF Spec

-----------------------------------------------------------------------------
(* The uploads                                                             *)

Active(p) == pod[p].at \notin Ended

\* What a pod that Argo has not given up has done so far.
HasFields(p)   == pod[p].table \in fields
HasRecord(p)   == Record(p) \in records
HasRow(p)      == row[JobOf(p)].table = pod[p].table
HasAttached(p) == attached[Record(p)] = Token(p)
Progress(p) ==
  /\ pod[p].at \in {"record", "row", "slot", "poll", "expire", "upload", "attach", "save"}
       => HasFields(p)
  /\ pod[p].at \in {"row", "slot", "poll", "expire", "upload", "attach", "save"} => HasRecord(p)
  /\ pod[p].at \in {"slot", "poll", "expire", "upload", "attach", "save"} => HasRow(p)
  /\ pod[p].at = "save" => HasAttached(p)
PodGood(p) == Active(p) /\ JobOf(p) \notin abandoned => Watched(p) /\ Progress(p)

JobGood(j) ==
  job[j].state = "Succeeded" /\ j \notin abandoned =>
    /\ row[j].full /\ row[j].token # None
    /\ <<j, row[j].table>> \in records /\ row[j].table \in fields
    /\ attached[<<j, row[j].table>>] = row[j].token

Uploaded == (\A p \in Pods : PodGood(p)) /\ \A j \in Jobs : JobGood(j)

\* A step of p changes nothing of other jobs, and takes no table away.
Apart(p) ==
  /\ \A q \in Pods : q # p => pod'[q] = pod[q]
  /\ fields \subseteq fields' /\ records \subseteq records' /\ abandoned \subseteq abandoned'
  /\ \A j \in Jobs : j # JobOf(p) =>
       /\ job'[j] = job[j] /\ row'[j] = row[j]
       /\ \A t \in Tables : attached'[<<j, t>>] = attached[<<j, t>>]

LEMMA PodOfJob ==
  ASSUME NEW p \in Pods
  PROVE  JobOf(p) \in Jobs /\ Token(p) \in Attempts /\ p = <<JobOf(p), Token(p)>>
BY DEF JobOf, Token, Pods

LEMMA UploadStep ==
  ASSUME Types, Uploaded, NEW p \in Pods, Active(p), Apart(p),
         JobOf(p) \notin abandoned' => PodGood(p)' /\ JobGood(JobOf(p))'
  PROVE  Uploaded'
<1>t. pod \in [Pods -> PodType] /\ LarkTypes /\ PodsHaveTables
  BY TypesSplit DEF Types, ActorTypes
<1>1. ASSUME NEW q \in Pods PROVE PodGood(q)'
  <2>1. CASE q = p
    BY <2>1 DEF PodGood
  <2>2. CASE q # p /\ JobOf(q) = JobOf(p)
    <3>1. ASSUME Active(q), JobOf(q) \notin abandoned PROVE FALSE
      <4>1. Watched(p) /\ Watched(q)
        BY <2>2, <3>1 DEF Uploaded, PodGood
      <4>2. Token(p) = Token(q)
        BY <2>2, <4>1 DEF Watched
      <4> QED
        BY <2>2, <4>2, PodOfJob
    <3>2. pod'[q] = pod[q]
      BY <2>2 DEF Apart
    <3> QED
      BY <3>1, <3>2 DEF Apart, PodGood, Active
  <2>3. CASE JobOf(q) # JobOf(p)
    <3>1. SUFFICES ASSUME Active(q)', JobOf(q) \notin abandoned' PROVE Watched(q)' /\ Progress(q)'
      BY DEF PodGood
    <3>2. pod'[q] = pod[q]
      BY <2>3 DEF Apart
    <3>3. Active(q) /\ JobOf(q) \notin abandoned
      BY <3>1, <3>2 DEF Active, Apart
    <3>4. Watched(q) /\ Progress(q)
      BY <3>3 DEF Uploaded, PodGood
    <3>5. JobOf(q) \in Jobs
      BY PodOfJob
    <3>6. /\ job'[JobOf(q)] = job[JobOf(q)] /\ row'[JobOf(q)] = row[JobOf(q)]
          /\ \A t \in Tables : attached'[<<JobOf(q), t>>] = attached[<<JobOf(q), t>>]
      BY <2>3, <3>5 DEF Apart
    <3>7. pod[q].at = "save" => pod[q].table \in Tables
      BY <1>t, TablesAreTables DEF PodsHaveTables, HasTable
    <3>8. fields \subseteq fields' /\ records \subseteq records'
      BY DEF Apart
    <3>9. Watched(q)'
      BY <3>4, <3>6 DEF Watched
    <3>10. Progress(q)'
      BY <3>2, <3>4, <3>6, <3>7, <3>8
         DEF Progress, HasFields, HasRecord, HasRow, HasAttached, Record
    <3> QED
      BY <3>9, <3>10
  <2> QED
    BY <2>1, <2>2, <2>3
<1>2. ASSUME NEW j \in Jobs PROVE JobGood(j)'
  <2>1. CASE j = JobOf(p)
    BY <2>1 DEF JobGood
  <2>2. CASE j # JobOf(p)
    <3>1. JobGood(j)
      BY DEF Uploaded
    <3>2. /\ job'[j] = job[j] /\ row'[j] = row[j]
          /\ \A t \in Tables : attached'[<<j, t>>] = attached[<<j, t>>]
          /\ fields \subseteq fields' /\ records \subseteq records'
          /\ abandoned \subseteq abandoned'
      BY <2>2 DEF Apart
    <3>3. fields \subseteq Tables
      BY <1>t DEF LarkTypes
    <3> QED
      BY <3>1, <3>2, <3>3 DEF JobGood
  <2> QED
    BY <2>1, <2>2
<1> QED
  BY <1>1, <1>2 DEF Uploaded

\* A pod that runs on and is not given up still is the one Argo watches, and its
\* job has not succeeded.
LEMMA RunsOn ==
  ASSUME Types, Uploaded, NEW p \in Pods, Active(p), Apart(p), UNCHANGED job,
         JobOf(p) \notin abandoned => Progress(p)'
  PROVE  Uploaded'
<1> SUFFICES ASSUME JobOf(p) \notin abandoned' PROVE PodGood(p)' /\ JobGood(JobOf(p))'
  BY UploadStep
<1>1. JobOf(p) \notin abandoned
  BY DEF Apart
<1>2. Watched(p)
  BY <1>1 DEF Uploaded, PodGood
<1>3. Watched(p)'
  BY <1>2 DEF Watched
<1>4. job'[JobOf(p)].state # "Succeeded"
  BY <1>2 DEF Watched
<1> QED
  BY <1>1, <1>3, <1>4 DEF PodGood, JobGood

\* A pod that ends without success.
LEMMA EndsBadly ==
  ASSUME Types, Uploaded, NEW p \in Pods, Active(p), Apart(p), pod'[p].at \in Ended,
         job' \in {TryAgain(p), JobIs(p, "Failed")}
  PROVE  Uploaded'
<1>t. job \in [Jobs -> JobType]
  BY TypesSplit DEF Types, ActorTypes
<1> SUFFICES ASSUME JobOf(p) \notin abandoned' PROVE PodGood(p)' /\ JobGood(JobOf(p))'
  BY UploadStep
<1>1. PodGood(p)'
  BY DEF PodGood, Active
<1>2. Watched(p)
  BY DEF Apart, Uploaded, PodGood
<1>3. job'[JobOf(p)].state \in {"waiting", "Failed"}
  BY <1>t, <1>2, PodOfJob DEF TryAgain, JobIs, JobType
<1> QED
  BY <1>1, <1>3 DEF JobGood

LEMMA PodUploadStep ==
  ASSUME Types, Uploaded, NEW p \in Pods, PodStep(p)
  PROVE  Uploaded'
<1>t. /\ pod \in [Pods -> PodType] /\ job \in [Jobs -> JobType] /\ row \in [Jobs -> RowType]
      /\ attached \in [Jobs \X Tables -> Attempts \cup {None}] /\ LarkTypes /\ HasTable(p)
  BY TypesSplit DEF Types, ActorTypes, LarkTypes, PodsHaveTables
<1>j. JobOf(p) \in Jobs /\ Token(p) \in Attempts
  BY PodOfJob
<1>a. Active(p)
  BY DEF PodStep, ReadCache, FindTable, LockTable, WaitTable, CreateTable, LockFields, MakeFields,
         WaitFields, CreateRecord, SaveRecord, DrawSlot, TimeCounter, UploadCall, AttachFile,
         SaveUpload, WaitTimesOut, TableRefused, Active, Ended, At
<1>g. JobOf(p) \notin abandoned => Watched(p) /\ Progress(p)
  BY <1>a DEF Uploaded, PodGood
<1>r. pod[p].at \in {"record", "row", "attach", "save"} => Record(p) \in Jobs \X Tables
  BY <1>t, <1>j, TablesAreTables DEF HasTable, Record
<1> USE DEF lark, ghosts
<1>1. CASE \/ ReadCache(p) \/ FindTable(p) \/ LockTable(p) \/ WaitTable(p)
           \/ CreateTable(p) \/ LockFields(p)
  <2>1. UNCHANGED <<job, fields, records, attached, row, ghosts>>
    BY <1>1 DEF ReadCache, FindTable, LockTable, WaitTable, CreateTable, LockFields
  <2>2. /\ pod'[p].at \in {"find", "lock", "wait", "create", "fields", "waitFields", "make"}
        /\ \A q \in Pods : q # p => pod'[q] = pod[q]
    BY <1>1, <1>t DEF ReadCache, FindTable, LockTable, WaitTable, CreateTable, LockFields, To, Take,
       PodType
  <2> QED
    BY <1>a, <2>1, <2>2, RunsOn DEF Apart, Progress
<1>2. CASE MakeFields(p) \/ WaitFields(p)
  <2>1. /\ UNCHANGED <<job, records, attached, row, ghosts>>
        /\ pod[p].table \in fields' /\ fields \subseteq fields'
    BY <1>2 DEF MakeFields, WaitFields
  <2>2. /\ pod'[p].at = "record" /\ pod'[p].table = pod[p].table
        /\ \A q \in Pods : q # p => pod'[q] = pod[q]
    BY <1>2, <1>t DEF MakeFields, WaitFields, FieldsReady, PodType
  <2> QED
    BY <1>a, <2>1, <2>2, RunsOn DEF Apart, Progress, HasFields
<1>3. CASE CreateRecord(p) \/ DrawSlot(p) \/ TimeCounter(p) \/ UploadCall(p)
  <2>1. /\ UNCHANGED <<job, fields, attached, row, ghosts>>
        /\ records' \in {records, records \cup {Record(p)}}
    BY <1>3 DEF CreateRecord, DrawSlot, TimeCounter, UploadCall
  <2>2. /\ pod'[p].table = pod[p].table /\ \A q \in Pods : q # p => pod'[q] = pod[q]
        /\ \/ /\ pod[p].at = "record" /\ pod'[p].at = "row"
              /\ records' = records \cup {Record(p)}
           \/ /\ pod[p].at \in {"slot", "poll", "expire", "upload"}
              /\ pod'[p].at \in {"slot", "poll", "expire", "upload", "attach"}
    BY <1>3, <1>t DEF CreateRecord, DrawSlot, TimeCounter, UploadCall, To, At, PodType
  <2>3. Record(p)' = Record(p)
    BY <2>2 DEF Record
  <2>4. JobOf(p) \notin abandoned => Progress(p)'
    BY <1>g, <2>1, <2>2, <2>3 DEF Progress, HasFields, HasRecord, HasRow
  <2> QED
    BY <1>a, <2>1, <2>2, <2>4, RunsOn DEF Apart
<1>4. CASE SaveRecord(p)
  <2>1. UNCHANGED <<job, fields, records, attached, ghosts>> /\ pod[p].at = "row"
    BY <1>4 DEF SaveRecord, At
  <2>2. /\ row'[JobOf(p)].table = pod[p].table
        /\ \A j \in Jobs : j # JobOf(p) => row'[j] = row[j]
    BY <1>4, <1>t, <1>j DEF SaveRecord, Upsert
  <2>3. /\ pod'[p].at = "slot" /\ pod'[p].table = pod[p].table
        /\ \A q \in Pods : q # p => pod'[q] = pod[q]
    BY <1>4, <1>t DEF SaveRecord, To, PodType
  <2>4. JobOf(p) \notin abandoned => Progress(p)'
    BY <1>g, <2>1, <2>2, <2>3 DEF Progress, HasFields, HasRecord, HasRow, Record
  <2> QED
    BY <1>a, <2>1, <2>2, <2>3, <2>4, RunsOn DEF Apart
<1>5. CASE AttachFile(p)
  <2>1. UNCHANGED <<job, fields, records, row, ghosts>> /\ pod[p].at = "attach"
    BY <1>5 DEF AttachFile, At
  <2>2. /\ attached'[Record(p)] = Token(p)
        /\ \A j \in Jobs, t \in Tables : j # JobOf(p) => attached'[<<j, t>>] = attached[<<j, t>>]
    <3>1. attached' = [attached EXCEPT ![Record(p)] = Token(p)] /\ Record(p) \in Jobs \X Tables
      BY <1>5, <1>r, <2>1 DEF AttachFile
    <3>2. ASSUME NEW j \in Jobs, NEW t \in Tables, j # JobOf(p)
          PROVE  attached'[<<j, t>>] = attached[<<j, t>>]
      <4>1. <<j, t>> # Record(p) /\ <<j, t>> \in Jobs \X Tables
        BY <3>2 DEF Record
      <4> QED
        BY <1>t, <3>1, <4>1
    <3>3. attached'[Record(p)] = Token(p)
      BY <1>t, <3>1
    <3> QED
      BY <3>2, <3>3
  <2>3. /\ pod'[p].at = "save" /\ pod'[p].table = pod[p].table
        /\ \A q \in Pods : q # p => pod'[q] = pod[q]
    BY <1>5, <1>t DEF AttachFile, To, PodType
  <2>4. Record(p)' = Record(p)
    BY <2>3 DEF Record
  <2>5. JobOf(p) \notin abandoned => Progress(p)'
    BY <1>g, <2>1, <2>2, <2>3, <2>4 DEF Progress, HasFields, HasRecord, HasRow, HasAttached
  <2> QED
    BY <1>a, <2>1, <2>2, <2>3, <2>5, RunsOn DEF Apart
<1>6. CASE SaveUpload(p)
  <2>1. UNCHANGED <<fields, records, attached, ghosts>> /\ pod[p].at = "save"
    BY <1>6 DEF SaveUpload, At
  <2>2. /\ row'[JobOf(p)] = [table |-> pod[p].table, token |-> Token(p), full |-> TRUE]
        /\ \A j \in Jobs : j # JobOf(p) => row'[j] = row[j]
    <3>1. row' = Upsert(p, Token(p), TRUE) /\ Token(p) # None
      BY <1>6, <1>j, UploadAssumption DEF SaveUpload, Attempts, None
    <3> QED
      BY <1>t, <1>j, <3>1 DEF Upsert
  <2>3. pod'[p].at = "done" /\ \A q \in Pods : q # p => pod'[q] = pod[q]
    BY <1>6, <1>t, EndType DEF SaveUpload, Ended
  <2>4. \A j \in Jobs : j # JobOf(p) => job'[j] = job[j]
    BY <1>6, <1>t DEF SaveUpload, JobIs
  <2>5. JobOf(p) \notin abandoned' => JobGood(JobOf(p))'
    <3>1. SUFFICES ASSUME JobOf(p) \notin abandoned PROVE JobGood(JobOf(p))'
      BY <2>1
    <3>2. HasFields(p) /\ HasRecord(p) /\ HasAttached(p)
      BY <1>g, <2>1, <3>1 DEF Progress
    <3>3. Token(p) # None
      BY <1>j, UploadAssumption DEF Attempts, None
    <3> QED
      BY <2>1, <2>2, <3>2, <3>3 DEF JobGood, HasFields, HasRecord, HasAttached, Record
  <2> QED
    BY <1>a, <2>1, <2>2, <2>3, <2>4, <2>5, UploadStep DEF Apart, PodGood, Active, Ended
<1>7. CASE WaitTimesOut(p) \/ TableRefused(p)
  <2>1. UNCHANGED <<lark, row, ghosts>> /\ job' \in {TryAgain(p), JobIs(p, "Failed")}
    BY <1>7 DEF WaitTimesOut, TableRefused
  <2>2. pod'[p].at = "failed" /\ \A q \in Pods : q # p => pod'[q] = pod[q]
    BY <1>7, <1>t, EndType DEF WaitTimesOut, TableRefused, EndWithError, Ended
  <2>3. \A j \in Jobs : j # JobOf(p) => job'[j] = job[j]
    BY <2>1, <1>t DEF TryAgain, JobIs
  <2> QED
    BY <1>a, <2>1, <2>2, <2>3, EndsBadly DEF Apart, Ended
<1> QED
  BY <1>1, <1>2, <1>3, <1>4, <1>5, <1>6, <1>7 DEF PodStep

LEMMA MishapUploadStep ==
  ASSUME Types, Uploaded, NEW p \in Pods, Mishap(p)
  PROVE  Uploaded'
<1>t. pod \in [Pods -> PodType] /\ job \in [Jobs -> JobType]
  BY TypesSplit DEF Types, ActorTypes
<1>a. Active(p)
  BY DEF Mishap, FailPod, KillPod, AbandonPod, LoseExpire, Active, Ended, At
<1>u. UNCHANGED <<fields, records, attached, row>>
  BY DEF Mishap, FailPod, KillPod, AbandonPod, LoseExpire, lark
<1>1. CASE FailPod(p) \/ KillPod(p)
  <2>1. UNCHANGED abandoned /\ job' \in {TryAgain(p), JobIs(p, "Failed")}
    BY <1>1 DEF FailPod, KillPod
  <2>2. pod'[p].at \in Ended /\ \A q \in Pods : q # p => pod'[q] = pod[q]
    <3>1. \E how \in Ended : End(p, how)
      BY <1>1 DEF FailPod, KillPod, EndWithError, Ended
    <3> QED
      BY <1>t, <3>1, EndType
  <2>3. \A j \in Jobs : j # JobOf(p) => job'[j] = job[j]
    BY <2>1, <1>t DEF TryAgain, JobIs
  <2> QED
    BY <1>a, <1>u, <2>1, <2>2, <2>3, EndsBadly DEF Apart
<1>2. CASE AbandonPod(p)
  <2>1. /\ UNCHANGED pod /\ job' = TryAgain(p) /\ JobOf(p) \in abandoned'
        /\ abandoned \subseteq abandoned'
    BY <1>2 DEF AbandonPod
  <2>2. \A j \in Jobs : j # JobOf(p) => job'[j] = job[j]
    BY <2>1, <1>t DEF TryAgain, JobIs
  <2> QED
    BY <1>a, <1>u, <2>1, <2>2, UploadStep DEF Apart
<1>3. CASE LoseExpire(p)
  <2>1. UNCHANGED <<job, abandoned>> /\ pod[p].at = "expire"
    BY <1>3 DEF LoseExpire, At
  <2>2. /\ pod'[p].at = "upload" /\ pod'[p].table = pod[p].table
        /\ \A q \in Pods : q # p => pod'[q] = pod[q]
    BY <1>3, <1>t, ToType DEF LoseExpire, PodSteps
  <2>3. JobOf(p) \notin abandoned => Progress(p)'
    BY <1>a, <1>u, <2>1, <2>2
       DEF Uploaded, PodGood, Progress, HasFields, HasRecord, HasRow, Record
  <2> QED
    BY <1>a, <1>u, <2>1, <2>2, <2>3, RunsOn DEF Apart
<1> QED
  BY <1>1, <1>2, <1>3 DEF Mishap

LEMMA OtherUploadStep ==
  ASSUME Types, Uploaded,
         \/ \E j \in Jobs : StartPod(j)
         \/ ExpireTableLock \/ (\E t \in Tables : ExpireFieldLock(t)) \/ LoseCache
         \/ ExpireCounter \/ UNCHANGED vars
  PROVE  Uploaded'
<1>t. pod \in [Pods -> PodType] /\ job \in [Jobs -> JobType] /\ JobsHaveTries
  BY TypesSplit DEF Types, ActorTypes
<1>1. ASSUME NEW j \in Jobs, StartPod(j) PROVE Uploaded'
  <2>1. job[j].try + 1 \in Attempts
    BY <1>1, <1>t, UploadAssumption DEF StartPod, JobsHaveTries, JobType, Attempts
  <2>2. PICK p \in Pods : p = <<j, job[j].try + 1>>
    BY <2>1 DEF Pods
  <2>3. JobOf(p) = j /\ Token(p) = job[j].try + 1
    BY <2>2 DEF JobOf, Token
  <2>4. /\ job'[j] = [state |-> "running", try |-> Token(p)]
        /\ \A i \in Jobs : i # j => job'[i] = job[i]
    BY <1>1, <1>t, <2>3 DEF StartPod
  <2>5. pod'[p] = Fresh("table") /\ \A q \in Pods : q # p => pod'[q] = pod[q]
    BY <1>1, <1>t, <2>2 DEF StartPod
  <2>6. UNCHANGED <<fields, records, attached, row, abandoned>>
    BY <1>1 DEF StartPod, lark, ghosts
  <2>7. ASSUME NEW q \in Pods PROVE PodGood(q)'
    <3>1. CASE q = p
      <4>1. Watched(q)'
        BY <3>1, <2>3, <2>4 DEF Watched
      <4>2. Progress(q)'
        BY <3>1, <2>5 DEF Progress, Fresh
      <4> QED
        BY <4>1, <4>2 DEF PodGood
    <3>2. CASE q # p /\ JobOf(q) = j
      <4>1. ~Watched(q)
        BY <1>1, <3>2 DEF StartPod, Watched
      <4>2. ~Active(q) \/ j \in abandoned
        BY <3>2, <4>1 DEF Uploaded, PodGood
      <4> QED
        BY <3>2, <4>2, <2>5, <2>6 DEF PodGood, Active
    <3>3. CASE JobOf(q) # j
      <4>1. PodGood(q)
        BY DEF Uploaded
      <4>2. job'[JobOf(q)] = job[JobOf(q)] /\ pod'[q] = pod[q]
        BY <2>3, <2>4, <2>5, <3>3, PodOfJob
      <4> QED
        BY <2>6, <4>1, <4>2 DEF PodGood, Active, Watched, Progress, HasFields, HasRecord, HasRow,
           HasAttached, Record
    <3> QED
      BY <3>1, <3>2, <3>3
  <2>8. ASSUME NEW i \in Jobs PROVE JobGood(i)'
    <3>1. CASE i = j
      BY <2>4, <3>1 DEF JobGood
    <3>2. CASE i # j
      BY <2>4, <2>6, <3>2 DEF Uploaded, JobGood
    <3> QED
      BY <3>1, <3>2
  <2> QED
    BY <2>7, <2>8 DEF Uploaded
<1>2. CASE UNCHANGED <<pod, job, fields, records, attached, row, abandoned>>
  BY <1>2 DEF Uploaded, JobGood, PodGood, Active, Watched, Progress, HasFields, HasRecord, HasRow,
     HasAttached, Record
<1>3. ASSUME \/ ExpireTableLock \/ (\E t \in Tables : ExpireFieldLock(t)) \/ LoseCache
             \/ ExpireCounter \/ UNCHANGED vars
      PROVE  UNCHANGED <<pod, job, fields, records, attached, row, abandoned>>
  BY <1>3 DEF ExpireTableLock, ExpireFieldLock, LoseCache, ExpireCounter, vars, lark, ghosts
<1> QED
  BY <1>1, <1>2, <1>3

(***************************************************************************)
(* A job that succeeded has a row that names its record and the file       *)
(* attached to it, in any number of attempts and whatever the pods beside  *)
(* it did, because Argo watches one pod of a job and only that one writes  *)
(* the row and the attachment, unless a pod was given up and goes on.      *)
(***************************************************************************)
THEOREM UploadsHold == Spec => []SucceededIsUploaded
<1>1. Init => Uploaded
  <2>1. ASSUME Init PROVE \A p \in Pods : PodGood(p)
    BY <2>1 DEF Init, PodGood, Active, Fresh, Ended
  <2>2. ASSUME Init PROVE \A j \in Jobs : JobGood(j)
    BY <2>2 DEF Init, JobGood
  <2> QED
    BY <2>1, <2>2 DEF Uploaded
<1>2. Types /\ Uploaded /\ [Next]_vars => Uploaded'
  BY PodUploadStep, MishapUploadStep, OtherUploadStep DEF Next
<1>3. Uploaded => SucceededIsUploaded
  BY DEF Uploaded, JobGood, SucceededIsUploaded
<1> QED
  BY <1>1, <1>2, <1>3, TypesAlways, PTL DEF Spec
=============================================================================
