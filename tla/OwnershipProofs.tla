--------------------------- MODULE OwnershipProofs ---------------------------
(***************************************************************************)
(* Proofs about Ownership, for any number of scans and usage goroutines,   *)
(* any contents and identities, and any number of faults, writes and       *)
(* backoff levels: the types, and the three properties about writes, for   *)
(* an operator who makes no edit inside a save window (UserRaces = {}), by *)
(* induction over RevisionsMeanWhatTheySay.                                *)
(***************************************************************************)
EXTENDS OwnershipInvariant, TLAPS

USE DEF Workers, NoRev

-----------------------------------------------------------------------------
(* Stages.                                                                 *)

\* Where an error of the host leads is a stage that writes nothing to the host.
LEMMA ErrorStages ==
  \A stage \in SnapStages \cup Saving :
    ErrorOf[stage] \in {"safe_error", "idle", "backoff", "review"}
BY DEF SnapStages, Saving, BeforeSave, AfterSave, Looking, ErrorOf

\* What the record checks before and after a probe decide.
LEMMA PostEnableStages ==
  ASSUME NEW r, NEW s, NEW onward
  PROVE  PostEnableVerdict(r, s, onward) \in {"review", "retire", onward}
BY DEF PostEnableVerdict

\* Where a scan may go after it has looked at the credential.
LEMMA InspectStages ==
  ASSUME NEW r, NEW s
  PROVE  InspectVerdict(r, s) \in {"retire", "review", "arm", "probe"}
BY DEF InspectVerdict, PostEnableVerdict, StartVerdict

\* Where a usage goroutine may go after its checks.
LEMMA UsageStages ==
  ASSUME NEW e, NEW s
  PROVE  UsageVerdict(e, s) \in {"idle", "disable"}
BY DEF UsageVerdict

\* Before a save: give up, have nothing to do, or save.
LEMMA BeforeStages ==
  ASSUME NEW w, NEW stage \in BeforeSave, NEW s
  PROVE  BeforeVerdict(w, stage, s)
           \in {GuardErrorOf[stage], CommitOf[stage], SaveOf[stage]}
BY DEF BeforeVerdict

\* Where a change may go after its save.
LEMMA AfterStages ==
  ASSUME NEW w, NEW stage \in AfterSave, NEW s
  PROVE  AfterVerdict(w, stage, s) \in {ErrorOf[stage], CommitOf[stage]}
BY DEF AfterVerdict

\* The tables of stages hold stages.
LEMMA TableStages ==
  /\ \A stage \in BeforeSave :
       /\ GuardErrorOf[stage] \in {"review", "idle"}
       /\ CommitOf[stage] \in {"commit_enable", "commit_redisable", "idle"}
       /\ SaveOf[stage] \in Saving
  /\ \A stage \in AfterSave :
       CommitOf[stage] \in {"commit_enable", "commit_redisable", "claim"}
  /\ \A stage \in Saving : AfterOf[stage] \in AfterSave
  /\ \A stage \in Saving : AuthorOf[stage] \in Authors
BY DEF BeforeSave, AfterSave, Saving, GuardErrorOf, CommitOf, SaveOf, AfterOf, AuthorOf, Authors

\* The stages the actions name are stages.
LEMMA StageNames ==
  /\ Saving \subseteq Stages
  /\ AfterSave \subseteq Stages
  /\ {"idle", "resolve", "waiting", "safe_error", "safe_error_write",
      "inspect", "verify", "failed", "usage", "enable", "redisable", "disable",
      "arm", "commit_enable", "record_health", "commit_redisable", "retire",
      "review", "backoff", "claim", "probe"} \subseteq Stages
BY DEF Stages, SnapStages, BeforeSave, Saving, AfterSave, Looking, Updating, Unlocked

-----------------------------------------------------------------------------
(* Types.                                                                  *)

\* The empty values have the types of what they stand for.
LEMMA EmptyValues ==
  NoRecord \in Records /\ NoSnap \in Snaps /\ NoHalf \in Halves /\ NoEvent \in Events
BY OwnershipAssumption DEF Records, Snaps, Halves, Events, NoRecord, NoSnap, NoHalf, NoEvent, Phases

\* The types hold at the start.
LEMMA TypeInit == Init => TypeOK
BY OwnershipAssumption, EmptyValues DEF Init, TypeOK, Files, Authors, Stages, Unlocked

\* Advance keeps the types of what it moves and clears.
LEMMA AdvanceType ==
  ASSUME TypeOK, NEW w \in Workers, NEW stage \in Stages, NEW r \in Records,
         NEW s \in Snaps, Advance(w, stage, r, s)
  PROVE  /\ lock' \in Workers \cup {None}
         /\ pc' \in [Workers -> Stages]
         /\ rec' \in [Workers -> Records]
         /\ half' \in [Workers -> Halves]
         /\ snap' \in [Workers -> Snaps]
         /\ ev' \in [Workers -> Events]
BY EmptyValues DEF Advance, TypeOK

\* Continue keeps the types, a failed scan included.
LEMMA ContinueType ==
  ASSUME TypeOK, NEW w \in Workers, NEW stage \in Stages, Continue(w, stage)
  PROVE  /\ lock' \in Workers \cup {None}
         /\ pc' \in [Workers -> Stages]
         /\ rec' \in [Workers -> Records]
         /\ half' \in [Workers -> Halves]
         /\ snap' \in [Workers -> Snaps]
         /\ ev' \in [Workers -> Events]
<1>1. rec[w] \in Records /\ snap[w] \in Snaps
  BY DEF TypeOK
<1> QED
  BY <1>1, AdvanceType DEF Continue

\* Counting a fault leaves a number.
LEMMA FaultType ==
  ASSUME TypeOK, NEW kind, Fault(kind)
  PROVE  faults' \in Nat
BY DEF Fault, TypeOK

\* What a snapshot answers is a snapshot, or none.
LEMMA SnapshotType ==
  ASSUME TypeOK, NEW w \in Workers, NEW kind \in DOMAIN Runtime
  PROVE  SnapshotOf(w, kind) \in Snaps
<1>1. IdOf[file.content] \in Ids /\ file.rev \in Nat /\ half[w] \in Halves
  BY OwnershipAssumption DEF TypeOK, Files
<1>2. kind \in {"full", "no_revision", "no_id", "runtime"}
  BY DEF Runtime
<1>3. /\ Runtime[kind].ok \in BOOLEAN
      /\ Runtime[kind].rev \in Nat
      /\ Runtime[kind].id \in Ids \cup {None}
  <2>1. CASE kind = "full"
    BY <1>1, <2>1 DEF Runtime
  <2>2. CASE kind = "no_revision"
    BY <1>1, <2>2 DEF Runtime
  <2>3. CASE kind = "no_id"
    BY <1>1, <2>3 DEF Runtime
  <2>4. CASE kind = "runtime"
    BY <2>4 DEF Runtime
  <2> QED
    BY <1>2, <2>1, <2>2, <2>3, <2>4
<1> QED
  BY <1>1, <1>3 DEF SnapshotOf, Snaps, Halves

\* A claim is an ownership record.
LEMMA ClaimType ==
  ASSUME TypeOK, NEW w \in Workers, NEW s \in Snaps
  PROVE  ClaimOf(w, s) \in Records
<1>1. /\ ev[w].id \in Ids \cup {None}
      /\ snap[w].content \in Contents \cup {None}
      /\ s.rev \in Nat
  BY DEF TypeOK, Events, Snaps
<1>2. NoRecord \in Records /\ "owned_disabled" \in Phases
  BY EmptyValues DEF Phases
<1> QED
  BY <1>1, <1>2 DEF ClaimOf, Records

\* A raised level is within its bound.
LEMMA BackoffType ==
  ASSUME NEW r \in Records
  PROVE  Backoff(r) \in Records /\ Raise(r.level) \in 0..MaxLevel
<1>1. Raise(r.level) \in 0..MaxLevel
  BY OwnershipAssumption DEF Raise, Records
<1> QED
  BY <1>1 DEF Backoff, Records

\* A write of the credential file leaves a file.
LEMMA WriteType ==
  ASSUME TypeOK, ReadsReal, NEW w \in Workers, pc[w] \in Saving, Write(w)
  PROVE  file' \in Files
<1>1. /\ snap[w].content \in Contents
      /\ Target(pc[w]) \in BOOLEAN
      /\ file.rev + 1 \in Nat
      /\ AuthorOf[pc[w]] \in Authors
  BY TableStages DEF TypeOK, ReadsReal, Files, Target
<1> QED
  BY <1>1 DEF Write, Files

\* Decide goes from a stage that takes a snapshot to a stage, keeping the record
\* copy or, for a claim, making one.
LEMMA DecideAdvances ==
  ASSUME TypeOK, NEW w \in Workers, NEW s \in Snaps, Decide(w, s)
  PROVE  /\ pc[w] \in SnapStages
         /\ \E stage \in Stages, r \in Records : Advance(w, stage, r, s)
<1>0. rec[w] \in Records /\ ClaimOf(w, s) \in Records
  BY ClaimType DEF TypeOK
<1>1. CASE pc[w] = "inspect" /\ Advance(w, InspectVerdict(rec[w], s), rec[w], s)
  BY <1>0, <1>1, InspectStages, StageNames DEF SnapStages, Looking
<1>2. CASE pc[w] = "verify" /\ Advance(w, PostEnableVerdict(rec[w], s, "record_health"), rec[w], s)
  BY <1>0, <1>2, PostEnableStages, StageNames DEF SnapStages, Looking
<1>3. CASE pc[w] = "failed" /\ Advance(w, PostEnableVerdict(rec[w], s, "redisable"), rec[w], s)
  BY <1>0, <1>3, PostEnableStages, StageNames DEF SnapStages, Looking
<1>4. CASE pc[w] = "usage" /\ Advance(w, UsageVerdict(ev[w], s), rec[w], s)
  BY <1>0, <1>4, UsageStages, StageNames DEF SnapStages, Looking
<1>5. CASE pc[w] \in BeforeSave /\ Advance(w, BeforeVerdict(w, pc[w], s), rec[w], s)
  <2>1. BeforeVerdict(w, pc[w], s) \in Stages
    BY <1>5, BeforeStages, TableStages, StageNames
  <2> QED
    BY <2>1, <1>0, <1>5 DEF SnapStages
<1>6. CASE pc[w] \in {"enabled", "redisabled"} /\ Advance(w, AfterVerdict(w, pc[w], s), rec[w], s)
  <2>0. pc[w] \in AfterSave
    BY <1>6 DEF AfterSave
  <2>1. AfterVerdict(w, pc[w], s) \in Stages
    BY <2>0, AfterStages, TableStages, ErrorStages, StageNames DEF SnapStages
  <2> QED
    BY <2>0, <2>1, <1>0, <1>6 DEF SnapStages
<1>7. CASE pc[w] = "disabled" /\ Advance(w, AfterVerdict(w, pc[w], s), ClaimOf(w, s), s)
  <2>0. pc[w] \in AfterSave
    BY <1>7 DEF AfterSave
  <2>1. AfterVerdict(w, pc[w], s) \in Stages
    BY <2>0, AfterStages, TableStages, ErrorStages, StageNames DEF SnapStages
  <2> QED
    BY <2>0, <2>1, <1>0, <1>7 DEF SnapStages
<1> QED
  BY <1>1, <1>2, <1>3, <1>4, <1>5, <1>6, <1>7 DEF Decide

\* The records the updates write.
LEMMA UpdateTypes ==
  ASSUME TypeOK, NEW w \in Workers
  PROVE  /\ ArmedRecord \in Records
         /\ EnabledRecord(w) \in Records
         /\ RedisabledRecord(w) \in Records
         /\ ReviewedRecord \in Records
         /\ Backoff(rec[w]) \in Records
         /\ Backoff(record) \in Records
<1>1. /\ rec[w] \in Records /\ record \in Records /\ snap[w] \in Snaps
  BY DEF TypeOK
<1>2. Raise(rec[w].level) \in 0..MaxLevel
  BY <1>1, BackoffType
<1>3. ArmedRecord \in Records /\ ReviewedRecord \in Records
  BY <1>1 DEF ArmedRecord, ReviewedRecord, Records, Phases
<1>4. EnabledRecord(w) \in Records
  BY <1>1 DEF EnabledRecord, Records, Snaps, Phases
<1>5. RedisabledRecord(w) \in Records
  BY <1>1, <1>2 DEF RedisabledRecord, Records, Snaps, Phases
<1> QED
  BY <1>1, <1>3, <1>4, <1>5, BackoffType

\* A store update that fails changes no type.
LEMMA UpdateFailsType ==
  ASSUME TypeOK, NEW w \in Workers, NEW stage \in Stages, UpdateFails(w, stage),
         UNCHANGED file
  PROVE  TypeOK'
BY ContinueType, FaultType DEF UpdateFails, TypeOK

\* An amended record is a record.
LEMMA AmendType ==
  ASSUME TypeOK, NEW r \in Records, Amend(r)
  PROVE  record' \in Records
BY DEF TypeOK, Amend

\* Every host call keeps the types.
LEMMA HostTypes ==
  ASSUME TypeOK, ReadsReal, NEW w \in Workers,
         HostGet(w) \/ HostGetRuntime(w) \/ HostSave(w) \/ Probe(w)
  PROVE  TypeOK'
<1>1. CASE HostGet(w)
  <2>1. CASE /\ half' = [half EXCEPT ![w] =
                         [content |-> file.content, disabled |-> file.disabled]]
             /\ UNCHANGED <<lock, pc, rec, snap, ev, faults>>
    <3>1. [content |-> file.content, disabled |-> file.disabled] \in Halves
      BY DEF TypeOK, Files, Halves
    <3> QED
      BY <1>1, <2>1, <3>1 DEF HostGet, TypeOK
  <2>2. CASE Fault("get") /\ Continue(w, ErrorOf[pc[w]])
    <3>1. ErrorOf[pc[w]] \in Stages
      BY <1>1, ErrorStages, StageNames DEF HostGet
    <3> QED
      BY <1>1, <2>2, <3>1, ContinueType, FaultType DEF HostGet, TypeOK
  <2> QED
    BY <1>1, <2>1, <2>2 DEF HostGet
<1>2. CASE HostGetRuntime(w)
  <2>1. PICK kind \in DOMAIN Runtime :
          /\ IF kind = "full" THEN UNCHANGED faults ELSE Fault(kind)
          /\ Decide(w, SnapshotOf(w, kind))
    BY <1>2 DEF HostGetRuntime
  <2>2. SnapshotOf(w, kind) \in Snaps
    BY <2>1, SnapshotType
  <2>3. PICK stage \in Stages, r \in Records :
          Advance(w, stage, r, SnapshotOf(w, kind))
    BY <2>1, <2>2, DecideAdvances
  <2>4. faults' \in Nat
    BY <2>1, FaultType DEF TypeOK
  <2>5. UNCHANGED <<file, record, same>>
    BY <1>2 DEF HostGetRuntime
  <2> QED
    BY <2>2, <2>3, <2>4, <2>5, AdvanceType DEF TypeOK
<1>3. CASE HostSave(w)
  <2>1. /\ pc[w] \in Saving /\ ErrorOf[pc[w]] \in Stages /\ AfterOf[pc[w]] \in Stages
    BY <1>3, ErrorStages, TableStages, StageNames DEF HostSave
  <2>2. UNCHANGED <<record, same>>
    BY <1>3 DEF HostSave
  <2>3. file' \in Files /\ faults' \in Nat
    BY <1>3, <2>1, WriteType, FaultType DEF HostSave, TypeOK
  <2>4. Continue(w, ErrorOf[pc[w]]) \/ Continue(w, AfterOf[pc[w]])
    BY <1>3 DEF HostSave
  <2> QED
    BY <2>1, <2>2, <2>3, <2>4, ContinueType DEF TypeOK
<1>4. CASE Probe(w)
  <2>1. Continue(w, "verify") \/ Continue(w, "failed")
    BY <1>4 DEF Probe
  <2>2. file' \in Files
    BY <1>4 DEF Probe, TypeOK, Files, Authors
  <2>3. UNCHANGED <<record, same, faults>>
    BY <1>4 DEF Probe
  <2> QED
    BY <2>1, <2>2, <2>3, ContinueType, StageNames DEF TypeOK
<1> QED
  BY <1>1, <1>2, <1>3, <1>4

\* Every store update keeps the types.
LEMMA StoreTypes ==
  ASSUME TypeOK, NEW w \in Workers,
         \/ Arm(w) \/ CommitEnable(w) \/ RecordHealthCheck(w) \/ CommitRedisable(w)
         \/ Retire(w) \/ ManualReview(w) \/ RetryLater(w) \/ Claim(w)
  PROVE  TypeOK'
<1>0. UNCHANGED file
  BY DEF Arm, CommitEnable, RecordHealthCheck, CommitRedisable, Retire, ManualReview, RetryLater, Claim
<1>a. CASE UpdateFails(w, "safe_error") \/ UpdateFails(w, "idle")
  BY <1>a, <1>0, UpdateFailsType, StageNames
<1>b. rec[w] \in Records /\ snap[w] \in Snaps /\ record \in Records
  BY DEF TypeOK
<1>1. CASE /\ Amend(ArmedRecord)
           /\ Advance(w, IF Owned THEN "enable" ELSE "idle", ArmedRecord, snap[w])
           /\ same' = [x \in Workers |-> FALSE]
           /\ UNCHANGED faults
  <2>1. (IF Owned THEN "enable" ELSE "idle") \in Stages
    BY StageNames
  <2> QED
    BY <1>1, <1>0, <1>b, <2>1, UpdateTypes, AmendType, AdvanceType DEF TypeOK
<1>2. CASE /\ Amend(EnabledRecord(w))
           /\ Advance(w, IF Owned
                         THEN PostEnableVerdict(EnabledRecord(w), snap[w], "probe")
                         ELSE "idle",
                      EnabledRecord(w), snap[w])
           /\ UNCHANGED <<same, faults>>
  <2>1. (IF Owned THEN PostEnableVerdict(EnabledRecord(w), snap[w], "probe")
         ELSE "idle") \in Stages
    BY StageNames, PostEnableStages
  <2> QED
    BY <1>2, <1>0, <1>b, <2>1, UpdateTypes, AmendType, AdvanceType DEF TypeOK
<1>3. CASE /\ \/ Amend(RedisabledRecord(w)) \/ Amend(ReviewedRecord)
              \/ Amend(Backoff(rec[w])) \/ record' = NoRecord \/ UNCHANGED record
           /\ Continue(w, "idle") \/ Continue(w, "retire")
           /\ UNCHANGED <<same, faults>>
  <2>1. record' \in Records
    BY <1>3, <1>b, UpdateTypes, AmendType, EmptyValues
  <2> QED
    BY <1>3, <1>0, <2>1, ContinueType, StageNames DEF TypeOK
<1>4. CASE /\ record' = rec[w]
           /\ Continue(w, "idle")
           /\ same' = [x \in Workers |-> FALSE]
           /\ UNCHANGED faults
  BY <1>4, <1>0, <1>b, ContinueType, StageNames DEF TypeOK
<1> QED
  BY <1>a, <1>1, <1>2, <1>3, <1>4
  DEF Arm, CommitEnable, RecordHealthCheck, CommitRedisable, Retire, ManualReview, RetryLater, Claim

\* The steps of a worker that touch neither host nor store keep the types.
LEMMA OtherTypes ==
  ASSUME TypeOK, NEW w \in Workers,
         \/ ScanPick(w) \/ ScanLock(w) \/ UsageEvent(w) \/ Resolve(w)
         \/ UsageLock(w) \/ SafeErrorRead(w) \/ SafeErrorWrite(w)
  PROVE  TypeOK'
<1>1. CASE ScanPick(w)
  BY <1>1, StageNames DEF ScanPick, TypeOK, workerVars
<1>2. CASE ScanLock(w)
  BY <1>2, StageNames DEF ScanLock, TypeOK
<1>3. IdOf[file.content] \in Ids
  BY OwnershipAssumption DEF TypeOK, Files
<1>4. CASE UsageEvent(w)
  <2>1. faults' \in Nat
    BY <1>4, FaultType DEF UsageEvent, TypeOK
  <2>2. [named |-> TRUE, id |-> IdOf[file.content]] \in Events
    BY <1>3 DEF Events
  <2>3. ev' \in [Workers -> Events]
    BY <1>4, <2>2 DEF UsageEvent, TypeOK
  <2> QED
    BY <1>4, <2>1, <2>3, StageNames DEF UsageEvent, TypeOK
<1>5. CASE Resolve(w)
  <2>1. PICK listed \in {IdOf[file.content], None} :
          /\ IF listed = None THEN Fault("no_id") ELSE UNCHANGED faults
          /\ IF ev[w].named /\ ev[w].id # listed
             THEN /\ pc' = [pc EXCEPT ![w] = "idle"]
                  /\ ev' = [ev EXCEPT ![w] = NoEvent]
             ELSE /\ pc' = [pc EXCEPT ![w] = "waiting"]
                  /\ ev' = [ev EXCEPT ![w].id = listed]
    BY <1>5 DEF Resolve
  <2>2. faults' \in Nat
    BY <2>1, FaultType DEF TypeOK
  <2>3. ev[w] \in Events /\ IdOf[file.content] \in Ids
    BY <1>3 DEF TypeOK
  <2>4. ~(ev[w].named /\ ev[w].id # listed) => [ev[w] EXCEPT !.id = listed] \in Events
    BY <2>3 DEF Events
  <2>5. ev' \in [Workers -> Events]
    BY <2>1, <2>4, EmptyValues DEF TypeOK
  <2>6. pc' \in [Workers -> Stages]
    BY <2>1, StageNames DEF TypeOK
  <2> QED
    BY <1>5, <2>2, <2>5, <2>6 DEF Resolve, TypeOK
<1>6. CASE UsageLock(w)
  BY <1>6, StageNames DEF UsageLock, TypeOK, workerVars
<1>7. CASE SafeErrorRead(w)
  BY <1>7, StageNames, UpdateTypes DEF SafeErrorRead, TypeOK
<1>8. CASE SafeErrorWrite(w)
  <2>1. faults' \in Nat
    BY <1>8, FaultType DEF SafeErrorWrite, TypeOK
  <2> QED
    BY <1>8, <2>1, StageNames, EmptyValues DEF SafeErrorWrite, TypeOK
<1> QED
  BY <1>1, <1>2, <1>4, <1>5, <1>6, <1>7, <1>8

\* The operator, the clock and a crash keep the types.
LEMMA EnvironmentTypes ==
  ASSUME TypeOK, UserEdit \/ Elapse \/ Crash
  PROVE  TypeOK'
<1>1. CASE UserEdit
  BY <1>1 DEF UserEdit, TypeOK, Files, Authors, workerVars
<1>2. CASE Elapse
  BY <1>2 DEF Elapse, TypeOK, Records, workerVars
<1>3. CASE Crash
  BY <1>3, EmptyValues, StageNames, FaultType DEF Crash, TypeOK
<1> QED
  BY <1>1, <1>2, <1>3

\* Every step keeps the types.
LEMMA TypeStep ==
  ASSUME TypeOK, ReadsReal, [Next]_vars
  PROVE  TypeOK'
<1>1. ASSUME NEW w \in Workers, Step(w) \/ ScanPick(w) \/ UsageEvent(w)
      PROVE  TypeOK'
  BY <1>1, HostTypes, StoreTypes, OtherTypes DEF Step
<1>2. CASE UNCHANGED vars
  BY <1>2 DEF vars, workerVars, TypeOK
<1> QED
  BY <1>1, <1>2, EnvironmentTypes DEF Next

-----------------------------------------------------------------------------
(* What is written back was read.                                          *)

\* A stage is in one family only.
LEMMA StageFamilies ==
  /\ (SnapStages \cup Saving \cup Updating \cup {"probe"}) \cap Unlocked = {}
  /\ Saving \cap BeforeSave = {}
  /\ Saving \cap AfterSave = {}
  /\ Saving \cap Looking = {}
BY DEF SnapStages, Saving, Unlocked, Updating, BeforeSave, AfterSave, Looking

\* Going on to a stage keeps ReadsReal, unless it is a save of an unread content.
LEMMA AdvanceReads ==
  ASSUME TypeOK, ReadsReal, NEW w \in Workers, NEW stage \in Stages, NEW r, NEW s,
         Advance(w, stage, r, s), stage \in Saving => s.content \in Contents
  PROVE  ReadsReal'
BY StageFamilies DEF Advance, ReadsReal, TypeOK

\* A worker that goes on keeps a record that was really written.
LEMMA ContinueReads ==
  ASSUME TypeOK, ReadsReal, NEW w \in Workers, NEW stage \in Stages \ Saving,
         Continue(w, stage)
  PROVE  ReadsReal'
BY AdvanceReads DEF Continue

\* A decision goes on with the snapshot it was made on.
LEMMA DecideReads ==
  ASSUME TypeOK, ReadsReal, NEW w \in Workers, NEW s \in Snaps, Decide(w, s),
         s.content \in Contents
  PROVE  ReadsReal'
<1>1. PICK stage \in Stages, r \in Records : Advance(w, stage, r, s)
  BY DecideAdvances
<1> QED
  BY <1>1, AdvanceReads

\* What a worker read was really written, after every step.
LEMMA ReadsRealStep ==
  ASSUME TypeOK, ReadsReal, [Next]_vars
  PROVE  ReadsReal'
<1>1. ASSUME NEW w \in Workers, Step(w) \/ ScanPick(w) \/ UsageEvent(w)
      PROVE  ReadsReal'
  <2>1. CASE HostGet(w)
    <3>1. CASE /\ half' = [half EXCEPT ![w] =
                           [content |-> file.content, disabled |-> file.disabled]]
               /\ UNCHANGED <<lock, pc, rec, snap, ev, faults>>
      <4>1. file.content \in Contents
        BY DEF TypeOK, Files
      <4> QED
        BY <3>1, <4>1 DEF ReadsReal, TypeOK
    <3>2. CASE Fault("get") /\ Continue(w, ErrorOf[pc[w]])
      <4>1. ErrorOf[pc[w]] \in Stages \ Saving
        BY <2>1, ErrorStages, StageNames DEF HostGet, Saving
      <4> QED
        BY <3>2, <4>1, ContinueReads
    <3> QED
      BY <2>1, <3>1, <3>2 DEF HostGet
  <2>2. CASE HostGetRuntime(w)
    <3>1. PICK kind \in DOMAIN Runtime : Decide(w, SnapshotOf(w, kind))
      BY <2>2 DEF HostGetRuntime
    <3>2. SnapshotOf(w, kind).content \in Contents
      <4>1. half[w].content \in Contents
        BY <2>2 DEF HostGetRuntime, ReadsReal
      <4> QED
        BY <4>1 DEF SnapshotOf
    <3> QED
      BY <3>1, <3>2, SnapshotType, DecideReads
  <2>3. CASE HostSave(w)
    <3>1. ErrorOf[pc[w]] \in Stages \ Saving /\ AfterOf[pc[w]] \in Stages \ Saving
      BY <2>3, ErrorStages, TableStages, StageNames, StageFamilies DEF HostSave, Saving
    <3> QED
      BY <2>3, <3>1, ContinueReads DEF HostSave
  <2>4. CASE Probe(w)
    BY <2>4, ContinueReads, StageNames DEF Probe, Saving
  <2>5. CASE \/ Arm(w) \/ CommitEnable(w) \/ RecordHealthCheck(w)
             \/ CommitRedisable(w) \/ Retire(w) \/ ManualReview(w)
             \/ RetryLater(w) \/ Claim(w)
    <3>1. \/ Advance(w, IF Owned THEN "enable" ELSE "idle", ArmedRecord, snap[w])
          \/ Advance(w, IF Owned
                        THEN PostEnableVerdict(EnabledRecord(w), snap[w], "probe")
                        ELSE "idle",
                     EnabledRecord(w), snap[w])
          \/ Continue(w, "idle") \/ Continue(w, "retire") \/ Continue(w, "safe_error")
      BY <2>5 DEF Arm, CommitEnable, RecordHealthCheck, CommitRedisable, Retire,
                  ManualReview, RetryLater, Claim, UpdateFails
    <3>2. /\ (IF Owned THEN "enable" ELSE "idle") \in Stages \ Saving
          /\ (IF Owned THEN PostEnableVerdict(EnabledRecord(w), snap[w], "probe")
              ELSE "idle") \in Stages \ Saving
          /\ {"idle", "retire", "safe_error"} \subseteq Stages \ Saving
      BY StageNames, PostEnableStages DEF Saving
    <3> QED
      BY <3>1, <3>2, ContinueReads, AdvanceReads
  <2>6. CASE \/ ScanPick(w) \/ ScanLock(w) \/ UsageEvent(w) \/ Resolve(w)
             \/ UsageLock(w) \/ SafeErrorRead(w) \/ SafeErrorWrite(w)
    BY <2>6 DEF ReadsReal, TypeOK, Saving, ScanPick, ScanLock, UsageEvent, Resolve,
                UsageLock, SafeErrorRead, SafeErrorWrite, workerVars
  <2> QED
    BY <1>1, <2>1, <2>2, <2>3, <2>4, <2>5, <2>6 DEF Step
<1>2. CASE UserEdit \/ Elapse \/ UNCHANGED vars
  BY <1>2 DEF UserEdit, Elapse, vars, workerVars, ReadsReal
<1>3. CASE Crash
  BY <1>3 DEF Crash, ReadsReal, Saving
<1> QED
  BY <1>1, <1>2, <1>3 DEF Next

\* Every variable keeps its type, the record its level within bounds.
THEOREM TypeCorrect == Spec => []TypeOK
<1>1. Init => TypeOK /\ ReadsReal
  BY TypeInit DEF Init, ReadsReal, Saving
<1>2. TypeOK /\ ReadsReal /\ [Next]_vars => (TypeOK /\ ReadsReal)'
  BY TypeStep, ReadsRealStep
<1> QED
  BY <1>1, <1>2, PTL DEF Spec

-----------------------------------------------------------------------------
(* Steps of the worker that holds the lock.                                *)

\* Everybody but the holder of the lock stands outside the WithLock body.
LEMMA OthersOutside ==
  ASSUME TypeOK, LockHeld, NEW w \in Workers, lock = w
  PROVE  \A x \in Workers \ {w} : pc[x] \in Unlocked
BY DEF LockHeld

\* A stage outside the body, or right inside it, knows nothing of the file.
LEMMA NothingKnown ==
  ASSUME NEW stage \in Unlocked \cup Looking \cup {"probe", "record_health", "retire", "review",
                                               "backoff", "claim", "redisable"},
         NEW s, NEW e
  PROVE  Knows(stage, s, e)
BY DEF Knows, Unlocked, Looking

\* The holder of the lock goes on to a stage: the invariant survives if it
\* brings a bound record and what the stage is to know.
LEMMA AdvanceKeeps ==
  ASSUME TypeOK, RevisionsMeanWhatTheySay, file' \in Files,
         NEW w \in Workers, lock = w, NEW stage \in Stages, NEW r \in Records,
         NEW s \in Snaps, Advance(w, stage, r, s),
         stage \in Saving => s.content \in Contents,
         file.rev <= file'.rev, AuthorFlag',
         \A q \in Records : Bound(q) => Bound(q)',
         Bound(r), Bound(record)', s.rev <= file.rev,
         NEW e \in Events, e = ev[w], Knows(stage, s, e)'
  PROVE  RevisionsMeanWhatTheySay'
<1>0. /\ file.rev \in Nat /\ file'.rev \in Nat /\ file.rev # NoRev
      /\ \A x \in Workers : snap[x].rev \in Nat /\ rec[x] \in Records
      /\ pc \in [Workers -> Stages] /\ rec \in [Workers -> Records]
      /\ snap \in [Workers -> Snaps] /\ half \in [Workers -> Halves]
      /\ ev \in [Workers -> Events] /\ s.rev \in Nat
  BY DEF TypeOK, Files, Snaps, RevisionsMeanWhatTheySay, RevisionsPast
<1>1. \A x \in Workers \ {w} : pc[x] \in Unlocked
  BY OthersOutside DEF RevisionsMeanWhatTheySay
<1>2. \A x \in Workers \ {w} : pc'[x] \in Unlocked
  BY <1>0, <1>1 DEF Advance
<1>3. ReadsReal'
  BY AdvanceReads DEF RevisionsMeanWhatTheySay
<1>4. LockHeld'
  BY <1>0, <1>2 DEF Advance, LockHeld
<1>5. RevisionsPast'
  <2>1. \A x \in Workers : snap'[x] \in {snap[x], s, NoSnap}
    BY <1>0 DEF Advance
  <2>2. NoSnap.rev = 0
    BY DEF NoSnap
  <2>3. \A x \in Workers : snap'[x].rev <= file.rev
    BY <1>0, <2>1, <2>2 DEF RevisionsMeanWhatTheySay, RevisionsPast
  <2>4. \A x \in Workers : snap'[x].rev \in Nat
    BY <1>0, <2>1, <2>2
  <2> QED
    BY <1>0, <2>3, <2>4 DEF RevisionsPast
<1>6. RecordsBound'
  <2>1. Bound(NoRecord)
    BY <1>0 DEF Bound, NoRecord
  <2>2. \A x \in Workers : rec'[x] \in {rec[x], r, NoRecord}
    BY <1>0 DEF Advance
  <2>3. \A x \in Workers : Bound(rec[x])
    BY DEF RevisionsMeanWhatTheySay, RecordsBound
  <2>4. \A q \in Records : Bound(q) => Bound(q)'
    OBVIOUS
  <2>5. \A x \in Workers : Bound(rec[x])'
    <3> TAKE x \in Workers
    <3>0. NoRecord \in Records
      BY EmptyValues
    <3>1. rec'[x] \in Records
      BY <1>0, <2>2, <3>0
    <3>2. PICK q \in Records : q = rec'[x] /\ Bound(q)
      <4>1. CASE rec'[x] = rec[x]
        BY <1>0, <2>3, <4>1
      <4>2. CASE rec'[x] = r
        BY <4>2
      <4>3. CASE rec'[x] = NoRecord
        BY <2>1, <3>0, <4>3
      <4> QED
        BY <2>2, <4>1, <4>2, <4>3
    <3>3. Bound(q)'
      BY <3>2
    <3> QED
      BY <3>2, <3>3 DEF Bound
  <2> QED
    BY <2>5 DEF RecordsBound
<1>7. \A x \in Workers : WindowStill(x)'
  BY <1>0, <1>2, StageFamilies DEF Advance, WindowStill, SnapStages
<1>8. \A x \in Workers : StageKnows(x)'
  <2>1. \A x \in Workers \ {w} : StageKnows(x)'
    BY <1>2, NothingKnown DEF StageKnows, Knows, Unlocked
  <2>2. StageKnows(w)'
    <3>1. pc'[w] = stage
      BY <1>0 DEF Advance
    <3>2. CASE stage \in Unlocked
      BY <3>1, <3>2 DEF StageKnows, Knows, Unlocked
    <3>3. CASE stage \notin Unlocked
      <4>1. snap'[w] = s /\ ev'[w] = e
        BY <1>0, <3>3 DEF Advance
      <4> QED
        BY <3>1, <4>1 DEF StageKnows, Knows
    <3> QED
      BY <3>2, <3>3
  <2> QED
    BY <2>1, <2>2
<1> QED
  BY <1>3, <1>4, <1>5, <1>6, <1>7, <1>8 DEF RevisionsMeanWhatTheySay

\* The file unchanged and nothing new known: the usual case.
LEMMA StillKeeps ==
  ASSUME TypeOK, RevisionsMeanWhatTheySay, UNCHANGED file,
         NEW w \in Workers, lock = w, NEW stage \in Stages \ Saving, NEW r \in Records,
         NEW s \in Snaps, Advance(w, stage, r, s), Bound(r), Bound(record'),
         s.rev <= file.rev, Knows(stage, s, ev[w])
  PROVE  RevisionsMeanWhatTheySay'
<1>1. file \in Files /\ file' \in Files /\ file.rev \in Nat /\ ev[w] \in Events
  BY DEF TypeOK, Files
<1>2. AuthorFlag' /\ file.rev <= file'.rev
  BY <1>1 DEF RevisionsMeanWhatTheySay, AuthorFlag
<1>3. \A q \in Records : Bound(q) => Bound(q)'
  BY DEF Bound
<1>4. Bound(record)'
  BY DEF Bound
<1>5. PICK e \in Events : e = ev[w]
  BY <1>1
<1>6. Knows(stage, s, e)'
  BY <1>5 DEF Knows
<1> QED
  BY <1>1, <1>2, <1>3, <1>4, <1>5, <1>6, AdvanceKeeps

\* Going on to the next stage keeps the invariant.
LEMMA ContinueKeeps ==
  ASSUME TypeOK, RevisionsMeanWhatTheySay, UNCHANGED file,
         NEW w \in Workers, lock = w, NEW stage \in {"idle", "safe_error", "retire",
                                     "review", "backoff", "verify", "failed"},
         Continue(w, stage), Bound(record')
  PROVE  RevisionsMeanWhatTheySay'
<1>1. stage \in Stages \ Saving /\ Knows(stage, snap[w], ev[w])
  BY StageNames DEF Saving, Knows
<1>2. rec[w] \in Records /\ snap[w] \in Snaps
  BY DEF TypeOK
<1>3. Bound(rec[w]) /\ snap[w].rev <= file.rev
  BY DEF RevisionsMeanWhatTheySay, RecordsBound, RevisionsPast
<1> QED
  BY <1>1, <1>2, <1>3, StillKeeps DEF Continue

-----------------------------------------------------------------------------
(* Host calls.                                                             *)

\* The first half of a snapshot keeps the invariant.
LEMMA HostGetKeeps ==
  ASSUME TypeOK, RevisionsMeanWhatTheySay, NEW w \in Workers, HostGet(w)
  PROVE  RevisionsMeanWhatTheySay'
<1>1. lock = w /\ UNCHANGED <<file, record>> /\ Bound(record')
  BY StageFamilies DEF HostGet, RevisionsMeanWhatTheySay, LockHeld, RecordsBound
<1>2. CASE /\ half' = [half EXCEPT ![w] =
                       [content |-> file.content, disabled |-> file.disabled]]
           /\ UNCHANGED <<lock, pc, rec, snap, ev, faults>>
  <2>1. file.content \in Contents /\ half \in [Workers -> Halves]
    BY DEF TypeOK, Files
  <2>2. ReadsReal'
    BY <1>2, <2>1 DEF RevisionsMeanWhatTheySay, ReadsReal
  <2>3. \A x \in Workers : WindowStill(x)'
    BY <1>1, <1>2, <2>1 DEF RevisionsMeanWhatTheySay, WindowStill
  <2>4. /\ LockHeld' /\ RevisionsPast' /\ AuthorFlag' /\ RecordsBound'
        /\ \A x \in Workers : StageKnows(x)'
    BY <1>1, <1>2 DEF RevisionsMeanWhatTheySay, LockHeld, RevisionsPast, AuthorFlag,
                      RecordsBound, Bound, StageKnows, Knows
  <2> QED
    BY <2>2, <2>3, <2>4 DEF RevisionsMeanWhatTheySay
<1>3. CASE Fault("get") /\ Continue(w, ErrorOf[pc[w]])
  BY <1>1, <1>3, ErrorStages, ContinueKeeps DEF HostGet
<1> QED
  BY <1>2, <1>3 DEF HostGet

\* What a complete snapshot shows of the file at the moment it is complete.
LEMMA SnapshotFacts ==
  ASSUME TypeOK, ReadsReal, NEW w \in Workers, half[w] # NoHalf,
         NEW kind \in DOMAIN Runtime, NEW s, s = SnapshotOf(w, kind)
  PROVE  /\ s.content = half[w].content /\ s.content \in Contents
         /\ s.disabled = half[w].disabled
         /\ s.rev <= file.rev
         /\ Usable(s) => s.rev = file.rev
         /\ s.id \in {None, IdOf[file.content]}
<1>1. kind \in {"full", "no_revision", "no_id", "runtime"}
  BY DEF Runtime
<1>2. file.rev \in Nat /\ half[w].content \in Contents
  BY DEF TypeOK, Files, ReadsReal
<1>3. s.rev \in {file.rev, NoRev} /\ s.id \in {None, IdOf[file.content]}
  <2>1. CASE kind = "full"
    BY <2>1 DEF Runtime, SnapshotOf
  <2>2. CASE kind = "no_revision"
    BY <2>2 DEF Runtime, SnapshotOf
  <2>3. CASE kind = "no_id"
    BY <2>3 DEF Runtime, SnapshotOf
  <2>4. CASE kind = "runtime"
    BY <2>4 DEF Runtime, SnapshotOf
  <2> QED
    BY <1>1, <2>1, <2>2, <2>3, <2>4
<1> QED
  BY <1>2, <1>3 DEF SnapshotOf, Usable

\* A change that finds the flag as it wants it was its own doing.
LEMMA AlreadyThere ==
  ASSUME TypeOK, RevisionsMeanWhatTheySay, NEW w \in Workers, half[w] # NoHalf,
         pc[w] \in BeforeSave, NEW s \in Snaps, s.disabled = half[w].disabled,
         Usable(s) => s.rev = file.rev, Usable(s), checkGuard(w, pc[w], s),
         s.disabled = Target(pc[w])
  PROVE  pc[w] = "disable"
<1>1. file.disabled = s.disabled
  BY DEF RevisionsMeanWhatTheySay, WindowStill
<1>2. ASSUME pc[w] = "enable"
      PROVE  FALSE
  <2>1. snap[w].rev = file.rev /\ ~s.disabled
    BY <1>2 DEF checkGuard, GuardOf, Target
  <2>2. file.author = "disable"
    BY <1>2, <2>1 DEF RevisionsMeanWhatTheySay, StageKnows, Knows
  <2> QED
    BY <1>1, <2>1, <2>2 DEF RevisionsMeanWhatTheySay, AuthorFlag
<1>3. ASSUME pc[w] = "redisable"
      PROVE  FALSE
  <2>1. rec[w].postRev = file.rev /\ s.disabled
    BY <1>3 DEF checkGuard, GuardOf, Target
  <2> QED
    BY <1>1, <2>1 DEF RevisionsMeanWhatTheySay, RecordsBound, Bound, AuthorFlag
<1> QED
  BY <1>2, <1>3 DEF BeforeSave

\* A change goes on to its save only over the write it is entitled to undo.
LEMMA SaveEntitled ==
  ASSUME TypeOK, RevisionsMeanWhatTheySay, NEW w \in Workers, half[w] # NoHalf,
         pc[w] \in BeforeSave, NEW s \in Snaps, s.disabled = half[w].disabled,
         Usable(s) => s.rev = file.rev, Usable(s), checkGuard(w, pc[w], s),
         s.disabled # Target(pc[w])
  PROVE  Knows(SaveOf[pc[w]], s, ev[w])
<1>0. file.disabled = s.disabled
  BY DEF RevisionsMeanWhatTheySay, WindowStill
<1>1. CASE pc[w] = "enable"
  <2>1. snap[w].rev = file.rev
    BY <1>1 DEF checkGuard, GuardOf
  <2>2. file.author = "disable"
    BY <1>1, <2>1 DEF RevisionsMeanWhatTheySay, StageKnows, Knows
  <2> QED
    BY <1>1, <2>2 DEF SaveOf, Knows
<1>2. CASE pc[w] = "redisable"
  BY <1>2 DEF SaveOf, Knows, checkGuard, GuardOf, RevisionsMeanWhatTheySay, RecordsBound, Bound
<1>3. CASE pc[w] = "disable"
  <2>1. ~s.disabled
    BY <1>3 DEF Target, Snaps
  <2>2. snap[w].rev = file.rev
    BY <1>3 DEF checkGuard, GuardOf
  <2>3. ev[w].named => IdOf[file.content] = ev[w].id
    BY <1>3, <2>2 DEF RevisionsMeanWhatTheySay, StageKnows, Knows
  <2> QED
    BY <1>0, <1>3, <2>1, <2>3 DEF SaveOf, Knows
<1> QED
  BY <1>1, <1>2, <1>3 DEF BeforeSave

\* The decision after a snapshot keeps the invariant.
LEMMA DecideKeeps ==
  ASSUME TypeOK, RevisionsMeanWhatTheySay, UNCHANGED <<file, record>>,
         NEW w \in Workers, half[w] # NoHalf, NEW s \in Snaps, Decide(w, s),
         s.content \in Contents, s.disabled = half[w].disabled, s.rev <= file.rev,
         Usable(s) => s.rev = file.rev, s.id \in {None, IdOf[file.content]}
  PROVE  RevisionsMeanWhatTheySay'
<1>0. /\ rec[w] \in Records /\ Bound(rec[w]) /\ Bound(record') /\ Bound(record)'
      /\ ev[w] \in Events /\ file \in Files /\ file' \in Files
  BY DEF TypeOK, RevisionsMeanWhatTheySay, RecordsBound, Bound
<1>a. lock = w
  BY DecideAdvances, StageFamilies DEF RevisionsMeanWhatTheySay, LockHeld
<1>b. ASSUME NEW stage \in Stages, NEW r \in Records, Advance(w, stage, r, s),
             Bound(r), Knows(stage, s, ev[w])
      PROVE  RevisionsMeanWhatTheySay'
  <2>1. CASE stage \notin Saving
    BY <1>0, <1>a, <1>b, <2>1, StillKeeps
  <2>2. CASE stage \in Saving
    <3>1. file.rev <= file'.rev /\ AuthorFlag'
      BY <1>0 DEF Files, AuthorFlag, RevisionsMeanWhatTheySay
    <3>2. \A q \in Records : Bound(q) => Bound(q)'
      BY DEF Bound
    <3>3. PICK e \in Events : e = ev[w]
      BY <1>0
    <3>4. Knows(stage, s, e)'
      BY <1>b, <3>3 DEF Knows
    <3> QED
      BY <1>0, <1>a, <1>b, <3>1, <3>2, <3>3, <3>4, AdvanceKeeps
  <2> QED
    BY <2>1, <2>2
<1>1. CASE pc[w] = "inspect" /\ Advance(w, InspectVerdict(rec[w], s), rec[w], s)
  <2>1. /\ InspectVerdict(rec[w], s) \in Stages
        /\ Knows(InspectVerdict(rec[w], s), s, ev[w])
    <3>1. InspectVerdict(rec[w], s) = "arm" => s.rev = rec[w].saveRev
      BY DEF InspectVerdict, StartVerdict, PostEnableVerdict
    <3>2. rec[w].saveRev = file.rev => file.author = "disable"
      BY <1>0 DEF Bound
    <3>3. CASE InspectVerdict(rec[w], s) = "arm"
      BY <3>1, <3>2, <3>3, StageNames DEF Knows
    <3>4. CASE InspectVerdict(rec[w], s) \in {"retire", "review", "probe"}
      BY <3>4, StageNames, NothingKnown
    <3> QED
      BY <3>3, <3>4, InspectStages
  <2> QED
    BY <1>0, <1>1, <1>b, <2>1
<1>2. CASE pc[w] = "verify" /\ Advance(w, PostEnableVerdict(rec[w], s, "record_health"), rec[w], s)
  <2>1. /\ PostEnableVerdict(rec[w], s, "record_health") \in Stages
        /\ Knows(PostEnableVerdict(rec[w], s, "record_health"), s, ev[w])
    <3>1. PostEnableVerdict(rec[w], s, "record_health") \in {"review", "retire", "record_health"}
      BY PostEnableStages
    <3> QED
      BY <3>1, StageNames DEF Knows
  <2> QED
    BY <1>0, <1>2, <1>b, <2>1
<1>3. CASE pc[w] = "failed" /\ Advance(w, PostEnableVerdict(rec[w], s, "redisable"), rec[w], s)
  <2>1. /\ PostEnableVerdict(rec[w], s, "redisable") \in Stages
        /\ Knows(PostEnableVerdict(rec[w], s, "redisable"), s, ev[w])
    <3>1. PostEnableVerdict(rec[w], s, "redisable") \in {"review", "retire", "redisable"}
      BY PostEnableStages
    <3> QED
      BY <3>1, StageNames DEF Knows
  <2> QED
    BY <1>0, <1>3, <1>b, <2>1
<1>4. CASE pc[w] = "usage" /\ Advance(w, UsageVerdict(ev[w], s), rec[w], s)
  <2>1. UsageVerdict(ev[w], s) \in Stages
    BY UsageStages, StageNames
  <2>2. Knows(UsageVerdict(ev[w], s), s, ev[w])
    <3>1. UsageVerdict(ev[w], s) = "disable" /\ ev[w].named => s.id = ev[w].id
      BY DEF UsageVerdict
    <3>2. ev[w].named => ev[w].id # None
      BY <1>0, OwnershipAssumption DEF Events
    <3>3. CASE UsageVerdict(ev[w], s) = "disable"
      BY <3>1, <3>2, <3>3 DEF Knows
    <3>4. CASE UsageVerdict(ev[w], s) = "idle"
      BY <3>4 DEF Knows
    <3> QED
      BY <3>3, <3>4, UsageStages
  <2> QED
    BY <1>0, <1>4, <1>b, <2>1, <2>2
<1>5. CASE pc[w] \in BeforeSave /\ Advance(w, BeforeVerdict(w, pc[w], s), rec[w], s)
  <2>1. BeforeVerdict(w, pc[w], s) \in Stages
    BY <1>5, BeforeStages, TableStages, StageNames
  <2>2. Knows(BeforeVerdict(w, pc[w], s), s, ev[w])
    <3>1. CASE ~Usable(s) \/ ~checkGuard(w, pc[w], s)
      <4>1. BeforeVerdict(w, pc[w], s) \in {"review", "idle"}
        BY <1>5, <3>1, TableStages DEF BeforeVerdict
      <4> QED
        BY <4>1 DEF Knows
    <3>2. CASE Usable(s) /\ checkGuard(w, pc[w], s) /\ s.disabled = Target(pc[w])
      <4>1. pc[w] = "disable"
        BY <1>5, <3>2, AlreadyThere
      <4>2. BeforeVerdict(w, pc[w], s) = "idle"
        BY <3>2, <4>1 DEF BeforeVerdict, CommitOf
      <4> QED
        BY <4>2 DEF Knows
    <3>3. CASE Usable(s) /\ checkGuard(w, pc[w], s) /\ s.disabled # Target(pc[w])
      BY <1>5, <3>3, SaveEntitled DEF BeforeVerdict
    <3> QED
      BY <3>1, <3>2, <3>3
  <2> QED
    BY <1>0, <1>5, <1>b, <2>1, <2>2
<1>c. ASSUME pc[w] \in AfterSave
      PROVE  /\ AfterVerdict(w, pc[w], s) \in Stages
             /\ Knows(AfterVerdict(w, pc[w], s), s, ev[w])
  <2>1. AfterVerdict(w, pc[w], s) \in Stages
    BY <1>c, AfterStages, TableStages, ErrorStages, StageNames DEF SnapStages
  <2>2. Knows(AfterVerdict(w, pc[w], s), s, ev[w])
    <3>1. Knows(pc[w], snap[w], ev[w])
      BY DEF RevisionsMeanWhatTheySay, StageKnows
    <3>2. Knows(CommitOf[pc[w]], s, ev[w])
      BY <1>c, <3>1 DEF Knows, CommitOf, AfterSave
    <3>3. Knows(ErrorOf[pc[w]], s, ev[w])
      BY <1>c, ErrorStages DEF Knows, SnapStages
    <3> QED
      BY <1>c, <3>2, <3>3, AfterStages
  <2> QED
    BY <2>1, <2>2
<1>6. CASE pc[w] \in {"enabled", "redisabled"} /\ Advance(w, AfterVerdict(w, pc[w], s), rec[w], s)
  BY <1>0, <1>6, <1>b, <1>c DEF AfterSave
<1>7. CASE pc[w] = "disabled" /\ Advance(w, AfterVerdict(w, pc[w], s), ClaimOf(w, s), s)
  <2>1. Bound(ClaimOf(w, s))
    <3>1. file.author = "disable"
      BY <1>7 DEF RevisionsMeanWhatTheySay, StageKnows, Knows
    <3>2. ClaimOf(w, s).saveRev = s.rev /\ ClaimOf(w, s).postRev = 0
      BY DEF ClaimOf, NoRecord
    <3>3. file.rev \in Nat /\ file.rev # 0
      BY <1>0 DEF Files, RevisionsMeanWhatTheySay, RevisionsPast
    <3> QED
      BY <3>1, <3>2, <3>3 DEF Bound
  <2>2. ClaimOf(w, s) \in Records
    BY ClaimType
  <2> QED
    BY <1>7, <1>b, <1>c, <2>1, <2>2 DEF AfterSave
<1> QED
  BY <1>1, <1>2, <1>3, <1>4, <1>5, <1>6, <1>7 DEF Decide

\* The second half of a snapshot keeps the invariant.
LEMMA HostGetRuntimeKeeps ==
  ASSUME TypeOK, RevisionsMeanWhatTheySay, NEW w \in Workers, HostGetRuntime(w)
  PROVE  RevisionsMeanWhatTheySay'
<1>1. PICK kind \in DOMAIN Runtime : Decide(w, SnapshotOf(w, kind))
  BY DEF HostGetRuntime
<1>2. half[w] # NoHalf /\ UNCHANGED <<file, record>>
  BY DEF HostGetRuntime
<1>3. SnapshotOf(w, kind) \in Snaps
  BY SnapshotType
<1>4. PICK s \in Snaps : s = SnapshotOf(w, kind)
  BY <1>3
<1>5. /\ s.content = half[w].content /\ s.content \in Contents
      /\ s.disabled = half[w].disabled
      /\ s.rev <= file.rev
      /\ Usable(s) => s.rev = file.rev
      /\ s.id \in {None, IdOf[file.content]}
  BY <1>2, <1>4, SnapshotFacts DEF RevisionsMeanWhatTheySay
<1> QED
  BY <1>1, <1>2, <1>4, <1>5, DecideKeeps

\* A save replaces what the worker was entitled to replace, under a revision
\* nobody has seen.
LEMMA HostSaveKeeps ==
  ASSUME TypeOK, RevisionsMeanWhatTheySay, NEW w \in Workers, HostSave(w)
  PROVE  RevisionsMeanWhatTheySay'
<1>1. /\ pc[w] \in Saving /\ lock = w /\ UNCHANGED record
      /\ rec[w] \in Records /\ snap[w] \in Snaps /\ ev[w] \in Events
      /\ record \in Records
      /\ Bound(rec[w]) /\ Bound(record) /\ snap[w].rev <= file.rev
  BY StageFamilies DEF HostSave, RevisionsMeanWhatTheySay, LockHeld, RecordsBound,
                       RevisionsPast, TypeOK
<1>2. CASE UNCHANGED file /\ Continue(w, ErrorOf[pc[w]])
  <2>1. Bound(record')
    BY <1>1
  <2> QED
    BY <1>1, <1>2, <2>1, ErrorStages, ContinueKeeps
<1>3. CASE Write(w) /\ \E stage \in {ErrorOf[pc[w]], AfterOf[pc[w]]} : Continue(w, stage)
  <2>1. PICK stage \in {ErrorOf[pc[w]], AfterOf[pc[w]]} : Continue(w, stage)
    BY <1>3
  <2>2. file.rev \in Nat /\ file' \in Files
    BY <1>1, <1>3, WriteType DEF TypeOK, Files, RevisionsMeanWhatTheySay
  <2>3. /\ file'.rev = file.rev + 1
        /\ file'.author = AuthorOf[pc[w]]
        /\ file'.disabled = Target(pc[w])
    BY <1>3 DEF Write
  <2>4. AuthorFlag' /\ file.rev <= file'.rev
    <3>a. /\ pc[w] = "enable_save" => AuthorOf[pc[w]] = "enable"
          /\ pc[w] \in {"redisable_save", "disable_save"} => AuthorOf[pc[w]] = "disable"
      BY DEF AuthorOf
    <3>b. /\ pc[w] = "enable_save" => Target(pc[w]) = FALSE
          /\ pc[w] \in {"redisable_save", "disable_save"} => Target(pc[w]) = TRUE
      BY DEF Target
    <3>1. pc[w] = "enable_save" => file'.author = "enable" /\ ~file'.disabled
      BY <2>3, <3>a, <3>b
    <3>2. pc[w] \in {"redisable_save", "disable_save"}
            => file'.author = "disable" /\ file'.disabled
      BY <2>3, <3>a, <3>b
    <3>3. file.rev <= file'.rev
      BY <2>2, <2>3
    <3> QED
      BY <1>1, <3>1, <3>2, <3>3 DEF AuthorFlag, Saving
  <2>5. \A q \in Records : Bound(q) => Bound(q)'
    BY <2>2, <2>3 DEF Bound, Records
  <2>6. Bound(record)'
    <3>1. PICK q \in Records : q = record
      BY <1>1
    <3>2. Bound(q)'
      BY <1>1, <2>5, <3>1
    <3> QED
      BY <1>1, <3>1, <3>2 DEF Bound
  <2>7. stage \in Stages /\ stage \notin Saving
    BY <1>1, <2>1, ErrorStages, TableStages, StageNames, StageFamilies DEF Saving
  <2>8. PICK e \in Events, r \in Records, s \in Snaps : e = ev[w] /\ r = rec[w] /\ s = snap[w]
    BY <1>1
  <2>9. Knows(stage, s, e)'
    <3>1. CASE stage = ErrorOf[pc[w]]
      BY <1>1, <3>1, ErrorStages DEF Knows
    <3>2. CASE stage = AfterOf[pc[w]]
      BY <1>1, <2>3, <3>2 DEF Knows, AfterOf, AuthorOf, Saving
    <3> QED
      BY <2>1, <3>1, <3>2
  <2>a. Advance(w, stage, r, s)
    BY <2>1, <2>8 DEF Continue
  <2> QED
    BY <1>1, <2>2, <2>4, <2>5, <2>6, <2>7, <2>8, <2>9, <2>a, AdvanceKeeps
<1> QED
  BY <1>2, <1>3 DEF HostSave

\* A probe keeps the invariant.
LEMMA ProbeKeeps ==
  ASSUME TypeOK, RevisionsMeanWhatTheySay, NEW w \in Workers, Probe(w)
  PROVE  RevisionsMeanWhatTheySay'
<1>1. /\ lock = w /\ UNCHANGED record
      /\ rec[w] \in Records /\ snap[w] \in Snaps /\ ev[w] \in Events
      /\ record \in Records /\ file \in Files
      /\ Bound(rec[w]) /\ Bound(record) /\ snap[w].rev <= file.rev
  BY StageFamilies DEF Probe, RevisionsMeanWhatTheySay, LockHeld, RecordsBound,
                       RevisionsPast, TypeOK
<1>2. CASE UNCHANGED file
  BY <1>1, <1>2, ContinueKeeps DEF Probe
<1>3. CASE /\ file.rev = rec[w].postRev
           /\ file' = [file EXCEPT !.author = "verified"]
           /\ Continue(w, "verify")
  <2>1. file' \in Files /\ file.rev <= file'.rev
    BY <1>1, <1>3 DEF Files, Authors
  <2>2. file.author \in {"enable", "verified"} /\ ~file.disabled
    BY <1>1, <1>3 DEF Bound, RevisionsMeanWhatTheySay, AuthorFlag
  <2>3. file'.rev = file.rev /\ file'.disabled = file.disabled /\ file'.author = "verified"
    BY <1>1, <1>3 DEF Files
  <2>4. AuthorFlag' /\ \A q \in Records : Bound(q) => Bound(q)'
    BY <2>2, <2>3 DEF AuthorFlag, Bound
  <2>5. Bound(record)'
    BY <1>1, <2>4 DEF Bound
  <2>6. PICK e \in Events, r \in Records, s \in Snaps : e = ev[w] /\ r = rec[w] /\ s = snap[w]
    BY <1>1
  <2>7. Advance(w, "verify", r, s) /\ Knows("verify", s, e)'
    BY <1>3, <2>6 DEF Continue, Knows
  <2>8. "verify" \in Stages \ Saving
    BY StageNames DEF Saving
  <2> QED
    BY <1>1, <2>1, <2>4, <2>5, <2>6, <2>7, <2>8, AdvanceKeeps
<1> QED
  BY <1>2, <1>3 DEF Probe

-----------------------------------------------------------------------------
(* Store updates.                                                          *)

\* The store updates keep the invariant.
LEMMA StoreKeeps ==
  ASSUME TypeOK, RevisionsMeanWhatTheySay, NEW w \in Workers,
         \/ Arm(w) \/ CommitEnable(w) \/ RecordHealthCheck(w) \/ CommitRedisable(w)
         \/ Retire(w) \/ ManualReview(w) \/ RetryLater(w) \/ Claim(w)
  PROVE  RevisionsMeanWhatTheySay'
<1>1. /\ pc[w] \in Updating /\ UNCHANGED file
      /\ rec[w] \in Records /\ snap[w] \in Snaps /\ record \in Records
      /\ Bound(rec[w]) /\ Bound(record) /\ snap[w].rev <= file.rev
      /\ file.rev \in Nat /\ file.rev # 0
      /\ Knows(pc[w], snap[w], ev[w])
  BY DEF Arm, CommitEnable, RecordHealthCheck, CommitRedisable, Retire, ManualReview,
         RetryLater, Claim, Updating, TypeOK, Files, RevisionsMeanWhatTheySay,
         RecordsBound, RevisionsPast, StageKnows
<1>2. lock = w
  BY <1>1, StageFamilies DEF RevisionsMeanWhatTheySay, LockHeld
<1>3. Bound(NoRecord) /\ Bound(ArmedRecord) /\ Bound(ReviewedRecord) /\ Bound(Backoff(rec[w]))
  BY <1>1 DEF Bound, NoRecord, ArmedRecord, ReviewedRecord, Backoff, Records
<1>4. CASE \E stage \in {"idle", "safe_error", "retire"} :
             Continue(w, stage) /\ Bound(record')
  BY <1>1, <1>2, <1>4, ContinueKeeps
<1>5. CASE UpdateFails(w, "safe_error") \/ UpdateFails(w, "idle")
  BY <1>1, <1>4, <1>5 DEF UpdateFails
<1>6. CASE Arm(w) /\ Amend(ArmedRecord)
           /\ Advance(w, IF Owned THEN "enable" ELSE "idle", ArmedRecord, snap[w])
  <2>1. /\ (IF Owned THEN "enable" ELSE "idle") \in Stages \ Saving
        /\ Knows(IF Owned THEN "enable" ELSE "idle", snap[w], ev[w])
    BY <1>1, <1>6, StageNames DEF Arm, Knows, Saving
  <2>2. ArmedRecord \in Records /\ Bound(record')
    BY <1>1, <1>3, <1>6, UpdateTypes DEF Amend
  <2> QED
    BY <1>1, <1>2, <1>3, <1>6, <2>1, <2>2, StillKeeps
<1>7. CASE CommitEnable(w) /\ Amend(EnabledRecord(w))
           /\ Advance(w, IF Owned
                         THEN PostEnableVerdict(EnabledRecord(w), snap[w], "probe")
                         ELSE "idle",
                      EnabledRecord(w), snap[w])
  <2>1. Bound(EnabledRecord(w))
    <3>1. snap[w].rev = file.rev => file.author = "enable"
      BY <1>1, <1>7 DEF CommitEnable, Knows
    <3>2. /\ EnabledRecord(w).saveRev = record.saveRev
          /\ EnabledRecord(w).postRev = snap[w].rev
      BY <1>1 DEF EnabledRecord, Records
    <3> QED
      BY <1>1, <3>1, <3>2 DEF Bound
  <2>2. EnabledRecord(w) \in Records /\ Bound(record')
    BY <1>1, <1>7, <2>1, UpdateTypes DEF Amend
  <2>3. PICK stage \in {"review", "retire", "probe", "idle"} :
          Advance(w, stage, EnabledRecord(w), snap[w])
    BY <1>7, PostEnableStages
  <2>4. stage \in Stages \ Saving /\ Knows(stage, snap[w], ev[w])
    BY <2>3, StageNames DEF Knows, Saving
  <2> QED
    BY <1>1, <1>2, <2>1, <2>2, <2>3, <2>4, StillKeeps
<1>8. CASE CommitRedisable(w) /\ Amend(RedisabledRecord(w)) /\ Continue(w, "idle")
  <2>1. snap[w].rev = file.rev => file.author = "disable"
    BY <1>1, <1>8 DEF CommitRedisable, Knows
  <2>2. RedisabledRecord(w).saveRev = snap[w].rev /\ RedisabledRecord(w).postRev = 0
    BY <1>1 DEF RedisabledRecord, Records
  <2>3. Bound(record')
    BY <1>1, <1>8, <2>1, <2>2 DEF Bound, Amend
  <2> QED
    BY <1>4, <1>8, <2>3
<1> QED
  BY <1>1, <1>3, <1>4, <1>5, <1>6, <1>7, <1>8
  DEF Arm, CommitEnable, RecordHealthCheck, CommitRedisable, Retire, ManualReview,
      RetryLater, Claim, Amend

-----------------------------------------------------------------------------
(* Steps outside the lock, and the environment.                            *)

\* A worker outside the body moves, to stay outside or to enter it.
LEMMA OutsideKeeps ==
  ASSUME TypeOK, RevisionsMeanWhatTheySay, NEW w \in Workers, pc[w] \in Unlocked,
         NEW stage \in Unlocked \cup {"inspect", "usage"},
         pc' = [pc EXCEPT ![w] = stage],
         lock' = lock \/ (lock = None /\ lock' = w),
         stage \notin Unlocked => lock = None /\ lock' = w,
         UNCHANGED <<file, half, snap>>, Bound(record'),
         \A x \in Workers : Bound(rec'[x]),
         \A x \in Workers \ {w} : ev'[x] = ev[x]
  PROVE  RevisionsMeanWhatTheySay'
<1>0. pc \in [Workers -> Stages] /\ w # None /\ None \notin Workers
  BY OwnershipAssumption DEF TypeOK
<1>1. ReadsReal' /\ RevisionsPast' /\ AuthorFlag'
  <2>1. stage \notin Saving
    BY DEF Saving, Unlocked
  <2> QED
    BY <1>0, <2>1 DEF RevisionsMeanWhatTheySay, ReadsReal, RevisionsPast, AuthorFlag
<1>2. LockHeld'
  BY <1>0 DEF RevisionsMeanWhatTheySay, LockHeld
<1>3. RecordsBound'
  BY DEF RecordsBound, Bound
<1>4. \A x \in Workers : WindowStill(x)'
  <2>1. stage \notin BeforeSave
    BY DEF BeforeSave, Unlocked
  <2> QED
    BY <1>0, <2>1 DEF RevisionsMeanWhatTheySay, WindowStill
<1>5. \A x \in Workers : StageKnows(x)'
  <2>1. \A x \in Workers \ {w} : StageKnows(x)'
    BY <1>0 DEF RevisionsMeanWhatTheySay, StageKnows, Knows
  <2>2. StageKnows(w)'
    BY <1>0 DEF StageKnows, Knows, Unlocked
  <2> QED
    BY <2>1, <2>2
<1> QED
  BY <1>1, <1>2, <1>3, <1>4, <1>5 DEF RevisionsMeanWhatTheySay

\* The steps a worker takes outside the lock keep the invariant.
LEMMA OutsideStepKeeps ==
  ASSUME TypeOK, RevisionsMeanWhatTheySay, NEW w \in Workers,
         \/ ScanPick(w) \/ ScanLock(w) \/ UsageEvent(w) \/ Resolve(w)
         \/ UsageLock(w) \/ SafeErrorRead(w) \/ SafeErrorWrite(w)
  PROVE  RevisionsMeanWhatTheySay'
<1>1. /\ Bound(record) /\ \A x \in Workers : Bound(rec[x])
      /\ file.rev \in Nat /\ file.rev # 0
      /\ record \in Records /\ rec \in [Workers -> Records] /\ ev \in [Workers -> Events]
      /\ pc[w] \in Unlocked /\ file' = file
  BY DEF RevisionsMeanWhatTheySay, RecordsBound, RevisionsPast, TypeOK, Files, Unlocked,
         ScanPick, ScanLock, UsageEvent, Resolve, UsageLock, SafeErrorRead, SafeErrorWrite
<1>2. Bound(NoRecord) /\ Bound(Backoff(record))
  BY <1>1 DEF Bound, NoRecord, Backoff, Records
<1>3. {"idle", "waiting", "resolve", "safe_error_write"} \subseteq Unlocked
  BY DEF Unlocked
<1>4. CASE ScanPick(w)
  BY <1>1, <1>3, <1>4, OutsideKeeps DEF ScanPick, workerVars
<1>5. CASE ScanLock(w)
  <2>1. CASE /\ lock' = w
             /\ pc' = [pc EXCEPT ![w] = "inspect"]
             /\ rec' = [rec EXCEPT ![w] = record]
    BY <1>1, <1>5, <2>1, OutsideKeeps DEF ScanLock
  <2>2. CASE pc' = [pc EXCEPT ![w] = "idle"] /\ UNCHANGED <<lock, rec>>
    BY <1>1, <1>3, <1>5, <2>2, OutsideKeeps DEF ScanLock
  <2> QED
    BY <1>5, <2>1, <2>2 DEF ScanLock
<1>6. CASE UsageEvent(w)
  <2>1. \A x \in Workers \ {w} : ev'[x] = ev[x]
    BY <1>1, <1>6 DEF UsageEvent
  <2> QED
    BY <1>1, <1>3, <1>6, <2>1, OutsideKeeps DEF UsageEvent
<1>7. CASE Resolve(w)
  <2>1. \A x \in Workers \ {w} : ev'[x] = ev[x]
    BY <1>1, <1>7 DEF Resolve
  <2>2. PICK stage \in {"idle", "waiting"} : pc' = [pc EXCEPT ![w] = stage]
    BY <1>7 DEF Resolve
  <2> QED
    BY <1>1, <1>3, <1>7, <2>1, <2>2, OutsideKeeps DEF Resolve
<1>8. CASE UsageLock(w)
  BY <1>1, <1>8, OutsideKeeps DEF UsageLock, workerVars
<1>9. CASE SafeErrorRead(w)
  <2>1. \A x \in Workers : Bound(rec'[x])
    BY <1>1, <1>2, <1>9 DEF SafeErrorRead
  <2>2. PICK stage \in {"idle", "safe_error_write"} : pc' = [pc EXCEPT ![w] = stage]
    BY <1>9 DEF SafeErrorRead
  <2> QED
    BY <1>1, <1>3, <1>9, <2>1, <2>2, OutsideKeeps DEF SafeErrorRead
<1>10. CASE SafeErrorWrite(w)
  <2>1. /\ \A x \in Workers : Bound(rec'[x])
        /\ Bound(record')
    BY <1>1, <1>2, <1>10 DEF SafeErrorWrite
  <2> QED
    BY <1>1, <1>3, <1>10, <2>1, OutsideKeeps DEF SafeErrorWrite
<1> QED
  BY <1>4, <1>5, <1>6, <1>7, <1>8, <1>9, <1>10

\* The operator's revision is nobody's, and the operator is outside the windows.
LEMMA UserEditKeeps ==
  ASSUME UserRaces = {}, TypeOK, RevisionsMeanWhatTheySay, UserEdit
  PROVE  RevisionsMeanWhatTheySay'
<1>1. /\ file'.rev = file.rev + 1 /\ file'.author = "user" /\ file.rev \in Nat
      /\ UNCHANGED <<record, lock, pc, rec, half, snap, ev>>
  BY DEF UserEdit, TypeOK, Files, workerVars
<1>2. \A x \in Workers : ~InBeforeWindow(x) /\ pc[x] \notin AfterSave
  BY DEF UserEdit, MayEdit
<1>3. ReadsReal' /\ LockHeld'
  BY <1>1 DEF RevisionsMeanWhatTheySay, ReadsReal, LockHeld
<1>4. RevisionsPast' /\ AuthorFlag'
  <2>1. \A x \in Workers : snap[x].rev \in Nat
    BY DEF TypeOK, Snaps
  <2> QED
    BY <1>1, <2>1 DEF RevisionsMeanWhatTheySay, RevisionsPast, AuthorFlag
<1>5. RecordsBound'
  <2>1. ASSUME NEW q \in Records, Bound(q)
        PROVE  Bound(q)'
    BY <1>1, <2>1 DEF Bound, Records
  <2>2. /\ record \in Records /\ Bound(record)
        /\ \A x \in Workers : rec[x] \in Records /\ Bound(rec[x])
    BY DEF RevisionsMeanWhatTheySay, RecordsBound, TypeOK
  <2>3. Bound(record)'
    <3>1. PICK q \in Records : q = record /\ Bound(q)
      BY <2>2
    <3>2. Bound(q)'
      BY <2>1, <3>1
    <3> QED
      BY <1>1, <3>1, <3>2 DEF Bound
  <2>4. \A x \in Workers : Bound(rec[x])'
    <3> TAKE x \in Workers
    <3>1. PICK q \in Records : q = rec[x] /\ Bound(q)
      BY <2>2
    <3>2. Bound(q)'
      BY <2>1, <3>1
    <3> QED
      BY <1>1, <3>1, <3>2 DEF Bound
  <2> QED
    BY <2>3, <2>4 DEF RecordsBound
<1>6. \A x \in Workers : WindowStill(x)'
  BY <1>1, <1>2 DEF WindowStill, InBeforeWindow
<1>7. \A x \in Workers : StageKnows(x)'
  <2> TAKE x \in Workers
  <2>1. pc[x] \notin Saving /\ pc[x] \notin AfterSave
    BY <1>2 DEF InBeforeWindow
  <2>2. snap[x].rev # file'.rev
    BY <1>1 DEF RevisionsMeanWhatTheySay, RevisionsPast, TypeOK, Snaps
  <2> QED
    BY <1>1, <2>1, <2>2 DEF StageKnows, Knows, Saving, AfterSave
<1> QED
  BY <1>3, <1>4, <1>5, <1>6, <1>7 DEF RevisionsMeanWhatTheySay

\* A crash keeps the invariant: what is on disk stays.
LEMMA CrashKeeps ==
  ASSUME TypeOK, RevisionsMeanWhatTheySay, Crash
  PROVE  RevisionsMeanWhatTheySay'
<1>1. file.rev \in Nat /\ file.rev # 0
  BY DEF RevisionsMeanWhatTheySay, RevisionsPast, TypeOK, Files
<1>2. UNCHANGED <<file, record>> /\ \A x \in Workers :
        pc'[x] = "idle" /\ rec'[x] = NoRecord /\ half'[x] = NoHalf /\ snap'[x] = NoSnap
  BY DEF Crash
<1>3. NoSnap.rev = 0 /\ NoRecord.saveRev = 0 /\ NoRecord.postRev = 0
  BY DEF NoSnap, NoRecord
<1>4. ReadsReal' /\ LockHeld' /\ AuthorFlag'
  BY <1>2 DEF RevisionsMeanWhatTheySay, ReadsReal, LockHeld, AuthorFlag, Saving, Unlocked
<1>5. RevisionsPast' /\ RecordsBound'
  BY <1>1, <1>2, <1>3 DEF RevisionsMeanWhatTheySay, RevisionsPast, RecordsBound, Bound
<1>6. \A x \in Workers : WindowStill(x)' /\ StageKnows(x)'
  BY <1>2 DEF WindowStill, BeforeSave, StageKnows, Knows
<1> QED
  BY <1>4, <1>5, <1>6 DEF RevisionsMeanWhatTheySay

\* The end of a wait keeps the invariant.
LEMMA ElapseKeeps ==
  ASSUME RevisionsMeanWhatTheySay, Elapse \/ UNCHANGED vars, TypeOK
  PROVE  RevisionsMeanWhatTheySay'
<1>1. /\ UNCHANGED <<file, lock, pc, rec, half, snap, ev>>
      /\ record'.saveRev = record.saveRev /\ record'.postRev = record.postRev
  BY DEF Elapse, vars, workerVars, TypeOK, Records
<1> QED
  BY <1>1 DEF RevisionsMeanWhatTheySay, ReadsReal, LockHeld, RevisionsPast, AuthorFlag,
              RecordsBound, Bound, WindowStill, StageKnows, Knows

-----------------------------------------------------------------------------
(* The invariant and what follows from it.                                 *)

\* The invariant holds at the start.
LEMMA RevisionsInit == Init => RevisionsMeanWhatTheySay
<1> SUFFICES ASSUME Init PROVE RevisionsMeanWhatTheySay
  OBVIOUS
<1>1. /\ file.rev = 1 /\ file.author = "user"
      /\ record = NoRecord /\ \A w \in Workers :
           pc[w] = "idle" /\ rec[w] = NoRecord /\ half[w] = NoHalf /\ snap[w] = NoSnap
  BY DEF Init
<1>2. NoSnap.rev = 0 /\ NoRecord.saveRev = 0 /\ NoRecord.postRev = 0
  BY DEF NoSnap, NoRecord
<1>3. ReadsReal /\ LockHeld /\ AuthorFlag
  BY <1>1 DEF ReadsReal, LockHeld, AuthorFlag, Saving, Unlocked
<1>4. RevisionsPast /\ RecordsBound
  BY <1>1, <1>2 DEF RevisionsPast, RecordsBound, Bound
<1>5. \A w \in Workers : WindowStill(w) /\ StageKnows(w)
  BY <1>1 DEF WindowStill, BeforeSave, StageKnows, Knows
<1> QED
  BY <1>3, <1>4, <1>5 DEF RevisionsMeanWhatTheySay

\* The invariant is inductive when nobody edits inside a save window.
LEMMA RevisionsStep ==
  ASSUME UserRaces = {}, TypeOK, RevisionsMeanWhatTheySay, [Next]_vars
  PROVE  RevisionsMeanWhatTheySay'
<1>1. ASSUME NEW w \in Workers, Step(w) \/ ScanPick(w) \/ UsageEvent(w)
      PROVE  RevisionsMeanWhatTheySay'
  BY <1>1, HostGetKeeps, HostGetRuntimeKeeps, HostSaveKeeps, ProbeKeeps, StoreKeeps,
     OutsideStepKeeps DEF Step
<1> QED
  BY <1>1, UserEditKeeps, CrashKeeps, ElapseKeeps DEF Next

\* With no edit inside a save window, every revision a record or a worker relies
\* on stands for the write it is believed to stand for.
THEOREM RevisionsCorrect ==
  ASSUME UserRaces = {}
  PROVE  Spec => []RevisionsMeanWhatTheySay
<1>1. TypeOK /\ RevisionsMeanWhatTheySay /\ [Next]_vars => RevisionsMeanWhatTheySay'
  BY RevisionsStep
<1> QED
  BY <1>1, RevisionsInit, TypeCorrect, PTL DEF Spec

\* The plugin enables a credential only over its own disable.
THEOREM EnablesOwnDisables ==
  ASSUME UserRaces = {}
  PROVE  Spec => EnableOnlyOwnDisable
<1>1. RevisionsMeanWhatTheySay =>
        \A w \in Workers :
          Writes(w) /\ pc[w] = "enable_save" => file.author = "disable"
  BY DEF RevisionsMeanWhatTheySay, StageKnows, Knows
<1> QED
  BY <1>1, RevisionsCorrect, PTL DEF EnableOnlyOwnDisable

\* The plugin disables after a failed probe only over its own enable.
THEOREM RedisablesOwnEnables ==
  ASSUME UserRaces = {}
  PROVE  Spec => RedisableOnlyOwnEnable
<1>1. RevisionsMeanWhatTheySay =>
        \A w \in Workers :
          Writes(w) /\ pc[w] = "redisable_save"
            => file.author \in {"enable", "verified"}
  BY DEF RevisionsMeanWhatTheySay, StageKnows, Knows
<1> QED
  BY <1>1, RevisionsCorrect, PTL DEF RedisableOnlyOwnEnable

\* A usage event disables no credential but the one it names, and only an
\* enabled one.
THEOREM DisablesNamedIdentities ==
  ASSUME UserRaces = {}
  PROVE  Spec => DisableOnlyNamedIdentity
<1>1. RevisionsMeanWhatTheySay =>
        \A w \in Workers :
          Writes(w) /\ pc[w] = "disable_save" /\ ev[w].named
            => IdOf[file.content] = ev[w].id /\ ~file.disabled
  BY DEF RevisionsMeanWhatTheySay, StageKnows, Knows
<1> QED
  BY <1>1, RevisionsCorrect, PTL DEF DisableOnlyNamedIdentity

=============================================================================
