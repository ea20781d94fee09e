------------------------ MODULE OwnershipTrackProofs ------------------------
(***************************************************************************)
(* The record follows the credential: AttemptTracked, on a host whose      *)
(* runtime entries have ids, and DisableTrackedUntilFault, for an operator *)
(* who makes no edit inside a save window.  With that, what the plugin     *)
(* does to the flag implements Custody.                                    *)
(***************************************************************************)
EXTENDS OwnershipProofs

-----------------------------------------------------------------------------
(* What has been read is true.                                             *)

\* Reads stay true when the holder of the lock goes on to a stage that is no
\* save, or a save of what is there.
LEMMA AdvanceReadsTrue ==
  ASSUME TypeOK, LockHeld, ReadsTrue, NEW w \in Workers, lock = w,
         NEW stage \in Stages, NEW r, NEW s \in Snaps, Advance(w, stage, r, s),
         stage \in Saving => s.content = file'.content,
         stage \in AfterSave => s.rev < file'.rev
  PROVE  ReadsTrue'
<1>1. \A x \in Workers \ {w} : pc[x] \in Unlocked
  BY OthersOutside
<1>2. \A x \in Workers \ {w} :
        /\ pc'[x] = pc[x] /\ half'[x] = half[x]
        /\ pc[x] \notin SnapStages /\ pc[x] \notin Saving /\ pc[x] \notin AfterSave
  BY <1>1, StageFamilies DEF Advance, TypeOK, SnapStages
<1>3. pc'[w] = stage /\ half'[w] = NoHalf
      /\ (stage \notin Unlocked => snap'[w] = s)
  BY DEF Advance, TypeOK
<1>4. stage \in Saving \cup AfterSave => stage \notin Unlocked
  BY DEF Saving, AfterSave, Unlocked
<1> QED
  BY <1>2, <1>3, <1>4 DEF ReadsTrue

\* They stay true when nobody reads, saves, or writes the file.
LEMMA ElsewhereReadsTrue ==
  ASSUME TypeOK, ReadsTrue, UNCHANGED <<file, half, snap>>,
         \A x \in Workers : \/ pc'[x] = pc[x]
                            \/ /\ pc[x] \notin SnapStages
                               /\ pc'[x] \notin Saving \cup AfterSave
  PROVE  ReadsTrue'
BY DEF ReadsTrue

\* No step of a worker makes them false.
LEMMA StepReadsTrue ==
  ASSUME TypeOK, RevisionsMeanWhatTheySay, ReadsTrue, NEW w \in Workers,
         Step(w) \/ ScanPick(w) \/ UsageEvent(w)
  PROVE  ReadsTrue'
<1>0. /\ TypeOK /\ LockHeld /\ pc[w] \in Stages /\ rec[w] \in Records /\ snap[w] \in Snaps
      /\ half \in [Workers -> Halves] /\ file.rev \in Nat /\ snap[w].rev \in Nat
      /\ snap[w].rev <= file.rev
  BY DEF TypeOK, Files, Snaps, RevisionsMeanWhatTheySay, RevisionsPast
<1>a. ASSUME NEW stage \in Stages \ (Saving \cup AfterSave), pc[w] \notin Unlocked,
             NEW r, NEW s \in Snaps, Advance(w, stage, r, s)
      PROVE  ReadsTrue'
  BY <1>0, <1>a, AdvanceReadsTrue DEF LockHeld
<1>b. ASSUME NEW stage \in {"idle", "safe_error", "retire", "review", "backoff",
                            "verify", "failed"},
             pc[w] \notin Unlocked, Continue(w, stage)
      PROVE  ReadsTrue'
  <2>1. stage \in Stages \ (Saving \cup AfterSave)
    BY StageNames DEF Saving, AfterSave
  <2> QED
    BY <1>0, <1>a, <1>b, <2>1 DEF Continue
<1>1. CASE HostGet(w)
  <2>1. pc[w] \in SnapStages /\ pc[w] \notin Unlocked
    BY <1>1, StageFamilies DEF HostGet
  <2>2. CASE /\ half' = [half EXCEPT ![w] =
                         [content |-> file.content, disabled |-> file.disabled]]
             /\ UNCHANGED <<pc, snap>>
    BY <1>0, <1>1, <2>1, <2>2 DEF HostGet, ReadsTrue
  <2>3. CASE Continue(w, ErrorOf[pc[w]])
    BY <1>b, <2>1, <2>3, ErrorStages
  <2> QED
    BY <1>1, <2>2, <2>3 DEF HostGet
<1>2. CASE HostGetRuntime(w)
  <2>1. PICK kind \in DOMAIN Runtime : Decide(w, SnapshotOf(w, kind))
    BY <1>2 DEF HostGetRuntime
  <2>2. half[w] # NoHalf /\ UNCHANGED file /\ pc[w] \in SnapStages /\ pc[w] \notin Unlocked
    BY <1>2, StageFamilies DEF HostGetRuntime, ReadsTrue
  <2>3. PICK s \in Snaps : s = SnapshotOf(w, kind)
    BY SnapshotType
  <2>4. s.content = half[w].content
    BY <2>3 DEF SnapshotOf
  <2>5. CASE pc[w] \in BeforeSave
    <3>1. Advance(w, BeforeVerdict(w, pc[w], s), rec[w], s)
      BY <2>1, <2>3, <2>5 DEF Decide, BeforeSave
    <3>2. s.content = file'.content
      BY <2>2, <2>4, <2>5 DEF RevisionsMeanWhatTheySay, WindowStill
    <3>3. BeforeVerdict(w, pc[w], s) \in Stages
      BY <2>5, BeforeStages, TableStages, StageNames
    <3>4. BeforeVerdict(w, pc[w], s) \notin AfterSave
      BY <2>5, BeforeStages, TableStages DEF AfterSave, Saving
    <3> QED
      BY <1>0, <2>2, <3>1, <3>2, <3>3, <3>4, AdvanceReadsTrue DEF LockHeld
  <2>6. CASE pc[w] \notin BeforeSave
    <3>1. PICK stage \in {"retire", "review", "arm", "probe", "record_health", "redisable",
                          "idle", "disable", "safe_error", "backoff", "commit_enable",
                          "commit_redisable", "claim"} :
            \E r : Advance(w, stage, r, s)
      <4>1. pc[w] \in AfterSave =>
              AfterVerdict(w, pc[w], s) \in {"safe_error", "idle", "backoff", "review",
                                             "commit_enable", "commit_redisable", "claim"}
        BY AfterStages, ErrorStages, TableStages DEF SnapStages
      <4> QED
        BY <2>1, <2>3, <2>6, <4>1, InspectStages, PostEnableStages, UsageStages
           DEF Decide, AfterSave
    <3>2. stage \in Stages \ (Saving \cup AfterSave)
      BY StageNames DEF Saving, AfterSave
    <3> QED
      BY <1>a, <2>2, <3>1, <3>2
  <2> QED
    BY <2>5, <2>6
<1>3. CASE HostSave(w)
  <2>1. pc[w] \in Saving /\ pc[w] \notin Unlocked /\ pc[w] \in SnapStages \cup Saving
    BY <1>3, StageFamilies DEF HostSave
  <2>2. CASE Continue(w, ErrorOf[pc[w]])
    BY <1>b, <2>1, <2>2, ErrorStages
  <2>3. CASE Write(w) /\ Continue(w, AfterOf[pc[w]])
    <3>1. AfterOf[pc[w]] \in Stages /\ AfterOf[pc[w]] \notin Saving
      BY <2>1, TableStages, StageNames DEF Saving, AfterSave
    <3>2. snap[w].rev < file'.rev
      BY <1>0, <2>3 DEF Write
    <3> QED
      BY <1>0, <2>1, <2>3, <3>1, <3>2, AdvanceReadsTrue DEF Continue, LockHeld
  <2> QED
    BY <1>3, <2>2, <2>3 DEF HostSave
<1>4. CASE Probe(w)
  BY <1>b, <1>4 DEF Probe, Unlocked
<1>5. CASE \/ Arm(w) \/ CommitEnable(w) \/ RecordHealthCheck(w) \/ CommitRedisable(w)
           \/ Retire(w) \/ ManualReview(w) \/ RetryLater(w) \/ Claim(w)
  <2>1. pc[w] \notin Unlocked
    BY <1>5 DEF Arm, CommitEnable, RecordHealthCheck, CommitRedisable, Retire,
                ManualReview, RetryLater, Claim, Unlocked
  <2>2. CASE \E stage \in {"idle", "safe_error", "retire"} : Continue(w, stage)
    BY <1>b, <2>1, <2>2
  <2>3. CASE \E stage \in {"enable", "idle", "review", "retire", "probe"} :
               \E r : Advance(w, stage, r, snap[w])
    <3>1. {"enable", "idle", "review", "retire", "probe"} \subseteq Stages \ (Saving \cup AfterSave)
      BY StageNames DEF Saving, AfterSave
    <3> QED
      BY <1>0, <1>a, <2>1, <2>3, <3>1
  <2> QED
    BY <1>5, <2>2, <2>3, PostEnableStages
       DEF Arm, CommitEnable, RecordHealthCheck, CommitRedisable, Retire, ManualReview,
           RetryLater, Claim, UpdateFails
<1>6. CASE \/ ScanPick(w) \/ ScanLock(w) \/ UsageEvent(w) \/ Resolve(w)
           \/ UsageLock(w) \/ SafeErrorRead(w) \/ SafeErrorWrite(w)
  <2>1. pc[w] \in Unlocked /\ UNCHANGED <<file, half, snap>>
    BY <1>6 DEF ScanPick, ScanLock, UsageEvent, Resolve, UsageLock, SafeErrorRead,
                SafeErrorWrite, Unlocked, workerVars
  <2>2. PICK stage \in {"idle", "waiting", "resolve", "inspect", "usage", "safe_error_write"} :
          pc' = [pc EXCEPT ![w] = stage]
    BY <1>6 DEF ScanPick, ScanLock, UsageEvent, Resolve, UsageLock, SafeErrorRead,
                SafeErrorWrite
  <2>3. stage \notin Saving \cup AfterSave
    BY DEF Saving, AfterSave
  <2>4. pc[w] \notin SnapStages
    BY <2>1, StageFamilies
  <2> QED
    BY <2>1, <2>2, <2>3, <2>4, ElsewhereReadsTrue DEF TypeOK
<1> QED
  BY <1>1, <1>2, <1>3, <1>4, <1>5, <1>6 DEF Step

\* Nor does the environment.
LEMMA ReadsTrueStep ==
  ASSUME UserRaces = {}, TypeOK, RevisionsMeanWhatTheySay, ReadsTrue, [Next]_vars
  PROVE  ReadsTrue'
<1>1. CASE UserEdit
  <2>1. /\ file'.author = "user" /\ file'.rev = file.rev + 1
        /\ UNCHANGED <<pc, half, snap>>
    BY <1>1 DEF UserEdit, workerVars
  <2>2. \A x \in Workers : pc[x] \notin Saving /\ pc[x] \notin AfterSave
    BY <1>1 DEF UserEdit, MayEdit, InBeforeWindow
  <2> QED
    BY <2>1, <2>2 DEF ReadsTrue
<1>2. CASE Crash
  BY <1>2 DEF Crash, ReadsTrue, Saving, AfterSave
<1>3. CASE Elapse \/ UNCHANGED vars
  BY <1>3, ElsewhereReadsTrue DEF Elapse, vars, workerVars
<1> QED
  BY <1>1, <1>2, <1>3, StepReadsTrue DEF Next

-----------------------------------------------------------------------------
(* The record tracks an enable.                                            *)

\* A copy that is written back keeps if neither it nor what it is compared with
\* changes.
LEMMA WriterStill ==
  ASSUME NEW x \in Workers, WriterKeeps(x), UNCHANGED file,
         rec'[x] = rec[x], pc'[x] = pc[x], same'[x] => same[x],
         Owned' => Owned /\ record'.id = record.id
  PROVE  WriterKeeps(x)'
BY DEF WriterKeeps, Tracks, Fits

\* Outside the body a worker at no stage bears on the record.
LEMMA AttemptOutside ==
  ASSUME NEW stage \in Unlocked \cup {"usage"}, NEW r, NEW s
  PROVE  AttemptAt(stage, r, s) /\ AttemptAt(stage, r, s)'
BY DEF AttemptAt, Unlocked, NotEnabled, Copied

\* The holder of the lock goes on to a stage: the invariant survives if the stage,
\* the record and the copies of failed scans keep what they are to keep.
LEMMA AdvanceAttempt ==
  ASSUME TypeOK, LockHeld, NEW w \in Workers, lock = w,
         NEW stage \in Stages \ {"safe_error_write"}, NEW r \in Records,
         NEW s \in Snaps, Advance(w, stage, r, s),
         (file.author = "enable" => Tracks(record))',
         \A x \in Workers \ {w} : WriterKeeps(x)',
         AttemptAt(stage, r, s)'
  PROVE  AttemptFollowed'
<1>1. \A x \in Workers \ {w} : pc[x] \in Unlocked /\ pc'[x] = pc[x]
  BY OthersOutside DEF Advance, TypeOK
<1>2. ASSUME NEW x \in Workers \ {w}
      PROVE  AttemptAt(pc[x], rec[x], snap[x])'
  BY <1>1, AttemptOutside DEF AttemptAt, Unlocked, NotEnabled, Copied
<1>3. pc'[w] = stage /\ (stage \notin Unlocked => rec'[w] = r /\ snap'[w] = s)
  BY DEF Advance, TypeOK
<1>4. AttemptAt(pc[w], rec[w], snap[w])'
  <2>1. CASE stage \in Unlocked
    BY <1>3, <2>1 DEF AttemptAt, Unlocked, NotEnabled, Copied
  <2>2. CASE stage \notin Unlocked
    BY <1>3, <2>2 DEF AttemptAt, NobodyWrites
  <2> QED
    BY <2>1, <2>2
<1>5. WriterKeeps(w)'
  BY <1>3 DEF WriterKeeps
<1> QED
  BY <1>2, <1>4, <1>5 DEF AttemptFollowed

\* The usual case: neither the file nor the record changes.
LEMMA StillAttempt ==
  ASSUME TypeOK, LockHeld, AttemptFollowed, UNCHANGED <<file, record, same>>,
         NEW w \in Workers, lock = w,
         NEW stage \in Stages \ {"safe_error_write"}, NEW r \in Records,
         NEW s \in Snaps, Advance(w, stage, r, s), AttemptAt(stage, r, s)
  PROVE  AttemptFollowed'
<1>1. (file.author = "enable" => Tracks(record))'
  BY DEF AttemptFollowed, Tracks, Fits
<1>2. \A x \in Workers \ {w} : pc'[x] = pc[x] /\ rec'[x] = rec[x]
  BY DEF Advance, TypeOK
<1>3. \A x \in Workers \ {w} : WriterKeeps(x)'
  BY <1>2, WriterStill DEF AttemptFollowed, Owned
<1>4. pc'[w] = stage
  BY DEF Advance, TypeOK
<1>5. AttemptAt(stage, r, s)'
  <2>1. NobodyWrites /\ stage \in {"enable", "enable_save"} => NobodyWrites'
    BY <1>2, <1>4 DEF NobodyWrites
  <2> QED
    BY <2>1 DEF AttemptAt, Tracks, Fits, Owned
<1> QED
  BY <1>1, <1>3, <1>5, AdvanceAttempt

\* An error leads to a stage that keeps the record.
LEMMA ErrorAttempt ==
  ASSUME NEW stage \in {"safe_error", "idle", "review"}, NEW r, NEW s
  PROVE  AttemptAt(stage, r, s) /\ AttemptAt(stage, r, s)'
BY DEF AttemptAt, NotEnabled, Copied

\* So does the retreat of a change that enables: a scan tries again later.
LEMMA BackoffAttempt ==
  ASSUME TypeOK, RevisionsMeanWhatTheySay, NEW w \in Workers,
         pc[w] \in {"enable", "enable_save", "enabled"},
         AttemptAt(pc[w], rec[w], snap[w])
  PROVE  AttemptAt("backoff", rec[w], snap[w])
BY DEF AttemptAt, NotEnabled, Copied

\* The first host call of a snapshot keeps the attempt.
LEMMA HostGetAttempt ==
  ASSUME TypeOK, RevisionsMeanWhatTheySay, AttemptFollowed, NEW w \in Workers, HostGet(w)
  PROVE  AttemptFollowed'
<1>1. lock = w /\ UNCHANGED <<file, record, same>> /\ pc[w] \in SnapStages
      /\ rec[w] \in Records /\ snap[w] \in Snaps
  BY StageFamilies DEF HostGet, RevisionsMeanWhatTheySay, LockHeld, TypeOK
<1>2. CASE UNCHANGED <<lock, pc, rec, snap, ev, faults>>
  BY <1>1, <1>2 DEF AttemptFollowed, AttemptAt, WriterKeeps, NobodyWrites, Tracks, Fits, Owned
<1>3. CASE Continue(w, ErrorOf[pc[w]])
  <2>1. AttemptAt(ErrorOf[pc[w]], rec[w], snap[w])
    <3>1. ErrorOf[pc[w]] = "backoff" => pc[w] \in {"enable", "enabled"}
      BY <1>1 DEF SnapStages, BeforeSave, AfterSave, Looking, ErrorOf
    <3>2. ErrorOf[pc[w]] \in {"safe_error", "idle", "backoff", "review"}
      BY <1>1, ErrorStages
    <3> QED
      BY <3>1, <3>2, ErrorAttempt, BackoffAttempt DEF AttemptFollowed
  <2>2. ErrorOf[pc[w]] \in Stages \ {"safe_error_write"}
    BY <1>1, ErrorStages, StageNames
  <2> QED
    BY <1>1, <1>3, <2>1, <2>2, StillAttempt DEF Continue, RevisionsMeanWhatTheySay
<1> QED
  BY <1>2, <1>3 DEF HostGet

\* What a complete snapshot shows of a credential whose entry has an id.
Shows(w, s) ==
  /\ s.content = half[w].content /\ s.disabled = half[w].disabled
  /\ s.rev <= file.rev
  /\ Usable(s) => s.rev = file.rev /\ s.id = IdOf[file.content]
  /\ s.ok => s.id = IdOf[file.content]
  /\ s.id \in {None, IdOf[file.content]}

\* An enabled credential passes the checks before and after the probe, unless
\* they cannot tell.
LEMMA EnabledPasses ==
  ASSUME TypeOK, RevisionsMeanWhatTheySay, ReadsTrue, NEW w \in Workers,
         half[w] # NoHalf, NEW s \in Snaps, Shows(w, s), file.author = "enable",
         NEW r \in Records, Tracks(r), r.phase = "probe_pending", NEW onward
  PROVE  PostEnableVerdict(r, s, onward) \in {"review", onward}
<1>1. s.content = file.content /\ ~s.disabled
  BY DEF ReadsTrue, Shows, RevisionsMeanWhatTheySay, AuthorFlag
<1>2. Usable(s) => guardMatchesPostEnable(r, s)
  BY <1>1 DEF Shows, Tracks, Fits, guardMatchesPostEnable
<1> QED
  BY <1>1, <1>2 DEF PostEnableVerdict

\* A scan that finds an enabled credential goes on with it or hands it over; one
\* that is about to enable found it disabled, of the identity the record names.
LEMMA InspectAttempt ==
  ASSUME TypeOK, RevisionsMeanWhatTheySay, ReadsTrue, NEW w \in Workers,
         pc[w] = "inspect", half[w] # NoHalf, NEW s \in Snaps, Shows(w, s),
         AttemptAt(pc[w], rec[w], snap[w])
  PROVE  AttemptAt(InspectVerdict(rec[w], s), rec[w], s)
<1>0. rec[w] \in Records /\ Bound(rec[w]) /\ IdOf[file.content] # None
  BY OwnershipAssumption DEF TypeOK, Files, RevisionsMeanWhatTheySay, RecordsBound
<1>1. CASE InspectVerdict(rec[w], s) = "review"
  BY <1>1, ErrorAttempt
<1>2. CASE InspectVerdict(rec[w], s) = "retire"
  <2>1. ASSUME file.author = "enable" PROVE FALSE
    <3>1. Tracks(rec[w]) /\ rec[w].phase # "manual_review"
      BY <2>1 DEF AttemptAt
    <3>2. ~s.disabled
      BY <2>1 DEF ReadsTrue, Shows, RevisionsMeanWhatTheySay, AuthorFlag
    <3>3. ~(rec[w].id # None /\ s.id # None /\ s.id # rec[w].id)
      BY <3>1 DEF Tracks, Fits, Shows
    <3>4. CASE rec[w].phase = "probe_pending"
      <4>1. PostEnableVerdict(rec[w], s, "probe") \in {"review", "probe"}
        BY <1>0, <2>1, <3>1, <3>4, EnabledPasses
      <4> QED
        BY <1>2, <3>3, <3>4, <4>1 DEF InspectVerdict
    <3>5. CASE rec[w].phase = "restore_pending"
      BY <1>2, <3>2, <3>3, <3>5 DEF InspectVerdict
    <3> QED
      BY <3>1, <3>4, <3>5 DEF Tracks
  <2> QED
    BY <1>2, <2>1 DEF AttemptAt, Copied
<1>3. CASE InspectVerdict(rec[w], s) = "arm"
  <2>1. Usable(s) /\ s.rev = rec[w].saveRev
    BY <1>3 DEF InspectVerdict, StartVerdict, PostEnableVerdict
  <2>2. file.author = "disable"
    BY <1>0, <2>1 DEF Shows, Bound
  <2>3. Fits(rec[w])
    BY <1>0, <1>3, <2>1 DEF InspectVerdict, Fits, Shows
  <2> QED
    BY <1>3, <2>2, <2>3 DEF AttemptAt, Copied
<1>4. CASE InspectVerdict(rec[w], s) = "probe"
  <2>1. rec[w].phase = "probe_pending"
    BY <1>4 DEF InspectVerdict, StartVerdict
  <2> QED
    BY <1>4, <2>1 DEF AttemptAt, NotEnabled, Copied
<1> QED
  BY <1>1, <1>2, <1>3, <1>4, InspectStages

\* The decision after a snapshot keeps the attempt.
LEMMA DecideAttempt ==
  ASSUME TypeOK, RevisionsMeanWhatTheySay, ReadsTrue, AttemptFollowed,
         UNCHANGED <<file, record, same>>, NEW w \in Workers, half[w] # NoHalf,
         NEW s \in Snaps, Decide(w, s), Shows(w, s)
  PROVE  AttemptFollowed'
<1>0. /\ rec[w] \in Records /\ snap[w] \in Snaps /\ Bound(rec[w])
      /\ AttemptAt(pc[w], rec[w], snap[w]) /\ Knows(pc[w], snap[w], ev[w])
      /\ pc[w] \in SnapStages
  BY DEF TypeOK, RevisionsMeanWhatTheySay, RecordsBound, AttemptFollowed, StageKnows, ReadsTrue
<1>a. lock = w /\ LockHeld
  BY <1>0, StageFamilies DEF RevisionsMeanWhatTheySay, LockHeld
<1>b. file.author # "user" => s.content = file.content /\ s.disabled = file.disabled
  BY DEF ReadsTrue, Shows
<1>c. ASSUME NEW stage \in Stages \ {"safe_error_write"}, NEW r \in Records,
             Advance(w, stage, r, s), AttemptAt(stage, r, s)
      PROVE  AttemptFollowed'
  BY <1>a, <1>c, StillAttempt
<1>1. CASE pc[w] = "inspect" /\ Advance(w, InspectVerdict(rec[w], s), rec[w], s)
  <2>1. InspectVerdict(rec[w], s) \in Stages \ {"safe_error_write"}
    BY InspectStages, StageNames
  <2> QED
    BY <1>0, <1>1, <1>c, <2>1, InspectAttempt
<1>2. CASE pc[w] = "verify" /\ Advance(w, PostEnableVerdict(rec[w], s, "record_health"), rec[w], s)
  <2>1. PICK stage \in {"review", "retire", "record_health"} : Advance(w, stage, rec[w], s)
    BY <1>2, PostEnableStages
  <2>2. AttemptAt(stage, rec[w], s)
    BY <1>0, <1>2 DEF AttemptAt, NotEnabled, Copied
  <2> QED
    BY <1>0, <1>c, <2>1, <2>2, StageNames
<1>3. CASE pc[w] = "failed" /\ Advance(w, PostEnableVerdict(rec[w], s, "redisable"), rec[w], s)
  <2>1. PostEnableVerdict(rec[w], s, "redisable") \in {"review", "retire", "redisable"}
    BY PostEnableStages
  <2>2. AttemptAt(PostEnableVerdict(rec[w], s, "redisable"), rec[w], s)
    <3>1. file.author = "enable" => PostEnableVerdict(rec[w], s, "redisable") # "retire"
      BY <1>0, <1>3, EnabledPasses DEF AttemptAt
    <3> QED
      BY <2>1, <3>1 DEF AttemptAt, NotEnabled, Copied
  <2> QED
    BY <1>0, <1>3, <1>c, <2>1, <2>2, StageNames
<1>4. CASE pc[w] = "usage" /\ Advance(w, UsageVerdict(ev[w], s), rec[w], s)
  <2>1. UsageVerdict(ev[w], s) \in {"idle", "disable"}
    BY UsageStages
  <2>2. UsageVerdict(ev[w], s) = "disable" => file.author # "enable"
    BY DEF UsageVerdict, AttemptFollowed, Tracks, Owned
  <2>3. AttemptAt(UsageVerdict(ev[w], s), rec[w], s)
    BY <2>1, <2>2 DEF AttemptAt, NotEnabled, Copied
  <2> QED
    BY <1>0, <1>4, <1>c, <2>1, <2>3, StageNames
<1>5. CASE pc[w] \in BeforeSave /\ Advance(w, BeforeVerdict(w, pc[w], s), rec[w], s)
  <2>1. /\ BeforeVerdict(w, pc[w], s) \in Stages
        /\ BeforeVerdict(w, pc[w], s) # "safe_error_write"
    BY <1>5, BeforeStages, TableStages, StageNames DEF Saving
  <2>2. AttemptAt(BeforeVerdict(w, pc[w], s), rec[w], s)
    <3>1. CASE ~Usable(s) \/ ~checkGuard(w, pc[w], s)
      <4>1. BeforeVerdict(w, pc[w], s) \in {"review", "idle"}
        BY <1>5, <3>1, TableStages DEF BeforeVerdict
      <4> QED
        BY <4>1, ErrorAttempt
    <3>2. CASE Usable(s) /\ checkGuard(w, pc[w], s) /\ s.disabled = Target(pc[w])
      <4>1. pc[w] = "disable"
        BY <1>5, <3>2, AlreadyThere DEF Shows
      <4>2. BeforeVerdict(w, pc[w], s) = "idle"
        BY <3>2, <4>1 DEF BeforeVerdict, CommitOf
      <4> QED
        BY <4>2, ErrorAttempt
    <3>3. CASE Usable(s) /\ checkGuard(w, pc[w], s) /\ s.disabled # Target(pc[w])
      <4>1. BeforeVerdict(w, pc[w], s) = SaveOf[pc[w]]
        BY <3>3 DEF BeforeVerdict
      <4>2. CASE pc[w] = "enable"
        <5>1. SaveOf[pc[w]] = "enable_save"
          BY <4>2 DEF SaveOf
        <5> QED
          BY <1>0, <4>1, <4>2, <5>1 DEF AttemptAt, NotEnabled, Copied
      <4>3. CASE pc[w] = "redisable"
        <5>1. SaveOf[pc[w]] = "redisable_save"
          BY <4>3 DEF SaveOf
        <5> QED
          BY <4>1, <5>1 DEF AttemptAt, NotEnabled, Copied
      <4>4. CASE pc[w] = "disable"
        <5>1. SaveOf[pc[w]] = "disable_save"
          BY <4>4 DEF SaveOf
        <5> QED
          BY <1>0, <4>1, <4>4, <5>1 DEF AttemptAt, NotEnabled, Copied
      <4> QED
        BY <1>5, <4>2, <4>3, <4>4 DEF BeforeSave
    <3> QED
      BY <3>1, <3>2, <3>3
  <2> QED
    BY <1>0, <1>5, <1>c, <2>1, <2>2
<1>6. CASE pc[w] = "enabled" /\ Advance(w, AfterVerdict(w, pc[w], s), rec[w], s)
  <2>1. AfterVerdict(w, pc[w], s) \in {"backoff", "commit_enable"}
    BY <1>6 DEF AfterVerdict, ErrorOf, CommitOf
  <2>2. AfterVerdict(w, pc[w], s) = "commit_enable" => Usable(s) /\ ~s.disabled
    BY <1>6 DEF AfterVerdict, ErrorOf, CommitOf, Target, Snaps
  <2>3. AttemptAt(AfterVerdict(w, pc[w], s), rec[w], s)
    <3>1. CASE AfterVerdict(w, pc[w], s) = "backoff"
      BY <1>0, <1>6, <3>1 DEF AttemptAt, NotEnabled, Copied
    <3>2. CASE AfterVerdict(w, pc[w], s) = "commit_enable"
      BY <1>b, <2>2, <3>2 DEF AttemptAt, NotEnabled, Copied, Shows
    <3> QED
      BY <2>1, <3>1, <3>2
  <2> QED
    BY <1>0, <1>6, <1>c, <2>1, <2>3, StageNames
<1>7. CASE pc[w] = "redisabled" /\ Advance(w, AfterVerdict(w, pc[w], s), rec[w], s)
  <2>1. AfterVerdict(w, pc[w], s) \in {"review", "commit_redisable"}
    BY <1>7 DEF AfterVerdict, ErrorOf, CommitOf
  <2>2. AttemptAt(AfterVerdict(w, pc[w], s), rec[w], s)
    BY <1>0, <1>7, <2>1 DEF AttemptAt, NotEnabled, Copied
  <2> QED
    BY <1>0, <1>7, <1>c, <2>1, <2>2, StageNames
<1>8. CASE pc[w] = "disabled" /\ Advance(w, AfterVerdict(w, pc[w], s), ClaimOf(w, s), s)
  <2>1. AfterVerdict(w, pc[w], s) \in {"idle", "claim"}
    BY <1>8 DEF AfterVerdict, ErrorOf, CommitOf
  <2>2. AttemptAt(AfterVerdict(w, pc[w], s), ClaimOf(w, s), s)
    BY <1>0, <1>8, <2>1 DEF AttemptAt, NotEnabled, Copied
  <2> QED
    BY <1>8, <1>c, <2>1, <2>2, StageNames, ClaimType
<1> QED
  BY <1>1, <1>2, <1>3, <1>4, <1>5, <1>6, <1>7, <1>8 DEF Decide

\* On a host whose entries have ids every complete snapshot shows one.
LEMMA SnapshotShows ==
  ASSUME "no_id" \notin Faults, TypeOK, ReadsReal, NEW w \in Workers, half[w] # NoHalf,
         NEW kind \in DOMAIN Runtime, kind # "full" => Fault(kind),
         NEW s, s = SnapshotOf(w, kind)
  PROVE  Shows(w, s)
<1>1. kind \in {"full", "no_revision", "runtime"}
  BY DEF Runtime, Fault
<1>2. s.ok => s.id = IdOf[file.content]
  <2>1. CASE kind = "full"
    BY <2>1 DEF Runtime, SnapshotOf
  <2>2. CASE kind = "no_revision"
    BY <2>2 DEF Runtime, SnapshotOf
  <2>3. CASE kind = "runtime"
    BY <2>3 DEF Runtime, SnapshotOf
  <2> QED
    BY <1>1, <2>1, <2>2, <2>3
<1> QED
  BY <1>2, SnapshotFacts DEF Shows, Usable

\* The second host call of a snapshot keeps the attempt.
LEMMA HostGetRuntimeAttempt ==
  ASSUME "no_id" \notin Faults, TypeOK, RevisionsMeanWhatTheySay, ReadsTrue,
         AttemptFollowed, NEW w \in Workers, HostGetRuntime(w)
  PROVE  AttemptFollowed'
<1>1. PICK kind \in DOMAIN Runtime :
        (kind # "full" => Fault(kind)) /\ Decide(w, SnapshotOf(w, kind))
  BY DEF HostGetRuntime
<1>2. half[w] # NoHalf /\ UNCHANGED <<file, record, same>>
  BY DEF HostGetRuntime
<1>3. PICK s \in Snaps : s = SnapshotOf(w, kind)
  BY SnapshotType
<1>4. Shows(w, s)
  BY <1>1, <1>2, <1>3, SnapshotShows DEF RevisionsMeanWhatTheySay
<1> QED
  BY <1>1, <1>2, <1>3, <1>4, DecideAttempt

\* A save that enables does so under an armed record of the right identity, which
\* no failed scan is about to write over.
LEMMA HostSaveAttempt ==
  ASSUME TypeOK, RevisionsMeanWhatTheySay, ReadsTrue, AttemptFollowed,
         NEW w \in Workers, HostSave(w)
  PROVE  AttemptFollowed'
<1>0. /\ pc[w] \in Saving /\ lock = w /\ LockHeld /\ UNCHANGED <<record, same>>
      /\ rec[w] \in Records /\ snap[w] \in Snaps /\ record \in Records
      /\ AttemptAt(pc[w], rec[w], snap[w]) /\ Knows(pc[w], snap[w], ev[w])
      /\ snap[w].content = file.content
  BY StageFamilies DEF HostSave, RevisionsMeanWhatTheySay, LockHeld, TypeOK,
                       AttemptFollowed, StageKnows, ReadsTrue
<1>1. ErrorOf[pc[w]] = IF pc[w] = "enable_save" THEN "backoff"
                       ELSE IF pc[w] = "redisable_save" THEN "review" ELSE "idle"
  BY <1>0 DEF Saving, ErrorOf
<1>2. AfterOf[pc[w]] = IF pc[w] = "enable_save" THEN "enabled"
                       ELSE IF pc[w] = "redisable_save" THEN "redisabled" ELSE "disabled"
  BY <1>0 DEF Saving, AfterOf
<1>3. CASE UNCHANGED file /\ Continue(w, ErrorOf[pc[w]])
  <2>1. AttemptAt(ErrorOf[pc[w]], rec[w], snap[w])
    BY <1>0, <1>1, ErrorAttempt, BackoffAttempt DEF Saving
  <2> QED
    BY <1>0, <1>1, <1>3, <2>1, StageNames, StillAttempt DEF Continue
<1>4. CASE Write(w) /\ \E stage \in {ErrorOf[pc[w]], AfterOf[pc[w]]} : Continue(w, stage)
  <2>1. PICK stage \in {ErrorOf[pc[w]], AfterOf[pc[w]]} : Continue(w, stage)
    BY <1>4
  <2>2. /\ file'.content = file.content
        /\ file'.author = IF pc[w] = "enable_save" THEN "enable" ELSE "disable"
    BY <1>0, <1>4 DEF Write, AuthorOf, Saving
  <2>3. PICK r \in Records, s \in Snaps : r = rec[w] /\ s = snap[w]
    BY <1>0
  <2>4. Advance(w, stage, r, s)
    BY <2>1, <2>3 DEF Continue
  <2>5. stage \in Stages \ {"safe_error_write"}
    BY <1>1, <1>2, <2>1, StageNames DEF AfterSave
  <2>6. \A x \in Workers \ {w} : pc'[x] = pc[x] /\ rec'[x] = rec[x]
    BY <2>4 DEF Advance, TypeOK
  <2>7. pc[w] = "enable_save" =>
          /\ record.phase = "restore_pending" /\ r.phase = "restore_pending"
          /\ record.id = r.id /\ r.id \in {None, IdOf[file.content]}
    BY <1>0, <2>3 DEF AttemptAt, Knows, Copied, Owned, Fits
  <2>8. (file.author = "enable" => Tracks(record))'
    BY <1>0, <2>2, <2>7 DEF Tracks, Fits
  <2>9. \A x \in Workers \ {w} : WriterKeeps(x)'
    <3> TAKE x \in Workers \ {w}
    <3>1. WriterKeeps(x)
      BY DEF AttemptFollowed
    <3>2. CASE pc[w] = "enable_save"
      <4>1. pc[x] = "safe_error_write" => ~same[x]
        BY <1>0, <3>2 DEF AttemptAt, NobodyWrites
      <4> QED
        BY <1>0, <2>6, <4>1 DEF WriterKeeps
    <3>3. CASE pc[w] # "enable_save"
      BY <1>0, <2>2, <2>6, <3>1, <3>3 DEF WriterKeeps, Owned
    <3> QED
      BY <3>2, <3>3
  <2>a. AttemptAt(stage, r, s)'
    <3>1. CASE pc[w] = "enable_save"
      BY <1>0, <1>1, <1>2, <2>1, <2>2, <2>7, <3>1
         DEF AttemptAt, NotEnabled, Copied, Tracks, Fits
    <3>2. CASE pc[w] # "enable_save"
      BY <1>1, <1>2, <2>1, <2>2, <3>2 DEF AttemptAt, NotEnabled, Copied
    <3> QED
      BY <3>1, <3>2
  <2> QED
    BY <1>0, <2>3, <2>4, <2>5, <2>8, <2>9, <2>a, AdvanceAttempt
<1> QED
  BY <1>3, <1>4 DEF HostSave

\* A probe that succeeds vouches for the enable it was sent for.
LEMMA ProbeAttempt ==
  ASSUME TypeOK, RevisionsMeanWhatTheySay, AttemptFollowed, NEW w \in Workers, Probe(w)
  PROVE  AttemptFollowed'
<1>0. /\ pc[w] = "probe" /\ lock = w /\ LockHeld /\ UNCHANGED <<record, same>>
      /\ rec[w] \in Records /\ snap[w] \in Snaps /\ file \in Files
      /\ AttemptAt(pc[w], rec[w], snap[w])
  BY DEF Probe, RevisionsMeanWhatTheySay, LockHeld, TypeOK, AttemptFollowed, Unlocked
<1>1. CASE Continue(w, "failed") /\ UNCHANGED file
  <2>1. AttemptAt("failed", rec[w], snap[w])
    BY <1>0 DEF AttemptAt, NotEnabled, Copied
  <2> QED
    BY <1>0, <1>1, <2>1, StageNames, StillAttempt DEF Continue
<1>2. CASE /\ Continue(w, "verify")
           /\ file' = IF file.rev = rec[w].postRev
                      THEN [file EXCEPT !.author = "verified"] ELSE file
  <2>1. file'.content = file.content /\ file'.rev = file.rev
    BY <1>0, <1>2 DEF Files
  <2>2. file'.author # "enable"
    <3>1. CASE file.rev = rec[w].postRev
      BY <1>0, <1>2, <3>1 DEF Files
    <3>2. CASE file.rev # rec[w].postRev
      BY <1>0, <1>2, <3>2 DEF AttemptAt, Tracks
    <3> QED
      BY <3>1, <3>2
  <2>3. PICK r \in Records, s \in Snaps : r = rec[w] /\ s = snap[w]
    BY <1>0
  <2>4. Advance(w, "verify", r, s)
    BY <1>2, <2>3 DEF Continue
  <2>5. \A x \in Workers \ {w} : pc'[x] = pc[x] /\ rec'[x] = rec[x]
    BY <2>4 DEF Advance, TypeOK
  <2>6. \A x \in Workers \ {w} : WriterKeeps(x)'
    BY <1>0, <2>2, <2>5 DEF AttemptFollowed, WriterKeeps, Owned
  <2>7. AttemptAt("verify", r, s)'
    BY <2>2 DEF AttemptAt, NotEnabled, Copied
  <2> QED
    BY <1>0, <2>2, <2>3, <2>4, <2>6, <2>7, StageNames, AdvanceAttempt
<1> QED
  BY <1>1, <1>2 DEF Probe

\* What the updates write into the record, where there is one.
LEMMA UpdatedTracks ==
  ASSUME TypeOK, NEW w \in Workers
  PROVE  /\ ArmedRecord.id = record.id /\ ArmedRecord.phase = "restore_pending"
         /\ ReviewedRecord.id = record.id /\ ReviewedRecord.phase = "manual_review"
         /\ EnabledRecord(w).id = record.id /\ EnabledRecord(w).phase = "probe_pending"
         /\ EnabledRecord(w).postRev = snap[w].rev /\ EnabledRecord(w).postHash = snap[w].content
         /\ RedisabledRecord(w).id = record.id
         /\ Backoff(rec[w]).id = rec[w].id /\ Backoff(rec[w]).phase = rec[w].phase
         /\ Backoff(rec[w]).postRev = rec[w].postRev /\ Backoff(rec[w]).postHash = rec[w].postHash
         /\ Backoff(record).id = record.id /\ Backoff(record).phase = record.phase
         /\ Backoff(record).postRev = record.postRev /\ Backoff(record).postHash = record.postHash
<1>1. record \in Records /\ rec[w] \in Records
  BY DEF TypeOK
<1> QED
  BY <1>1 DEF Records, ArmedRecord, ReviewedRecord, EnabledRecord, RedisabledRecord, Backoff

\* An update of the store by the holder of the lock, which then goes on to a stage
\* that keeps: the copies of failed scans keep if the record's identity stays.
LEMMA UpdateAttempt ==
  ASSUME TypeOK, LockHeld, AttemptFollowed, UNCHANGED file, NEW w \in Workers, lock = w,
         NEW stage \in Stages \ {"safe_error_write"}, NEW r \in Records,
         NEW s \in Snaps, Advance(w, stage, r, s),
         (file.author = "enable" => Tracks(record))',
         \/ \A x \in Workers : ~same'[x]
         \/ same' = same /\ (Owned' => Owned /\ record'.id = record.id),
         AttemptAt(stage, r, s)'
  PROVE  AttemptFollowed'
<1>1. \A x \in Workers \ {w} : pc'[x] = pc[x] /\ rec'[x] = rec[x]
  BY DEF Advance, TypeOK
<1>2. \A x \in Workers \ {w} : WriterKeeps(x)'
  <2> TAKE x \in Workers \ {w}
  <2>1. CASE ~same'[x]
    BY <2>1 DEF WriterKeeps
  <2>2. CASE same' = same /\ (Owned' => Owned /\ record'.id = record.id)
    BY <1>1, <2>2, WriterStill DEF AttemptFollowed
  <2> QED
    BY <2>1, <2>2
<1> QED
  BY <1>2, AdvanceAttempt

\* The store updates keep the attempt.
LEMMA StoreAttempt ==
  ASSUME TypeOK, RevisionsMeanWhatTheySay, AttemptFollowed, NEW w \in Workers,
         \/ Arm(w) \/ CommitEnable(w) \/ RecordHealthCheck(w) \/ CommitRedisable(w)
         \/ Retire(w) \/ ManualReview(w) \/ RetryLater(w) \/ Claim(w)
  PROVE  AttemptFollowed'
<1>0. /\ pc[w] \in Updating /\ UNCHANGED file /\ LockHeld
      /\ rec[w] \in Records /\ snap[w] \in Snaps /\ record \in Records
      /\ AttemptAt(pc[w], rec[w], snap[w])
      /\ (file.author = "enable" => Tracks(record))
  BY DEF Arm, CommitEnable, RecordHealthCheck, CommitRedisable, Retire, ManualReview,
         RetryLater, Claim, Updating, TypeOK, RevisionsMeanWhatTheySay, AttemptFollowed
<1>a. lock = w
  BY <1>0, StageFamilies DEF LockHeld
<1>b. {"idle", "safe_error", "retire", "enable", "probe", "review"}
        \subseteq Stages \ {"safe_error_write"}
  BY StageNames
<1>c. PICK q \in Records, s \in Snaps : q = rec[w] /\ s = snap[w]
  BY <1>0
<1>1. CASE UpdateFails(w, "safe_error") \/ UpdateFails(w, "idle")
  <2>1. PICK stage \in {"safe_error", "idle"} : UpdateFails(w, stage)
    BY <1>1
  <2> QED
    BY <1>0, <1>a, <1>b, <2>1, ErrorAttempt, StillAttempt DEF UpdateFails, Continue
<1>2. CASE /\ Arm(w) /\ Amend(ArmedRecord)
           /\ Advance(w, IF Owned THEN "enable" ELSE "idle", ArmedRecord, snap[w])
           /\ same' = [x \in Workers |-> FALSE]
  <2>1. PICK r \in Records : r = ArmedRecord
    BY UpdateTypes
  <2>2. PICK stage \in {"enable", "idle"} : stage = IF Owned THEN "enable" ELSE "idle"
    OBVIOUS
  <2>3. r.id = record.id /\ r.phase = "restore_pending"
    BY <2>1, UpdatedTracks
  <2>4. file.author # "enable" /\ (file.author = "disable" => Fits(rec[w]))
        /\ (Owned => rec[w].id = record.id)
    BY <1>0, <1>2 DEF Arm, AttemptAt, NotEnabled, Copied
  <2>5. AttemptAt(stage, r, s)'
    <3>1. CASE Owned
      <4>1. record' = r /\ stage = "enable" /\ NobodyWrites'
        BY <1>2, <2>1, <2>2, <3>1 DEF Amend, NobodyWrites
      <4> QED
        BY <1>0, <2>3, <2>4, <3>1, <4>1 DEF AttemptAt, Fits, NotEnabled, Copied
    <3>2. CASE ~Owned
      BY <2>2, <3>2, ErrorAttempt
    <3> QED
      BY <3>1, <3>2
  <2>6. Advance(w, stage, r, s)
    BY <1>2, <1>c, <2>1, <2>2
  <2>7. \A x \in Workers : ~same'[x]
    BY <1>2
  <2> QED
    BY <1>0, <1>a, <1>b, <2>4, <2>5, <2>6, <2>7, UpdateAttempt
<1>3. CASE /\ CommitEnable(w) /\ Amend(EnabledRecord(w)) /\ UNCHANGED same
           /\ Advance(w, IF Owned
                         THEN PostEnableVerdict(EnabledRecord(w), snap[w], "probe")
                         ELSE "idle",
                      EnabledRecord(w), snap[w])
  <2>1. PICK r \in Records : r = EnabledRecord(w)
    BY UpdateTypes
  <2>2. PICK stage \in {"review", "retire", "probe", "idle"} :
          stage = IF Owned THEN PostEnableVerdict(r, s, "probe") ELSE "idle"
    BY PostEnableStages
  <2>3. /\ r.id = record.id /\ r.phase = "probe_pending"
        /\ r.postRev = s.rev /\ r.postHash = s.content
    BY <1>c, <2>1, UpdatedTracks
  <2>4. file.author = "enable" =>
          /\ Usable(s) /\ ~s.disabled /\ s.id = IdOf[file.content]
          /\ Tracks(r) /\ Owned
    BY <1>0, <1>3, <1>c, <2>3 DEF CommitEnable, AttemptAt, Tracks, Fits, Owned
  <2>5. file.author = "enable" => stage # "retire"
    BY <2>2, <2>3, <2>4 DEF PostEnableVerdict, guardMatchesPostEnable, Tracks, Fits
  <2>6. Owned => record' = r
    BY <1>3, <2>1 DEF Amend
  <2>7. (file.author = "enable" => Tracks(record))'
    BY <1>0, <2>4, <2>6 DEF Tracks, Fits
  <2>8. Owned' => Owned /\ record'.id = record.id
    BY <1>3, <2>3, <2>6 DEF Amend, Owned
  <2>9. AttemptAt(stage, r, s)'
    BY <1>0, <2>3, <2>4, <2>5 DEF AttemptAt, NotEnabled, Copied, Tracks, Fits
  <2>a. Advance(w, stage, r, s)
    BY <1>3, <1>c, <2>1, <2>2
  <2> QED
    BY <1>0, <1>3, <1>a, <1>b, <2>7, <2>8, <2>9, <2>a, UpdateAttempt
<1>4. CASE RecordHealthCheck(w) /\ Continue(w, "retire") /\ UNCHANGED <<record, same>>
  <2>1. AttemptAt("retire", rec[w], snap[w])
    BY <1>0, <1>4 DEF RecordHealthCheck, AttemptAt, NotEnabled, Copied
  <2> QED
    BY <1>0, <1>4, <1>a, <1>b, <2>1, StillAttempt DEF Continue
<1>d. ASSUME Continue(w, "idle"), (file.author = "enable" => Tracks(record))',
             \/ \A x \in Workers : ~same'[x]
             \/ same' = same /\ (Owned' => Owned /\ record'.id = record.id)
      PROVE  AttemptFollowed'
  <2>1. Advance(w, "idle", q, s) /\ AttemptAt("idle", q, s)'
    BY <1>c, <1>d, ErrorAttempt DEF Continue
  <2> QED
    BY <1>0, <1>a, <1>b, <1>d, <2>1, UpdateAttempt
<1>5. CASE CommitRedisable(w) /\ Amend(RedisabledRecord(w)) /\ Continue(w, "idle")
           /\ UNCHANGED same
  <2>1. file'.author # "enable"
    BY <1>0, <1>5 DEF CommitRedisable, AttemptAt, NotEnabled
  <2>2. Owned' => Owned /\ record'.id = record.id
    BY <1>5, UpdatedTracks DEF Amend, Owned
  <2> QED
    BY <1>5, <1>d, <2>1, <2>2
<1>6. CASE Retire(w) /\ record' = NoRecord /\ Continue(w, "idle") /\ UNCHANGED same
  <2>1. file'.author # "enable"
    BY <1>0, <1>6 DEF Retire, AttemptAt, NotEnabled
  <2>2. ~Owned'
    BY <1>6 DEF Owned, NoRecord
  <2> QED
    BY <1>6, <1>d, <2>1, <2>2
<1>7. CASE ManualReview(w) /\ Amend(ReviewedRecord) /\ Continue(w, "idle") /\ UNCHANGED same
  <2>1. Owned' => Owned /\ record'.id = record.id
    BY <1>7, UpdatedTracks DEF Amend, Owned
  <2>2. (file.author = "enable" => Tracks(record))'
    BY <1>0, <1>7, UpdatedTracks DEF Amend, Tracks, Fits
  <2> QED
    BY <1>7, <1>d, <2>1, <2>2
<1>8. CASE RetryLater(w) /\ Amend(Backoff(rec[w])) /\ Continue(w, "idle") /\ UNCHANGED same
  <2>1. /\ Owned => rec[w].id = record.id
        /\ file.author = "enable" => Tracks(rec[w])
    BY <1>0, <1>8 DEF RetryLater, AttemptAt, Copied
  <2>2. Owned' => Owned /\ record'.id = record.id
    BY <1>8, <2>1, UpdatedTracks DEF Amend, Owned
  <2>3. (file.author = "enable" => Tracks(record))'
    BY <1>0, <1>8, <2>1, UpdatedTracks DEF Amend, Tracks, Fits
  <2> QED
    BY <1>8, <1>d, <2>2, <2>3
<1>9. CASE Claim(w) /\ Continue(w, "idle") /\ same' = [x \in Workers |-> FALSE]
  <2>1. file'.author # "enable"
    BY <1>0, <1>9 DEF Claim, AttemptAt, NotEnabled
  <2> QED
    BY <1>9, <1>d, <2>1
<1> QED
  BY <1>1, <1>2, <1>3, <1>4, <1>5, <1>6, <1>7, <1>8, <1>9
     DEF Arm, CommitEnable, RecordHealthCheck, CommitRedisable, Retire, ManualReview,
         RetryLater, Claim

\* The steps a worker takes outside the lock keep the attempt: what a failed scan
\* writes back was read since the record was last armed.
LEMMA OutsideAttempt ==
  ASSUME TypeOK, AttemptFollowed, NEW w \in Workers,
         \/ ScanPick(w) \/ ScanLock(w) \/ UsageEvent(w) \/ Resolve(w)
         \/ UsageLock(w) \/ SafeErrorRead(w) \/ SafeErrorWrite(w)
  PROVE  AttemptFollowed'
<1>0. /\ UNCHANGED file /\ pc \in [Workers -> Stages] /\ rec \in [Workers -> Records]
      /\ same \in [Workers -> BOOLEAN]
      /\ \A x \in Workers : AttemptAt(pc[x], rec[x], snap[x]) /\ WriterKeeps(x)
      /\ (file.author = "enable" => Tracks(record))
  BY DEF ScanPick, ScanLock, UsageEvent, Resolve, UsageLock, SafeErrorRead,
         SafeErrorWrite, TypeOK, AttemptFollowed
<1>1. ASSUME UNCHANGED <<record, snap>>,
             \A x \in Workers \ {w} : pc'[x] = pc[x] /\ rec'[x] = rec[x] /\ same'[x] = same[x],
             pc'[w] \in {"safe_error", "safe_error_write"} /\ same'[w] =>
               pc[w] \in {"safe_error", "safe_error_write"} /\ same[w],
             AttemptAt(pc[w], rec[w], snap[w])', WriterKeeps(w)'
      PROVE  AttemptFollowed'
  <2>1. NobodyWrites => NobodyWrites'
    BY <1>1 DEF NobodyWrites
  <2>2. ASSUME NEW x \in Workers \ {w}
        PROVE  AttemptAt(pc[x], rec[x], snap[x])' /\ WriterKeeps(x)'
    BY <1>0, <1>1, <2>1 DEF AttemptAt, WriterKeeps, Tracks, Fits, Owned
  <2>3. (file.author = "enable" => Tracks(record))'
    BY <1>0, <1>1 DEF Tracks, Fits
  <2> QED
    BY <1>1, <2>2, <2>3 DEF AttemptFollowed
<1>2. CASE ScanPick(w) \/ UsageEvent(w) \/ Resolve(w) \/ UsageLock(w)
  <2>1. PICK stage \in {"idle", "waiting", "resolve", "usage"} : pc' = [pc EXCEPT ![w] = stage]
    BY <1>2 DEF ScanPick, UsageEvent, Resolve, UsageLock
  <2>2. /\ UNCHANGED <<record, snap, rec>>
        /\ \A x \in Workers \ {w} : same'[x] = same[x]
    BY <1>0, <1>2 DEF ScanPick, UsageEvent, Resolve, UsageLock, workerVars
  <2>3. AttemptAt(pc[w], rec[w], snap[w])' /\ WriterKeeps(w)'
    BY <1>0, <2>1 DEF AttemptAt, WriterKeeps, NotEnabled, Copied
  <2> QED
    BY <1>0, <1>1, <2>1, <2>2, <2>3
<1>3. CASE ScanLock(w)
  <2>1. UNCHANGED <<record, snap, same>>
    BY <1>3 DEF ScanLock
  <2>2. CASE /\ record.phase # "manual_review"
             /\ pc' = [pc EXCEPT ![w] = "inspect"] /\ rec' = [rec EXCEPT ![w] = record]
    <3>1. AttemptAt(pc[w], rec[w], snap[w])' /\ WriterKeeps(w)'
      BY <1>0, <2>1, <2>2 DEF AttemptAt, WriterKeeps, NotEnabled, Copied, Tracks, Fits
    <3> QED
      BY <1>0, <1>1, <2>1, <2>2, <3>1
  <2>3. CASE pc' = [pc EXCEPT ![w] = "idle"] /\ UNCHANGED rec
    <3>1. AttemptAt(pc[w], rec[w], snap[w])' /\ WriterKeeps(w)'
      BY <1>0, <2>3 DEF AttemptAt, WriterKeeps, NotEnabled, Copied
    <3> QED
      BY <1>0, <1>1, <2>1, <2>3, <3>1
  <2> QED
    BY <1>3, <2>2, <2>3 DEF ScanLock
<1>4. CASE SafeErrorRead(w)
  <2>1. UNCHANGED <<record, snap, same>> /\ pc[w] = "safe_error"
    BY <1>4 DEF SafeErrorRead
  <2>2. CASE pc' = [pc EXCEPT ![w] = "safe_error_write"]
             /\ rec' = [rec EXCEPT ![w] = Backoff(record)]
    <3>1. rec'[w] = Backoff(record) /\ pc'[w] = "safe_error_write"
      BY <1>0, <2>2
    <3>2. WriterKeeps(w)'
      BY <1>0, <2>1, <3>1, UpdatedTracks DEF WriterKeeps, Tracks, Fits
    <3>3. AttemptAt(pc[w], rec[w], snap[w])'
      BY <3>1 DEF AttemptAt, NotEnabled, Copied
    <3> QED
      BY <1>0, <1>1, <2>1, <2>2, <3>2, <3>3
  <2>3. CASE pc' = [pc EXCEPT ![w] = "idle"] /\ UNCHANGED rec
    <3>1. AttemptAt(pc[w], rec[w], snap[w])' /\ WriterKeeps(w)'
      BY <1>0, <2>3 DEF AttemptAt, WriterKeeps, NotEnabled, Copied
    <3> QED
      BY <1>0, <1>1, <2>1, <2>3, <3>1
  <2> QED
    BY <1>4, <2>2, <2>3 DEF SafeErrorRead
<1>5. CASE SafeErrorWrite(w)
  <2>1. /\ UNCHANGED <<snap, same>> /\ pc[w] = "safe_error_write"
        /\ pc' = [pc EXCEPT ![w] = "idle"] /\ rec' = [rec EXCEPT ![w] = NoRecord]
    BY <1>5 DEF SafeErrorWrite
  <2>2. AttemptAt(pc[w], rec[w], snap[w])' /\ WriterKeeps(w)'
    BY <1>0, <2>1 DEF AttemptAt, WriterKeeps, NotEnabled, Copied
  <2>3. CASE UNCHANGED record
    BY <1>0, <1>1, <2>1, <2>2, <2>3
  <2>4. CASE Owned /\ same[w] /\ record' = rec[w]
    <3>1. /\ file.author = "enable" => Tracks(rec[w])
          /\ record'.id = record.id
      BY <1>0, <2>1, <2>4 DEF WriterKeeps
    <3>2. ~NobodyWrites
      BY <2>1, <2>4 DEF NobodyWrites
    <3>3. ASSUME NEW x \in Workers \ {w}
          PROVE  AttemptAt(pc[x], rec[x], snap[x])' /\ WriterKeeps(x)'
      BY <1>0, <2>1, <2>4, <3>1, <3>2 DEF AttemptAt, WriterKeeps, Tracks, Fits
    <3>4. (file.author = "enable" => Tracks(record))'
      BY <1>0, <2>4, <3>1 DEF Tracks, Fits
    <3> QED
      BY <2>2, <3>3, <3>4 DEF AttemptFollowed
  <2> QED
    BY <1>5, <2>3, <2>4 DEF SafeErrorWrite
<1> QED
  BY <1>2, <1>3, <1>4, <1>5

\* Nor does the environment lose the attempt.
LEMMA EnvironmentAttempt ==
  ASSUME TypeOK, AttemptFollowed, UserEdit \/ Crash \/ Elapse \/ UNCHANGED vars
  PROVE  AttemptFollowed'
<1>1. CASE UserEdit
  <2>1. file'.author = "user" /\ UNCHANGED <<record, pc, rec, snap, same>>
    BY <1>1 DEF UserEdit, workerVars
  <2> QED
    BY <2>1 DEF AttemptFollowed, AttemptAt, WriterKeeps, NobodyWrites, Owned
<1>2. CASE Crash
  <2>1. UNCHANGED <<file, record>> /\ \A w \in Workers : pc'[w] = "idle"
    BY <1>2 DEF Crash
  <2> QED
    BY <2>1 DEF AttemptFollowed, AttemptAt, WriterKeeps, NotEnabled, Copied, Tracks, Fits
<1>3. CASE Elapse \/ UNCHANGED vars
  <2>1. /\ UNCHANGED <<file, pc, rec, snap, same>>
        /\ record'.phase = record.phase /\ record'.id = record.id
        /\ record'.postRev = record.postRev /\ record'.postHash = record.postHash
    BY <1>3 DEF Elapse, vars, workerVars, TypeOK, Records
  <2> QED
    BY <2>1 DEF AttemptFollowed, AttemptAt, WriterKeeps, NobodyWrites, Tracks, Fits, Owned
<1> QED
  BY <1>1, <1>2, <1>3

\* The invariant is inductive where entries have ids.
LEMMA AttemptStep ==
  ASSUME "no_id" \notin Faults, TypeOK, RevisionsMeanWhatTheySay, ReadsTrue,
         AttemptFollowed, [Next]_vars
  PROVE  AttemptFollowed'
<1>1. ASSUME NEW w \in Workers, Step(w) \/ ScanPick(w) \/ UsageEvent(w)
      PROVE  AttemptFollowed'
  BY <1>1, HostGetAttempt, HostGetRuntimeAttempt, HostSaveAttempt, ProbeAttempt,
     StoreAttempt, OutsideAttempt DEF Step
<1> QED
  BY <1>1, EnvironmentAttempt DEF Next

\* What a snapshot has read is there for as long as nobody edits the file.
THEOREM ReadsAreTrue ==
  ASSUME UserRaces = {}
  PROVE  Spec => []ReadsTrue
<1>1. Init => ReadsTrue
  BY DEF Init, ReadsTrue, Saving, AfterSave
<1>2. ReadsTrue /\ TypeOK /\ RevisionsMeanWhatTheySay /\ [Next]_vars => ReadsTrue'
  BY ReadsTrueStep
<1> QED
  BY <1>1, <1>2, TypeCorrect, RevisionsCorrect, PTL DEF Spec

\* All that a scan has in hand, or is yet to write, tracks the credential that the
\* plugin enabled: the record, the copies of the scans under way, and what a failed
\* scan writes back outside the lock.
THEOREM AttemptsFollowed ==
  ASSUME UserRaces = {}, "no_id" \notin Faults
  PROVE  Spec => []AttemptFollowed
<1>1. Init => AttemptFollowed
  BY DEF Init, AttemptFollowed, AttemptAt, WriterKeeps, NotEnabled, Copied
<1>2. AttemptFollowed /\ ReadsTrue /\ TypeOK /\ RevisionsMeanWhatTheySay /\ [Next]_vars
        => AttemptFollowed'
  BY AttemptStep
<1> QED
  BY <1>1, <1>2, ReadsAreTrue, TypeCorrect, RevisionsCorrect, PTL DEF Spec

\* A credential that the plugin enabled, and that no probe has vouched for, has a
\* record in a phase that a later scan finishes or an operator sees, through every
\* error, crash and concurrent scan.
THEOREM AttemptsTracked ==
  ASSUME UserRaces = {}, "no_id" \notin Faults
  PROVE  Spec => []AttemptTracked
<1>1. AttemptFollowed => AttemptTracked
  BY DEF AttemptFollowed, Tracks, AttemptTracked
<1> QED
  BY <1>1, AttemptsFollowed, PTL

-----------------------------------------------------------------------------
(* The record holds a disable, as long as nothing has failed.              *)

\* A fault is counted, and never forgotten.
LEMMA FaultsCount ==
  ASSUME TypeOK, faults' = 0
  PROVE  /\ \A kind : ~Fault(kind)
         /\ [Next]_vars => faults = 0
<1>1. \A kind : ~Fault(kind)
  BY DEF Fault, TypeOK
<1>2. ASSUME NEW w \in Workers, Step(w) \/ ScanPick(w) \/ UsageEvent(w) PROVE faults' = faults
  BY <1>1, <1>2
     DEF Step, ScanPick, ScanLock, UsageEvent, Resolve, UsageLock, HostGet, HostGetRuntime,
         HostSave, Probe, Arm, CommitEnable, RecordHealthCheck, CommitRedisable, Retire,
         ManualReview, RetryLater, Claim, SafeErrorRead, SafeErrorWrite, UpdateFails
<1>3. UserEdit \/ Elapse \/ Crash \/ UNCHANGED vars => faults' = faults
  BY <1>1 DEF UserEdit, Elapse, Crash, vars
<1> QED
  BY <1>1, <1>2, <1>3 DEF Next

\* Unless somebody is about to record it, a disable is recorded.
LEMMA HoldsNow ==
  ASSUME TypeOK, LockHeld, DisableKept, file.author = "disable",
         lock = None \/ (lock \in Workers /\ pc[lock] \notin Recording)
  PROVE  Holds(record)
<1>1. \A x \in Workers : pc[x] \in Recording => lock = x
  BY DEF LockHeld, Recording, Unlocked
<1>2. None \notin Workers
  BY OwnershipAssumption DEF Workers
<1> QED
  BY <1>1, <1>2 DEF DisableKept

\* The holder of the lock goes on to a stage that keeps what it is to keep.
LEMMA AdvanceDisable ==
  ASSUME TypeOK, LockHeld, DisableKept, NEW w \in Workers, lock = w,
         NEW stage \in Stages \ {"waiting", "resolve"}, NEW r \in Records,
         NEW s \in Snaps, NEW e \in Events, e = ev[w], Advance(w, stage, r, s),
         (file.author = "disable" => Holds(record) \/ stage \in Recording)',
         DisableAt(stage, r, s, e)'
  PROVE  DisableKept'
<1>1. \A x \in Workers \ {w} : pc[x] \in Unlocked /\ pc'[x] = pc[x] /\ ev'[x] = ev[x]
  BY OthersOutside DEF Advance, TypeOK
<1>2. ASSUME NEW x \in Workers \ {w}
      PROVE  DisableAt(pc[x], rec[x], snap[x], ev[x])'
  BY <1>1 DEF DisableKept, DisableAt, Unlocked, NotDisabled, Scanning
<1>3. /\ pc'[w] = stage
      /\ stage \notin Unlocked => rec'[w] = r /\ snap'[w] = s /\ ev'[w] = e
  BY DEF Advance, TypeOK
<1>4. DisableAt(pc[w], rec[w], snap[w], ev[w])'
  <2>1. CASE stage \in Unlocked
    BY <1>3, <2>1 DEF DisableAt, Unlocked, NotDisabled, Scanning
  <2>2. CASE stage \notin Unlocked
    BY <1>3, <2>2 DEF DisableAt
  <2> QED
    BY <2>1, <2>2
<1>5. \A x \in Usages : pc'[x] = "waiting" => ev'[x].named
  <2> TAKE x \in Usages
  <2>1. CASE x = w
    BY <1>3, <2>1
  <2>2. CASE x \in Workers \ {w}
    BY <1>1, <2>2 DEF DisableKept
  <2> QED
    BY <2>1, <2>2 DEF Workers
<1> QED
  BY <1>2, <1>3, <1>4, <1>5 DEF DisableKept

\* The usual case: neither the file nor the record changes.
LEMMA StillDisable ==
  ASSUME TypeOK, LockHeld, DisableKept, UNCHANGED <<file, record>>,
         NEW w \in Workers, lock = w, NEW stage \in Stages \ {"waiting", "resolve"},
         NEW r \in Records, NEW s \in Snaps, Advance(w, stage, r, s),
         pc[w] \in Recording /\ file.author = "disable" => stage \in Recording,
         DisableAt(stage, r, s, ev[w])
  PROVE  DisableKept'
<1>1. PICK e \in Events : e = ev[w]
  BY DEF TypeOK
<1>2. (file.author = "disable" => Holds(record) \/ stage \in Recording)'
  BY HoldsNow DEF Holds, Fits
<1>3. DisableAt(stage, r, s, e)'
  BY <1>1 DEF DisableAt, Holds, Fits, Owned
<1> QED
  BY <1>1, <1>2, <1>3, AdvanceDisable

\* The decision after a snapshot that tells everything.
LEMMA DecideDisable ==
  ASSUME TypeOK, RevisionsMeanWhatTheySay, ReadsTrue, DisableKept,
         UNCHANGED <<file, record>>, NEW w \in Workers, half[w] # NoHalf,
         NEW s \in Snaps, Decide(w, s), Usable(s), s.rev = file.rev,
         s.content = half[w].content, s.disabled = half[w].disabled,
         s.id = IdOf[file.content]
  PROVE  DisableKept'
<1>0. /\ rec[w] \in Records /\ snap[w] \in Snaps /\ ev[w] \in Events
      /\ DisableAt(pc[w], rec[w], snap[w], ev[w]) /\ Knows(pc[w], snap[w], ev[w])
      /\ pc[w] \in SnapStages
      /\ file.rev # 0 /\ s.id # None
  <2>1. rec[w] \in Records /\ snap[w] \in Snaps /\ ev[w] \in Events
    BY DEF TypeOK
  <2>2. DisableAt(pc[w], rec[w], snap[w], ev[w]) /\ Knows(pc[w], snap[w], ev[w])
    BY DEF RevisionsMeanWhatTheySay, DisableKept, StageKnows
  <2>3. pc[w] \in SnapStages /\ file.rev # 0
    BY DEF RevisionsMeanWhatTheySay, RevisionsPast, NoRev, ReadsTrue
  <2>4. IdOf[file.content] \in Ids /\ None \notin Ids
    BY OwnershipAssumption DEF TypeOK, Files
  <2> QED
    BY <2>1, <2>2, <2>3, <2>4
<1>a. lock = w /\ LockHeld
  BY <1>0, StageFamilies DEF RevisionsMeanWhatTheySay, LockHeld
<1>b. file.author # "user" => s.content = file.content /\ s.disabled = file.disabled
  BY DEF ReadsTrue
<1>c. ASSUME NEW stage \in Stages \ {"waiting", "resolve"}, NEW r \in Records,
             Advance(w, stage, r, s), DisableAt(stage, r, s, ev[w]),
             pc[w] \in Recording /\ file.author = "disable" => stage \in Recording
      PROVE  DisableKept'
  BY <1>a, <1>c, StillDisable
<1>1. CASE pc[w] = "inspect" /\ Advance(w, InspectVerdict(rec[w], s), rec[w], s)
  <2>1. InspectVerdict(rec[w], s) \in {"retire", "review", "arm", "probe"}
    BY InspectStages
  <2>2. file.author = "disable" => Holds(rec[w]) /\ s.disabled
    BY <1>0, <1>1, <1>b DEF DisableAt, RevisionsMeanWhatTheySay, AuthorFlag
  <2>3. file.author = "disable" => InspectVerdict(rec[w], s) = "arm"
    BY <1>0, <1>b, <2>2 DEF InspectVerdict, StartVerdict, Holds, Fits, Usable
  <2>4. DisableAt(InspectVerdict(rec[w], s), rec[w], s, ev[w])
    <3>1. file.author = "disable" => s.rev = file.rev /\ s.content = file.content
      BY <1>b
    <3>2. Owned /\ rec[w].id = record.id
      BY <1>0, <1>1 DEF DisableAt, Scanning
    <3>3. CASE InspectVerdict(rec[w], s) = "arm"
      BY <2>2, <3>1, <3>2, <3>3 DEF DisableAt, NotDisabled, Scanning
    <3>4. CASE InspectVerdict(rec[w], s) \in {"retire", "review", "probe"}
      BY <2>3, <3>2, <3>4 DEF DisableAt, NotDisabled, Scanning
    <3> QED
      BY <2>1, <3>3, <3>4
  <2> QED
    BY <1>0, <1>1, <1>c, <2>1, <2>4, StageNames DEF Recording
<1>2. CASE pc[w] = "verify" /\ Advance(w, PostEnableVerdict(rec[w], s, "record_health"), rec[w], s)
  <2>1. PICK stage \in {"review", "retire", "record_health"} : Advance(w, stage, rec[w], s)
    BY <1>2, PostEnableStages
  <2>2. DisableAt(stage, rec[w], s, ev[w])
    BY <1>0, <1>2 DEF DisableAt, NotDisabled, Scanning
  <2> QED
    BY <1>0, <1>2, <1>c, <2>1, <2>2, StageNames DEF Recording
<1>3. CASE pc[w] = "failed" /\ Advance(w, PostEnableVerdict(rec[w], s, "redisable"), rec[w], s)
  <2>1. PostEnableVerdict(rec[w], s, "redisable") \in {"review", "retire", "redisable"}
    BY PostEnableStages
  <2>2. PostEnableVerdict(rec[w], s, "redisable") = "redisable" => Fits(rec[w])
    BY DEF PostEnableVerdict, guardMatchesPostEnable, Fits
  <2>3. DisableAt(PostEnableVerdict(rec[w], s, "redisable"), rec[w], s, ev[w])
    BY <1>0, <1>3, <2>1, <2>2 DEF DisableAt, NotDisabled, Scanning
  <2> QED
    BY <1>0, <1>3, <1>c, <2>1, <2>3, StageNames DEF Recording
<1>4. CASE pc[w] = "usage" /\ Advance(w, UsageVerdict(ev[w], s), rec[w], s)
  <2>1. UsageVerdict(ev[w], s) \in {"idle", "disable"}
    BY UsageStages
  <2>2. file.author = "disable" => Owned
    BY <1>4, <1>a, HoldsNow DEF Holds, Owned, Recording
  <2>3. DisableAt(UsageVerdict(ev[w], s), rec[w], s, ev[w])
    BY <1>0, <1>4, <2>1, <2>2 DEF UsageVerdict, DisableAt, NotDisabled, Scanning
  <2> QED
    BY <1>0, <1>4, <1>c, <2>1, <2>3, StageNames DEF Recording
<1>5. CASE pc[w] \in BeforeSave /\ Advance(w, BeforeVerdict(w, pc[w], s), rec[w], s)
  <2>1. /\ BeforeVerdict(w, pc[w], s) \in Stages
        /\ BeforeVerdict(w, pc[w], s) \notin {"waiting", "resolve"}
        /\ pc[w] \notin Recording
    BY <1>5, BeforeStages, TableStages, StageNames DEF Saving, BeforeSave, Recording
  <2>2. DisableAt(BeforeVerdict(w, pc[w], s), rec[w], s, ev[w])
    <3>1. CASE ~checkGuard(w, pc[w], s)
      <4>1. BeforeVerdict(w, pc[w], s) = GuardErrorOf[pc[w]]
        BY <3>1 DEF BeforeVerdict
      <4>2. CASE pc[w] = "disable"
        <5>1. GuardErrorOf[pc[w]] = "idle"
          BY <4>2 DEF GuardErrorOf
        <5> QED
          BY <4>1, <5>1 DEF DisableAt, NotDisabled, Scanning
      <4>3. CASE pc[w] \in {"enable", "redisable"}
        <5>1. GuardErrorOf[pc[w]] = "review"
          BY <4>3 DEF GuardErrorOf
        <5>2. file.author # "disable"
          BY <1>0, <1>b, <3>1, <4>3 DEF DisableAt, NotDisabled, Holds, checkGuard, GuardOf
        <5> QED
          BY <4>1, <5>1, <5>2 DEF DisableAt, NotDisabled, Scanning
      <4> QED
        BY <1>5, <4>2, <4>3 DEF BeforeSave
    <3>2. CASE checkGuard(w, pc[w], s) /\ s.disabled = Target(pc[w])
      <4>1. pc[w] = "disable"
        BY <1>5, <3>2, AlreadyThere
      <4>2. BeforeVerdict(w, pc[w], s) = "idle"
        BY <3>2, <4>1 DEF BeforeVerdict, CommitOf
      <4> QED
        BY <4>2 DEF DisableAt, NotDisabled, Scanning
    <3>3. CASE checkGuard(w, pc[w], s) /\ s.disabled # Target(pc[w])
      <4>1. BeforeVerdict(w, pc[w], s) = SaveOf[pc[w]]
        BY <3>3 DEF BeforeVerdict
      <4>2. CASE pc[w] = "enable"
        <5>1. SaveOf[pc[w]] = "enable_save"
          BY <4>2 DEF SaveOf
        <5> QED
          BY <1>0, <4>1, <4>2, <5>1 DEF DisableAt, NotDisabled, Scanning
      <4>3. CASE pc[w] = "redisable"
        <5>1. SaveOf[pc[w]] = "redisable_save"
          BY <4>3 DEF SaveOf
        <5>2. rec[w].postRev = file.rev
          BY <3>3, <4>3 DEF checkGuard, GuardOf
        <5> QED
          BY <1>0, <4>1, <4>3, <5>1, <5>2 DEF DisableAt, NotDisabled, Scanning
      <4>4. CASE pc[w] = "disable"
        <5>1. SaveOf[pc[w]] = "disable_save"
          BY <4>4 DEF SaveOf
        <5> QED
          BY <1>0, <4>1, <4>4, <5>1 DEF DisableAt, NotDisabled, Scanning
      <4> QED
        BY <1>5, <4>2, <4>3, <4>4 DEF BeforeSave
    <3> QED
      BY <3>1, <3>2, <3>3
  <2> QED
    BY <1>0, <1>5, <1>c, <2>1, <2>2
<1>d. ASSUME pc[w] \in AfterSave PROVE AfterVerdict(w, pc[w], s) = CommitOf[pc[w]]
  <2>1. s.rev # snap[w].rev
    BY <1>d DEF ReadsTrue, TypeOK, Files, Snaps
  <2>2. s.disabled = Target(pc[w])
    BY <1>0, <1>b, <1>d DEF Knows, AfterSave, Target, RevisionsMeanWhatTheySay, AuthorFlag,
                            TypeOK, Files
  <2> QED
    BY <2>1, <2>2 DEF AfterVerdict
<1>6. CASE pc[w] = "enabled" /\ Advance(w, AfterVerdict(w, pc[w], s), rec[w], s)
  <2>1. AfterVerdict(w, pc[w], s) = "commit_enable"
    BY <1>6, <1>d DEF AfterSave, CommitOf
  <2>2. DisableAt("commit_enable", rec[w], s, ev[w])
    BY <1>0, <1>6 DEF DisableAt, NotDisabled, Scanning
  <2> QED
    BY <1>0, <1>6, <1>c, <2>1, <2>2, StageNames DEF Recording
<1>7. CASE pc[w] = "redisabled" /\ Advance(w, AfterVerdict(w, pc[w], s), rec[w], s)
  <2>1. AfterVerdict(w, pc[w], s) = "commit_redisable"
    BY <1>7, <1>d DEF AfterSave, CommitOf
  <2>2. DisableAt("commit_redisable", rec[w], s, ev[w])
    BY <1>0, <1>7, <1>b DEF DisableAt, NotDisabled, Scanning
  <2> QED
    BY <1>0, <1>7, <1>c, <2>1, <2>2, StageNames DEF Recording
<1>8. CASE pc[w] = "disabled" /\ Advance(w, AfterVerdict(w, pc[w], s), ClaimOf(w, s), s)
  <2>1. AfterVerdict(w, pc[w], s) = "claim"
    BY <1>8, <1>d DEF AfterSave, CommitOf
  <2>2. /\ ClaimOf(w, s).phase = "owned_disabled" /\ ClaimOf(w, s).id = ev[w].id
        /\ ClaimOf(w, s).hash = snap[w].content /\ ClaimOf(w, s).saveRev = s.rev
    BY DEF ClaimOf, NoRecord
  <2>3. DisableAt("claim", ClaimOf(w, s), s, ev[w])
    BY <1>0, <1>8, <2>2 DEF DisableAt, NotDisabled, Scanning, Holds, Fits
  <2> QED
    BY <1>8, <1>c, <2>1, <2>3, StageNames, ClaimType DEF Recording
<1> QED
  BY <1>1, <1>2, <1>3, <1>4, <1>5, <1>6, <1>7, <1>8 DEF Decide

\* The host calls keep the disable, when none of them fails.
LEMMA HostGetDisable ==
  ASSUME TypeOK, DisableKept, \A kind : ~Fault(kind), NEW w \in Workers, HostGet(w)
  PROVE  DisableKept'
<1>1. UNCHANGED <<file, record, pc, rec, snap, ev>>
  BY DEF HostGet
<1> QED
  BY <1>1 DEF DisableKept, DisableAt, Holds, Fits, Owned

LEMMA HostGetRuntimeDisable ==
  ASSUME TypeOK, RevisionsMeanWhatTheySay, ReadsTrue, DisableKept,
         \A kind : ~Fault(kind), NEW w \in Workers, HostGetRuntime(w)
  PROVE  DisableKept'
<1>1. /\ Decide(w, SnapshotOf(w, "full"))
      /\ half[w] # NoHalf /\ UNCHANGED <<file, record>>
  BY DEF HostGetRuntime
<1>2. /\ "full" \in DOMAIN Runtime
      /\ Runtime["full"].ok /\ Runtime["full"].rev = file.rev
      /\ Runtime["full"].id = IdOf[file.content]
  BY DEF Runtime
<1>3. PICK s \in Snaps : s = SnapshotOf(w, "full")
  BY <1>2, SnapshotType
<1>4. /\ s.content = half[w].content /\ s.disabled = half[w].disabled
      /\ s.ok /\ s.rev = file.rev /\ s.id = IdOf[file.content]
  BY <1>2, <1>3 DEF SnapshotOf
<1>5. Usable(s)
  BY <1>4 DEF Usable, RevisionsMeanWhatTheySay, RevisionsPast
<1> QED
  BY <1>1, <1>3, <1>4, <1>5, DecideDisable

\* A save that disables is about to be recorded, of the identity that was checked.
LEMMA HostSaveDisable ==
  ASSUME TypeOK, RevisionsMeanWhatTheySay, ReadsTrue, DisableKept,
         \A kind : ~Fault(kind), NEW w \in Workers, HostSave(w)
  PROVE  DisableKept'
<1>0. /\ pc[w] \in Saving /\ lock = w /\ LockHeld /\ UNCHANGED record
      /\ DisableAt(pc[w], rec[w], snap[w], ev[w]) /\ Knows(pc[w], snap[w], ev[w])
      /\ snap[w].content = file.content
  BY StageFamilies DEF HostSave, RevisionsMeanWhatTheySay, LockHeld, DisableKept,
                       StageKnows, ReadsTrue
<1>1. PICK r \in Records, s \in Snaps, e \in Events : r = rec[w] /\ s = snap[w] /\ e = ev[w]
  BY DEF TypeOK
<1>2. PICK stage \in {"enabled", "redisabled", "disabled"} :
        stage = IF pc[w] = "enable_save" THEN "enabled"
                ELSE IF pc[w] = "redisable_save" THEN "redisabled" ELSE "disabled"
  OBVIOUS
<1>3. AfterOf[pc[w]] = stage
  BY <1>0, <1>2 DEF Saving, AfterOf
<1>4. Write(w) /\ Advance(w, stage, r, s)
  BY <1>1, <1>3 DEF HostSave, Continue
<1>5. /\ file'.content = file.content
      /\ file'.author = IF pc[w] = "enable_save" THEN "enable" ELSE "disable"
  BY <1>0, <1>4 DEF Write, AuthorOf, Saving
<1>6. DisableAt(stage, r, s, e)'
  <2>1. CASE pc[w] = "enable_save"
    BY <1>0, <1>1, <1>2, <1>5, <2>1 DEF DisableAt, NotDisabled, Scanning, Owned
  <2>2. CASE pc[w] = "redisable_save"
    BY <1>0, <1>1, <1>2, <1>5, <2>2 DEF DisableAt, NotDisabled, Scanning, Owned, Fits
  <2>3. CASE pc[w] = "disable_save"
    BY <1>0, <1>1, <1>2, <1>5, <2>3 DEF DisableAt, NotDisabled, Scanning, Knows
  <2> QED
    BY <1>0, <2>1, <2>2, <2>3 DEF Saving
<1>7. (file.author = "disable" => Holds(record) \/ stage \in Recording)'
  BY <1>0, <1>2, <1>5 DEF Recording, Saving
<1>8. stage \in Stages \ {"waiting", "resolve"}
  BY StageNames DEF AfterSave
<1> QED
  BY <1>0, <1>1, <1>4, <1>6, <1>7, <1>8, AdvanceDisable

\* A probe runs on an enabled credential, and does not disable it.
LEMMA ProbeDisable ==
  ASSUME TypeOK, RevisionsMeanWhatTheySay, DisableKept, NEW w \in Workers, Probe(w)
  PROVE  DisableKept'
<1>0. /\ pc[w] = "probe" /\ lock = w /\ LockHeld /\ UNCHANGED record
      /\ file \in Files /\ DisableAt(pc[w], rec[w], snap[w], ev[w])
  BY DEF Probe, RevisionsMeanWhatTheySay, LockHeld, TypeOK, DisableKept, Unlocked
<1>1. PICK r \in Records, s \in Snaps, e \in Events : r = rec[w] /\ s = snap[w] /\ e = ev[w]
  BY DEF TypeOK
<1>2. PICK stage \in {"verify", "failed"} : Advance(w, stage, r, s)
  BY <1>1 DEF Probe, Continue
<1>3. file'.author # "disable"
  <2>1. file.author # "disable"
    BY <1>0 DEF DisableAt, NotDisabled
  <2> QED
    BY <1>0, <2>1 DEF Probe, Files
<1>4. DisableAt(stage, r, s, e)'
  BY <1>0, <1>1, <1>3 DEF DisableAt, NotDisabled, Scanning, Owned
<1> QED
  BY <1>0, <1>1, <1>2, <1>3, <1>4, StageNames, AdvanceDisable

\* What the updates that follow a disable leave in the record.
LEMMA UpdatedHolds ==
  ASSUME TypeOK, NEW w \in Workers
  PROVE  /\ ArmedRecord.saveRev = record.saveRev /\ ArmedRecord.hash = record.hash
         /\ RedisabledRecord(w).phase = "owned_disabled"
         /\ RedisabledRecord(w).saveRev = snap[w].rev
         /\ RedisabledRecord(w).hash = snap[w].content
<1>1. record \in Records
  BY DEF TypeOK
<1> QED
  BY <1>1 DEF Records, ArmedRecord, RedisabledRecord

\* The store updates keep the disable, when none of them fails.
LEMMA StoreDisable ==
  ASSUME TypeOK, RevisionsMeanWhatTheySay, DisableKept, \A kind : ~Fault(kind),
         NEW w \in Workers,
         \/ Arm(w) \/ CommitEnable(w) \/ RecordHealthCheck(w) \/ CommitRedisable(w)
         \/ Retire(w) \/ ManualReview(w) \/ RetryLater(w) \/ Claim(w)
  PROVE  DisableKept'
<1>0. /\ pc[w] \in Updating /\ UNCHANGED file /\ LockHeld
      /\ DisableAt(pc[w], rec[w], snap[w], ev[w])
  BY DEF Arm, CommitEnable, RecordHealthCheck, CommitRedisable, Retire, ManualReview,
         RetryLater, Claim, Updating, RevisionsMeanWhatTheySay, DisableKept
<1>a. lock = w
  BY <1>0, StageFamilies DEF LockHeld
<1>b. \A stage : ~UpdateFails(w, stage)
  BY DEF UpdateFails
<1>c. PICK q \in Records, s \in Snaps, e \in Events : q = rec[w] /\ s = snap[w] /\ e = ev[w]
  BY DEF TypeOK
<1>d. {"idle", "retire", "enable", "probe", "review"} \subseteq Stages \ {"waiting", "resolve"}
  BY StageNames
<1>e. ASSUME Continue(w, "idle"), (file.author = "disable" => Holds(record))'
      PROVE  DisableKept'
  <2>1. Advance(w, "idle", q, s) /\ DisableAt("idle", q, s, e)'
    BY <1>c, <1>e DEF Continue, DisableAt, NotDisabled, Scanning
  <2> QED
    BY <1>0, <1>a, <1>c, <1>d, <1>e, <2>1, AdvanceDisable
<1>1. CASE Arm(w)
  <2>1. PICK r \in Records : r = ArmedRecord
    BY UpdateTypes
  <2>2. Owned /\ (file.author = "disable" => Holds(record))
    BY <1>0, <1>1, <1>a, HoldsNow DEF Arm, DisableAt, Scanning, Recording
  <2>3. record' = r /\ Advance(w, "enable", r, s)
    BY <1>1, <1>b, <1>c, <2>1, <2>2 DEF Arm, Amend
  <2>4. /\ r.id = record.id /\ r.phase = "restore_pending"
        /\ r.saveRev = record.saveRev /\ r.hash = record.hash
    BY <2>1, UpdatedTracks, UpdatedHolds
  <2>5. (file.author = "disable" => Holds(record) /\ Holds(r))'
    BY <1>0, <2>2, <2>3, <2>4 DEF Holds, Fits
  <2>6. file.author = "disable" => s.rev = file.rev /\ s.content = file.content
    BY <1>0, <1>1, <1>c DEF Arm, DisableAt
  <2>7. DisableAt("enable", r, s, e)'
    BY <1>0, <2>3, <2>4, <2>5, <2>6 DEF DisableAt, NotDisabled, Scanning, Owned
  <2> QED
    BY <1>0, <1>a, <1>c, <1>d, <2>3, <2>5, <2>7, AdvanceDisable
<1>2. CASE CommitEnable(w)
  <2>1. PICK r \in Records : r = EnabledRecord(w)
    BY UpdateTypes
  <2>2. PICK stage \in {"review", "retire", "probe", "idle"} :
          stage = IF Owned THEN PostEnableVerdict(r, s, "probe") ELSE "idle"
    BY PostEnableStages
  <2>3. Advance(w, stage, r, s) /\ (Owned => record' = r)
    BY <1>2, <1>b, <1>c, <2>1, <2>2 DEF CommitEnable, Amend
  <2>4. file'.author # "disable"
    BY <1>0, <1>2 DEF CommitEnable, DisableAt, NotDisabled
  <2>5. stage # "idle" => Owned' /\ r.id = record'.id
    BY <2>1, <2>2, <2>3, UpdatedTracks DEF Owned
  <2>6. DisableAt(stage, r, s, e)'
    BY <2>4, <2>5 DEF DisableAt, NotDisabled, Scanning
  <2> QED
    BY <1>0, <1>a, <1>c, <1>d, <2>3, <2>4, <2>6, AdvanceDisable
<1>3. CASE RecordHealthCheck(w)
  <2>1. Advance(w, "retire", q, s)
    BY <1>3, <1>b, <1>c DEF RecordHealthCheck, Continue
  <2>2. file'.author # "disable"
    BY <1>0, <1>3 DEF RecordHealthCheck, DisableAt, NotDisabled
  <2>3. DisableAt("retire", q, s, e)'
    BY <2>2 DEF DisableAt, NotDisabled, Scanning
  <2> QED
    BY <1>0, <1>a, <1>c, <1>d, <2>1, <2>2, <2>3, AdvanceDisable
<1>4. CASE CommitRedisable(w)
  <2>1. /\ Owned /\ rec[w].id = record.id
        /\ file.author = "disable" =>
             Fits(rec[w]) /\ snap[w].rev = file.rev /\ snap[w].content = file.content
    BY <1>0, <1>4 DEF CommitRedisable, DisableAt, Scanning
  <2>2. record' = RedisabledRecord(w) /\ Continue(w, "idle")
    BY <1>4, <1>b, <2>1 DEF CommitRedisable, Amend
  <2>3. (file.author = "disable" => Holds(record))'
    BY <1>0, <2>1, <2>2, UpdatedTracks, UpdatedHolds DEF Holds, Fits
  <2> QED
    BY <1>e, <2>2, <2>3
<1>5. CASE Retire(w) \/ ManualReview(w)
  <2>1. file'.author # "disable"
    BY <1>0, <1>5 DEF Retire, ManualReview, DisableAt, NotDisabled
  <2> QED
    BY <1>5, <1>b, <1>e, <2>1 DEF Retire, ManualReview
<1>6. CASE RetryLater(w)
  BY <1>0, <1>6 DEF RetryLater, DisableAt
<1>7. CASE Claim(w)
  <2>1. record' = rec[w] /\ Continue(w, "idle")
    BY <1>7, <1>b DEF Claim
  <2>2. (file.author = "disable" => Holds(record))'
    BY <1>0, <1>7, <2>1 DEF Claim, DisableAt, Holds, Fits
  <2> QED
    BY <1>e, <2>1, <2>2
<1> QED
  BY <1>1, <1>2, <1>3, <1>4, <1>5, <1>6, <1>7

\* The steps a worker takes outside the lock keep the disable: a scan copies a
\* record that holds it.
LEMMA OutsideDisable ==
  ASSUME TypeOK, RevisionsMeanWhatTheySay, DisableKept, \A kind : ~Fault(kind),
         NEW w \in Workers,
         \/ ScanPick(w) \/ ScanLock(w) \/ UsageEvent(w) \/ Resolve(w)
         \/ UsageLock(w) \/ SafeErrorRead(w) \/ SafeErrorWrite(w)
  PROVE  DisableKept'
<1>0. /\ UNCHANGED <<file, snap>> /\ pc \in [Workers -> Stages] /\ rec \in [Workers -> Records]
      /\ ev \in [Workers -> Events] /\ pc[w] \in Unlocked
      /\ DisableAt(pc[w], rec[w], snap[w], ev[w])
  BY DEF ScanPick, ScanLock, UsageEvent, Resolve, UsageLock, SafeErrorRead,
         SafeErrorWrite, TypeOK, DisableKept, Unlocked, workerVars
<1>1. ASSUME UNCHANGED record,
             \A x \in Workers \ {w} : pc'[x] = pc[x] /\ rec'[x] = rec[x] /\ ev'[x] = ev[x],
             DisableAt(pc[w], rec[w], snap[w], ev[w])',
             w \in Usages /\ pc'[w] = "waiting" => ev'[w].named
      PROVE  DisableKept'
  <2>1. (file.author = "disable" => Holds(record) \/ \E x \in Workers : pc[x] \in Recording)'
    <3>1. pc[w] \notin Recording
      BY <1>0 DEF Unlocked, Recording
    <3> QED
      BY <1>0, <1>1, <3>1 DEF DisableKept, Holds, Fits
  <2>2. \A x \in Workers \ {w} : DisableAt(pc[x], rec[x], snap[x], ev[x])'
    BY <1>0, <1>1 DEF DisableKept, DisableAt, Holds, Fits, Owned
  <2>3. \A x \in Usages : pc'[x] = "waiting" => ev'[x].named
    <3> TAKE x \in Usages
    <3>1. CASE x = w
      BY <1>1, <3>1
    <3>2. CASE x \in Workers \ {w}
      BY <1>1, <3>2 DEF DisableKept
    <3> QED
      BY <3>1, <3>2 DEF Workers
  <2> QED
    BY <1>1, <2>1, <2>2, <2>3 DEF DisableKept
<1>2. CASE ScanPick(w)
  <2>1. UNCHANGED <<record, rec, ev>> /\ pc' = [pc EXCEPT ![w] = "waiting"] /\ w \notin Usages
    BY <1>2, OwnershipAssumption DEF ScanPick, workerVars
  <2>2. DisableAt(pc[w], rec[w], snap[w], ev[w])'
    BY <1>0, <2>1 DEF DisableAt, NotDisabled, Scanning
  <2> QED
    BY <1>0, <1>1, <2>1, <2>2
<1>3. CASE ScanLock(w)
  <2>1. UNCHANGED <<record, ev>> /\ lock = None
    BY <1>3 DEF ScanLock
  <2>2. CASE /\ Owned /\ pc' = [pc EXCEPT ![w] = "inspect"] /\ rec' = [rec EXCEPT ![w] = record]
    <3>1. file.author = "disable" => Holds(record)
      BY <2>1, HoldsNow DEF RevisionsMeanWhatTheySay
    <3>2. DisableAt(pc[w], rec[w], snap[w], ev[w])'
      BY <1>0, <2>1, <2>2, <3>1 DEF DisableAt, NotDisabled, Scanning, Holds, Fits, Owned
    <3> QED
      BY <1>0, <1>1, <2>1, <2>2, <3>2
  <2>3. CASE pc' = [pc EXCEPT ![w] = "idle"] /\ UNCHANGED rec
    <3>1. DisableAt(pc[w], rec[w], snap[w], ev[w])'
      BY <1>0, <2>3 DEF DisableAt, NotDisabled, Scanning
    <3> QED
      BY <1>0, <1>1, <2>1, <2>3, <3>1
  <2> QED
    BY <1>3, <2>2, <2>3 DEF ScanLock
<1>4. CASE UsageEvent(w)
  <2>1. /\ UNCHANGED <<record, rec>> /\ pc' = [pc EXCEPT ![w] = "resolve"]
        /\ ev' = [ev EXCEPT ![w] = [named |-> TRUE, id |-> IdOf[file.content]]]
    BY <1>4 DEF UsageEvent
  <2>2. DisableAt(pc[w], rec[w], snap[w], ev[w])'
    BY <1>0, <2>1 DEF DisableAt, NotDisabled, Scanning
  <2> QED
    BY <1>0, <1>1, <2>1, <2>2
<1>5. CASE Resolve(w)
  <2>1. UNCHANGED <<record, rec>> /\ ev[w] \in Events /\ ev[w].named
    BY <1>0, <1>5 DEF Resolve, DisableAt
  <2>2. CASE pc' = [pc EXCEPT ![w] = "idle"] /\ ev' = [ev EXCEPT ![w] = NoEvent]
    <3>1. DisableAt(pc[w], rec[w], snap[w], ev[w])'
      BY <1>0, <2>2 DEF DisableAt, NotDisabled, Scanning
    <3> QED
      BY <1>0, <1>1, <2>1, <2>2, <3>1
  <2>3. CASE pc' = [pc EXCEPT ![w] = "waiting"] /\ ev' = [ev EXCEPT ![w].id = IdOf[file.content]]
    <3>1. DisableAt(pc[w], rec[w], snap[w], ev[w])'
      BY <1>0, <2>3 DEF DisableAt, NotDisabled, Scanning
    <3>2. ev'[w].named
      BY <1>0, <2>1, <2>3 DEF Events
    <3> QED
      BY <1>0, <1>1, <2>1, <2>3, <3>1, <3>2
  <2> QED
    BY <1>5, <2>2, <2>3 DEF Resolve
<1>6. CASE UsageLock(w)
  <2>1. /\ UNCHANGED <<record, rec, ev>> /\ pc' = [pc EXCEPT ![w] = "usage"]
        /\ ev[w].named
    BY <1>6 DEF UsageLock, workerVars, DisableKept
  <2>2. DisableAt(pc[w], rec[w], snap[w], ev[w])'
    BY <1>0, <2>1 DEF DisableAt, NotDisabled, Scanning
  <2> QED
    BY <1>0, <1>1, <2>1, <2>2
<1>7. CASE SafeErrorRead(w) \/ SafeErrorWrite(w)
  BY <1>0, <1>7 DEF SafeErrorRead, SafeErrorWrite, DisableAt
<1> QED
  BY <1>2, <1>3, <1>4, <1>5, <1>6, <1>7

\* Nor does the environment lose the disable, as long as it fails nobody.
LEMMA EnvironmentDisable ==
  ASSUME UserRaces = {}, TypeOK, RevisionsMeanWhatTheySay, DisableKept,
         \A kind : ~Fault(kind), UserEdit \/ Crash \/ Elapse \/ UNCHANGED vars
  PROVE  DisableKept'
<1>1. CASE UserEdit
  <2>1. /\ file'.author = "user" /\ file'.rev = file.rev + 1
        /\ UNCHANGED <<record, pc, rec, snap, ev>>
    BY <1>1 DEF UserEdit, workerVars
  <2>2. \A x \in Workers : pc[x] \notin Saving /\ pc[x] \notin AfterSave
    BY <1>1 DEF UserEdit, MayEdit, InBeforeWindow
  <2>3. \A x \in Workers : rec[x].postRev # file'.rev
    BY <2>1 DEF TypeOK, Files, Records, RevisionsMeanWhatTheySay, RecordsBound, Bound
  <2>4. ASSUME NEW x \in Workers PROVE DisableAt(pc[x], rec[x], snap[x], ev[x])'
    <3>1. DisableAt(pc[x], rec[x], snap[x], ev[x])
      BY DEF DisableKept
    <3>2. pc[x] \notin {"redisable_save", "redisabled", "disabled"}
      BY <2>2 DEF Saving, AfterSave
    <3> QED
      BY <2>1, <2>3, <3>1, <3>2 DEF DisableAt, Owned
  <2> QED
    BY <2>1, <2>4 DEF DisableKept
<1>2. ~Crash
  BY DEF Crash
<1>3. CASE Elapse \/ UNCHANGED vars
  <2>1. /\ UNCHANGED <<file, pc, rec, snap, ev>>
        /\ record'.phase = record.phase /\ record'.id = record.id
        /\ record'.saveRev = record.saveRev /\ record'.hash = record.hash
    BY <1>3 DEF Elapse, vars, workerVars, TypeOK, Records
  <2> QED
    BY <2>1 DEF DisableKept, DisableAt, Holds, Fits, Owned
<1> QED
  BY <1>1, <1>2, <1>3

\* The invariant is inductive for an operator who makes no edit in a save window.
LEMMA DisableStep ==
  ASSUME UserRaces = {}, TypeOK, RevisionsMeanWhatTheySay, ReadsTrue,
         DisableFollowed, [Next]_vars
  PROVE  DisableFollowed'
<1> SUFFICES ASSUME faults' = 0 PROVE DisableKept'
  BY DEF DisableFollowed
<1>1. faults = 0 /\ \A kind : ~Fault(kind)
  BY FaultsCount
<1>2. DisableKept
  BY <1>1 DEF DisableFollowed
<1>3. ASSUME NEW w \in Workers, Step(w) \/ ScanPick(w) \/ UsageEvent(w)
      PROVE  DisableKept'
  BY <1>1, <1>2, <1>3, HostGetDisable, HostGetRuntimeDisable, HostSaveDisable,
     ProbeDisable, StoreDisable, OutsideDisable DEF Step
<1> QED
  BY <1>1, <1>2, <1>3, EnvironmentDisable DEF Next

\* Until the first fault, what disableFromQuota and the scans have in hand, and the
\* record, hold every disable of the plugin, or the holder of the lock is about to
\* record it.
THEOREM DisablesFollowed ==
  ASSUME UserRaces = {}
  PROVE  Spec => []DisableFollowed
<1>1. Init => DisableFollowed
  <2> SUFFICES ASSUME Init PROVE DisableKept
    BY DEF DisableFollowed
  <2>1. file.author = "user" /\ \A w \in Workers : pc[w] = "idle" /\ half[w] = NoHalf
    BY DEF Init
  <2>2. \A w \in Workers : DisableAt(pc[w], rec[w], snap[w], ev[w])
    BY <2>1 DEF DisableAt, NotDisabled, Scanning
  <2>3. \A w \in Usages : pc[w] # "waiting"
    BY <2>1 DEF Workers
  <2> QED
    BY <2>1, <2>2, <2>3 DEF DisableKept
<1>2. DisableFollowed /\ ReadsTrue /\ TypeOK /\ RevisionsMeanWhatTheySay /\ [Next]_vars
        => DisableFollowed'
  BY DisableStep
<1> QED
  BY <1>1, <1>2, ReadsAreTrue, TypeCorrect, RevisionsCorrect, PTL DEF Spec

\* Until the first fault, a credential that the plugin disabled, and nobody works
\* on, has the record that lets a later scan enable it, through every interleaving
\* of usage events, scans and edits outside the save windows.
THEOREM DisablesTracked ==
  ASSUME UserRaces = {}
  PROVE  Spec => []DisableTrackedUntilFault
<1>1. DisableFollowed /\ TypeOK /\ RevisionsMeanWhatTheySay => DisableTrackedUntilFault
  <2> SUFFICES ASSUME DisableKept, TypeOK, RevisionsMeanWhatTheySay,
                      file.author = "disable", lock = None
               PROVE  Holds(record)
    BY DEF DisableFollowed, DisableTrackedUntilFault, DisableTracked, Holds
  <2> QED
    BY HoldsNow DEF RevisionsMeanWhatTheySay
<1> QED
  BY <1>1, DisablesFollowed, TypeCorrect, RevisionsCorrect, PTL

-----------------------------------------------------------------------------
(* The abstract specification.                                             *)

\* The step of Custody that a save of the plugin is, by the change it makes.
LEMMA SaveKeepsCustody ==
  ASSUME TypeOK, RevisionsMeanWhatTheySay, AttemptFollowed, NEW w \in Workers, HostSave(w)
  PROVE  [InCustody!Next]_InCustody!vars
<1>0. /\ pc[w] \in Saving /\ UNCHANGED record /\ AuthorFlag
      /\ Knows(pc[w], snap[w], ev[w]) /\ AttemptAt(pc[w], rec[w], snap[w])
      /\ file.disabled \in BOOLEAN /\ file.author \in Authors
  BY DEF HostSave, RevisionsMeanWhatTheySay, StageKnows, AttemptFollowed, TypeOK, Files
<1>1. CASE UNCHANGED file
  BY <1>0, <1>1 DEF InCustody!vars
<1>2. CASE Write(w)
  <2>1. file'.disabled = Target(pc[w]) /\ file'.author = AuthorOf[pc[w]]
    BY <1>2 DEF Write
  <2>2. CASE pc[w] = "enable_save"
    <3>1. file.author = "disable" /\ file.disabled /\ record.phase = "restore_pending"
      BY <1>0, <2>2 DEF Knows, AuthorFlag, AttemptAt
    <3>2. ~Target(pc[w]) /\ AuthorOf[pc[w]] = "enable"
      BY <2>2 DEF Target, AuthorOf
    <3>3. file'.disabled = FALSE /\ file'.author = "enable"
      BY <2>1, <3>2, Target(pc[w]) \in BOOLEAN DEF Target
    <3>4. InCustody!Enable
      BY <1>0, <3>1, <3>3 DEF InCustody!Enable
    <3> QED
      BY <3>4 DEF InCustody!Next
  <2>3. CASE pc[w] = "redisable_save"
    <3>1. file.author \in {"enable", "verified"} /\ ~file.disabled
      BY <1>0, <2>3 DEF Knows, AuthorFlag
    <3>2. Target(pc[w]) /\ AuthorOf[pc[w]] = "disable"
      BY <2>3 DEF Target, AuthorOf
    <3>3. file'.disabled = TRUE /\ file'.author = "disable"
      BY <2>1, <3>2, Target(pc[w]) \in BOOLEAN DEF Target
    <3>4. InCustody!TakeBack
      BY <1>0, <3>1, <3>3 DEF InCustody!TakeBack
    <3> QED
      BY <3>4 DEF InCustody!Next
  <2>4. CASE pc[w] = "disable_save"
    <3>1. file.author \in {"user", "verified"} /\ ~file.disabled
      BY <1>0, <2>4 DEF Knows, AuthorFlag, AttemptAt, NotEnabled, Authors
    <3>2. Target(pc[w]) /\ AuthorOf[pc[w]] = "disable"
      BY <2>4 DEF Target, AuthorOf
    <3>3. file'.disabled = TRUE /\ file'.author = "disable"
      BY <2>1, <3>2, Target(pc[w]) \in BOOLEAN DEF Target
    <3>4. InCustody!Disable
      BY <1>0, <3>1, <3>3 DEF InCustody!Disable
    <3> QED
      BY <3>4 DEF InCustody!Next
  <2> QED
    BY <1>0, <2>2, <2>3, <2>4 DEF Saving
<1> QED
  BY <1>1, <1>2 DEF HostSave

\* A probe vouches for the enable its record names, and says nothing of any other
\* write.
LEMMA ProbeKeepsCustody ==
  ASSUME TypeOK, RevisionsMeanWhatTheySay, NEW w \in Workers, Probe(w)
  PROVE  [InCustody!Next]_InCustody!vars
<1>1. CASE UNCHANGED file
  BY <1>1 DEF Probe, InCustody!vars
<1>2. CASE file.rev = rec[w].postRev /\ file' = [file EXCEPT !.author = "verified"]
  <2>1. /\ UNCHANGED record /\ file'.author = "verified" /\ file'.disabled = file.disabled
        /\ file.author \in {"enable", "verified"}
    BY <1>2 DEF Probe, TypeOK, Files, RevisionsMeanWhatTheySay, RecordsBound, Bound
  <2>2. CASE file.author = "enable"
    BY <2>1, <2>2 DEF InCustody!Next, InCustody!Vouch
  <2>3. CASE file.author = "verified"
    BY <2>1, <2>3 DEF InCustody!vars
  <2> QED
    BY <2>1, <2>2, <2>3
<1> QED
  BY <1>1, <1>2 DEF Probe

\* Every other step of the plugin leaves the file alone, and the record of a trial
\* tells of it after the step.
LEMMA ElsewhereKeepsCustody ==
  ASSUME AttemptFollowed', UNCHANGED file
  PROVE  [InCustody!Next]_InCustody!vars
BY DEF AttemptFollowed, Tracks, InCustody!Next, InCustody!Watch

\* Each step does what Custody allows, or nothing that it speaks of.
LEMMA CustodyStep ==
  ASSUME TypeOK, RevisionsMeanWhatTheySay, AttemptFollowed, AttemptFollowed', [Next]_vars
  PROVE  [InCustody!Next]_InCustody!vars
<1>1. ASSUME NEW w \in Workers, Step(w) \/ ScanPick(w) \/ UsageEvent(w)
      PROVE  [InCustody!Next]_InCustody!vars
  <2>1. \/ HostSave(w) \/ Probe(w)
        \/ UNCHANGED file
    BY <1>1 DEF Step, ScanPick, UsageEvent, ScanLock, Resolve, UsageLock, HostGet,
                HostGetRuntime, Arm, CommitEnable, RecordHealthCheck, CommitRedisable,
                Retire, ManualReview, RetryLater, Claim, SafeErrorRead, SafeErrorWrite
  <2> QED
    BY <2>1, SaveKeepsCustody, ProbeKeepsCustody, ElsewhereKeepsCustody
<1>2. CASE UserEdit
  <2>1. file'.disabled \in BOOLEAN /\ file'.author = "user" /\ UNCHANGED record
    BY <1>2 DEF UserEdit
  <2> QED
    BY <2>1 DEF InCustody!Next, InCustody!Edit
<1>3. CASE Elapse \/ Crash \/ UNCHANGED vars
  BY <1>3, ElsewhereKeepsCustody DEF Elapse, Crash, vars
<1> QED
  BY <1>1, <1>2, <1>3 DEF Next

\* What disableFromQuota and the scans do to the flag, and to the record, is what the
\* operator is promised: the plugin undoes nothing but its own writes, disables no
\* credential on trial, and is on the watch from before a trial begins until it is
\* decided.  It is so on a host whose runtime entries have ids, for an operator who makes
\* no edit inside a save window; every other error, a crash and a scan at the same time
\* may happen.
THEOREM CustodyKept ==
  ASSUME UserRaces = {}, "no_id" \notin Faults
  PROVE  Spec => KeepsCustody
<1>1. Init => InCustody!Init
  BY DEF Init, InCustody!Init, NoRecord
<1>2. TypeOK /\ RevisionsMeanWhatTheySay /\ AttemptFollowed /\ AttemptFollowed'
        /\ [Next]_vars => [InCustody!Next]_InCustody!vars
  BY CustodyStep
<1> QED
  BY <1>1, <1>2, TypeCorrect, RevisionsCorrect, AttemptsFollowed, PTL
     DEF Spec, KeepsCustody, InCustody!Spec

=============================================================================
