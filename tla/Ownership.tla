------------------------------ MODULE Ownership ------------------------------
(***************************************************************************)
(* Who may flip the native "disabled" flag of one CPA credential.          *)
(*                                                                         *)
(* Usage goroutines (Controller.disableFromQuota) disable a credential     *)
(* whose quota is exhausted and claim it with a durable ownership record.  *)
(* Recovery scans (Manager.Scan) enable a claimed credential, probe it,    *)
(* and either forget it or disable it again.  The operator, and the CPA    *)
(* host itself, edit the same file at any moment.                          *)
(*                                                                         *)
(* A Repository.Snapshot is two host calls, Get and then GetRuntime; a     *)
(* guarded change of the flag is Snapshot, check, Save, Snapshot.  Each    *)
(* host call and each store.Update is one step, so everybody else may run  *)
(* between any two of them.  The per-credential lock, the record and the   *)
(* file are keyed by auth index and no step reads another index, so one    *)
(* credential is modelled.                                                 *)
(*                                                                         *)
(* An operator whose comment starts with "Mutant" is no part of the model: *)
(* it is the operator below it with a mistake, kept to show that a property *)
(* notices.                                                                *)
(***************************************************************************)
EXTENDS Naturals

CONSTANTS
  Scanners,   \* concurrent callers of Manager.Scan: ticker, POST /scan
  Usages,     \* usage goroutines started by Controller.HandleUsage
  Contents,   \* credential JSON without "disabled" (what the hash tells apart)
  Ids,        \* runtime identities of credentials (AuthID)
  IdOf,       \* the identity a credential JSON belongs to
  None,       \* an absent content or identity (the empty string in the code)
  Faults,     \* the kinds of fault that may happen, out of FaultKinds
  UserRaces,  \* the save windows the operator may edit in, out of RaceKinds
  MaxFaults,  \* bound: faults in a behaviour
  MaxRev,     \* bound: writes of the file after which no new work falls due
  MaxLevel    \* maxRecoveryBackoffLevel, 32 in the code

FaultKinds == {"get", "runtime", "no_revision", "no_id", "unnamed",
               "save", "save_reply", "store", "crash"}
RaceKinds == {"before_save", "after_save"}

ASSUME OwnershipAssumption ==
  /\ Scanners \cap Usages = {}
  /\ IdOf \in [Contents -> Ids]
  /\ None \notin Contents \cup Ids \cup Scanners \cup Usages
  /\ Faults \subseteq FaultKinds
  /\ UserRaces \subseteq RaceKinds
  /\ MaxFaults \in Nat
  /\ MaxRev \in Nat
  /\ MaxLevel \in Nat \ {0}

VARIABLES
  file,    \* the credential file at the host, with the author of its last write
  record,  \* the ownership record in state.json, NoRecord when there is none
  lock,    \* holder of the per-credential lock, None when free
  pc,      \* where each worker stands
  rec,     \* the worker's copy of the record
  half,    \* what Host.Get returned while Host.GetRuntime is still to come
  snap,    \* the worker's last complete Snapshot
  ev,      \* the usage event a usage goroutine handles
  same,    \* has AttemptID stayed as this scan first read it
  faults   \* faults so far

workerVars == <<rec, half, snap, ev>>
vars == <<file, record, lock, pc, workerVars, same, faults>>

Workers == Scanners \cup Usages
NoRev == 0

Phases == {"none", "owned_disabled", "restore_pending", "probe_pending",
           "manual_review"}

NoRecord == [phase |-> "none", id |-> None, hash |-> None, saveRev |-> NoRev,
             postHash |-> None, postRev |-> NoRev, level |-> 0, wait |-> FALSE]
NoHalf == [content |-> None, disabled |-> FALSE]
NoSnap == [content |-> None, disabled |-> FALSE, ok |-> FALSE, rev |-> NoRev,
           id |-> None]
NoEvent == [named |-> FALSE, id |-> None]

Owned == record.phase # "none"

-----------------------------------------------------------------------------
(* Stages of a worker.  The three families that change the flag:           *)
(*   before a save (Get, GetRuntime, guard), the save, after it.           *)
BeforeSave == {"enable", "redisable", "disable"}
Saving     == {"enable_save", "redisable_save", "disable_save"}
AfterSave  == {"enabled", "redisabled", "disabled"}
Looking    == {"inspect", "verify", "failed", "usage"}
SnapStages == BeforeSave \cup AfterSave \cup Looking
Updating   == {"arm", "commit_enable", "record_health", "commit_redisable",
               "retire", "review", "backoff", "claim"}
Unlocked   == {"idle", "resolve", "waiting", "safe_error", "safe_error_write"}
Stages     == SnapStages \cup Saving \cup Updating \cup Unlocked \cup {"probe"}

\* The value of "disabled" a stage of a guarded change asks for.
Target(stage) == stage \notin {"enable", "enable_save", "enabled"}

SaveOf == [enable |-> "enable_save", redisable |-> "redisable_save",
           disable |-> "disable_save"]
AfterOf == [enable_save |-> "enabled", redisable_save |-> "redisabled",
            disable_save |-> "disabled"]
CommitOf == [enable |-> "commit_enable", redisable |-> "commit_redisable",
             disable |-> "idle", enabled |-> "commit_enable",
             redisabled |-> "commit_redisable", disabled |-> "claim"]

\* Where an error of the host that is not a guard failure leads.
ErrorOf == [inspect |-> "safe_error", verify |-> "safe_error",
            failed |-> "safe_error", usage |-> "idle",
            enable |-> "backoff", enable_save |-> "backoff",
            enabled |-> "backoff",
            redisable |-> "review", redisable_save |-> "review",
            redisabled |-> "review",
            disable |-> "idle", disable_save |-> "idle", disabled |-> "idle"]

\* ErrRevisionUnavailable and ErrRevisionMismatch, by the change attempted.
GuardErrorOf == [enable |-> "review", redisable |-> "review",
                 disable |-> "idle"]

-----------------------------------------------------------------------------
(* What a snapshot tells.                                                  *)

Usable(s) == s.ok /\ s.rev # NoRev

\* The content hash and revision each change is guarded by: those of the enable that
\* a second disable undoes, or those just seen.  An enable is guarded by the record as
\* processLocked read it, not as it was armed; StartVerdict has found that record to
\* name the hash and revision of the snapshot.
GuardOf(w, stage) ==
  IF stage = "redisable" THEN <<rec[w].postHash, rec[w].postRev>>
  ELSE <<snap[w].content, snap[w].rev>>

\* Mutant: the content hash is compared, the revision is not.
checkHashOnly(w, stage, s) == GuardOf(w, stage)[1] = s.content

checkGuard(w, stage, s) == GuardOf(w, stage) = <<s.content, s.rev>>

guardMatchesPostEnable(r, s) ==
  /\ Usable(s) /\ ~s.disabled
  /\ r.id \in {None, s.id}
  /\ s.content = r.postHash
  /\ s.rev = r.postRev

\* The three checks that stand before the probe, after it and before the
\* second disable.
PostEnableVerdict(r, s, onward) ==
  IF ~Usable(s) THEN "review"
  ELSE IF s.disabled \/ ~guardMatchesPostEnable(r, s) THEN "retire"
  ELSE onward

\* startRecoveryLocked up to its first write.
StartVerdict(r, s) ==
  IF r.saveRev = NoRev \/ ~Usable(s) THEN "review"
  ELSE IF s.content # r.hash \/ s.rev # r.saveRev THEN "retire"
  ELSE "arm"

\* Mutant: an enabled credential whose enable was never committed is an error to
\* retry, not a case for the operator.
InspectRetriesUncommitted(r, s) ==
  IF r.id # None /\ s.id # None /\ s.id # r.id THEN "retire"
  ELSE IF r.id # None /\ s.ok /\ s.id = None THEN "review"
  ELSE IF r.phase = "probe_pending" THEN PostEnableVerdict(r, s, "probe")
  ELSE IF s.disabled THEN StartVerdict(r, s)
  ELSE IF r.phase = "restore_pending" THEN "safe_error"
  ELSE "retire"

\* processLocked once it has its snapshot.
InspectVerdict(r, s) ==
  IF r.id # None /\ s.id # None /\ s.id # r.id THEN "retire"
  ELSE IF r.id # None /\ s.ok /\ s.id = None THEN "review"
  ELSE IF r.phase = "probe_pending" THEN PostEnableVerdict(r, s, "probe")
  ELSE IF s.disabled THEN StartVerdict(r, s)
  ELSE IF r.phase = "restore_pending" THEN "review"
  ELSE "retire"

\* Mutant: the identity is compared when the event is resolved, not again under
\* the lock.
UsageTrustsResolve(e, s) ==
  IF s.disabled \/ ~Usable(s) \/ Owned THEN "idle" ELSE "disable"

\* disableFromQuota between its snapshot and the guarded change.
UsageVerdict(e, s) ==
  IF \/ e.named /\ s.id # e.id
     \/ s.disabled
     \/ ~Usable(s)
     \/ Owned
  THEN "idle" ELSE "disable"

\* MutateAndSaveLocked before the save.
BeforeVerdict(w, stage, s) ==
  IF ~Usable(s) \/ ~checkGuard(w, stage, s) THEN GuardErrorOf[stage]
  ELSE IF s.disabled = Target(stage) THEN CommitOf[stage]
  ELSE SaveOf[stage]

\* MutateAndSaveLocked after the save; snap[w] is still the snapshot before it.
AfterVerdict(w, stage, s) ==
  IF ~Usable(s) \/ s.rev = snap[w].rev \/ s.disabled # Target(stage)
  THEN ErrorOf[stage] ELSE CommitOf[stage]

-----------------------------------------------------------------------------
(* Moving between stages.                                                  *)

\* Go on to a stage with a record copy and a snapshot.  Returning from the
\* WithLock body hands the lock back and drops everything.
Advance(w, stage, r, s) ==
  LET leaving == stage \in Unlocked IN
  /\ pc'   = [pc EXCEPT ![w] = stage]
  /\ lock' = IF leaving THEN None ELSE lock
  /\ rec'  = [rec EXCEPT ![w] = IF leaving THEN NoRecord ELSE r]
  /\ snap' = [snap EXCEPT ![w] = IF leaving THEN NoSnap ELSE s]
  /\ half' = [half EXCEPT ![w] = NoHalf]
  /\ ev'   = [ev EXCEPT ![w] = IF leaving THEN NoEvent ELSE @]

Continue(w, stage) == Advance(w, stage, rec[w], snap[w])

\* An operation fails for a reason of its environment.
Fault(kind) ==
  /\ kind \in Faults
  /\ faults < MaxFaults
  /\ faults' = faults + 1

-----------------------------------------------------------------------------
(* Scans.                                                                  *)

\* Scan reads the store and finds the record due; it now wants the lock.
ScanPick(w) ==
  /\ w \in Scanners
  /\ pc[w] = "idle"
  /\ Owned /\ ~record.wait
  /\ pc' = [pc EXCEPT ![w] = "waiting"]
  /\ same' = [same EXCEPT ![w] = TRUE]
  /\ UNCHANGED <<file, record, lock, workerVars, faults>>

\* Under the lock the record is read again; a record that is gone, not due any
\* more, or under manual review is left alone.
ScanLock(w) ==
  /\ w \in Scanners
  /\ pc[w] = "waiting"
  /\ lock = None
  /\ IF Owned /\ ~record.wait /\ record.phase # "manual_review"
     THEN /\ lock' = w
          /\ pc' = [pc EXCEPT ![w] = "inspect"]
          /\ rec' = [rec EXCEPT ![w] = record]
     ELSE /\ pc' = [pc EXCEPT ![w] = "idle"]
          /\ UNCHANGED <<lock, rec>>
  /\ UNCHANGED <<file, record, half, snap, ev, same, faults>>

-----------------------------------------------------------------------------
(* Usage events.                                                           *)

\* A request failed with exhausted quota.  The event names the identity it ran
\* under, or only the auth index.
UsageEvent(w) ==
  /\ w \in Usages
  /\ pc[w] = "idle"
  /\ file.rev <= MaxRev
  /\ \/ /\ ev' = [ev EXCEPT ![w] = [named |-> TRUE, id |-> IdOf[file.content]]]
        /\ UNCHANGED faults
     \/ /\ Fault("unnamed")
        /\ UNCHANGED ev
  /\ pc' = [pc EXCEPT ![w] = "resolve"]
  /\ UNCHANGED <<file, record, lock, rec, half, snap, same>>

\* Repository.Resolve lists the credentials, before the lock is asked for.  An event
\* without an identity takes that of the entry, which the host may leave empty.
Resolve(w) ==
  /\ pc[w] = "resolve"
  /\ \E listed \in {IdOf[file.content], None} :
       /\ IF listed = None THEN Fault("no_id") ELSE UNCHANGED faults
       /\ IF ev[w].named /\ ev[w].id # listed
          THEN /\ pc' = [pc EXCEPT ![w] = "idle"]
               /\ ev' = [ev EXCEPT ![w] = NoEvent]
          ELSE /\ pc' = [pc EXCEPT ![w] = "waiting"]
               /\ ev' = [ev EXCEPT ![w].id = listed]
  /\ UNCHANGED <<file, record, lock, rec, half, snap, same>>

\* Mutant: the usage path does not wait for the lock.
UsageBarges(w) ==
  /\ w \in Usages
  /\ pc[w] = "waiting"
  /\ lock' = w
  /\ pc' = [pc EXCEPT ![w] = "usage"]
  /\ UNCHANGED <<file, record, workerVars, same, faults>>

UsageLock(w) ==
  /\ w \in Usages
  /\ pc[w] = "waiting"
  /\ lock = None
  /\ lock' = w
  /\ pc' = [pc EXCEPT ![w] = "usage"]
  /\ UNCHANGED <<file, record, workerVars, same, faults>>

-----------------------------------------------------------------------------
(* Host calls.                                                             *)

HostGet(w) ==
  /\ pc[w] \in SnapStages
  /\ half[w] = NoHalf
  /\ \/ /\ half' = [half EXCEPT ![w] =
                    [content |-> file.content, disabled |-> file.disabled]]
        /\ UNCHANGED <<lock, pc, rec, snap, ev, faults>>
     \/ /\ Fault("get")
        /\ Continue(w, ErrorOf[pc[w]])
  /\ UNCHANGED <<file, record, same>>

\* What Host.GetRuntime can answer: the entry, the entry without size and
\* times, the entry without an id, or an error.
Runtime ==
  [full        |-> [ok |-> TRUE, rev |-> file.rev, id |-> IdOf[file.content]],
   no_revision |-> [ok |-> TRUE, rev |-> NoRev, id |-> IdOf[file.content]],
   no_id       |-> [ok |-> TRUE, rev |-> file.rev, id |-> None],
   runtime     |-> [ok |-> FALSE, rev |-> NoRev, id |-> None]]

SnapshotOf(w, kind) ==
  [content |-> half[w].content, disabled |-> half[w].disabled,
   ok |-> Runtime[kind].ok, rev |-> Runtime[kind].rev, id |-> Runtime[kind].id]

\* Mutant: the claim is bound to the revision before the disable.
ClaimBindsBefore(w, after) ==
  [NoRecord EXCEPT !.phase = "owned_disabled", !.id = ev[w].id,
                   !.hash = snap[w].content, !.saveRev = snap[w].rev,
                   !.wait = TRUE]

\* The record disableFromQuota writes once its change is verified.
ClaimOf(w, after) ==
  [NoRecord EXCEPT !.phase = "owned_disabled", !.id = ev[w].id,
                   !.hash = snap[w].content, !.saveRev = after.rev,
                   !.wait = TRUE]

\* GetRuntime completes the snapshot and the code decides on it.
Decide(w, s) ==
  \/ /\ pc[w] = "inspect"
     /\ Advance(w, InspectVerdict(rec[w], s), rec[w], s)
  \/ /\ pc[w] = "verify"
     /\ Advance(w, PostEnableVerdict(rec[w], s, "record_health"), rec[w], s)
  \/ /\ pc[w] = "failed"
     /\ Advance(w, PostEnableVerdict(rec[w], s, "redisable"), rec[w], s)
  \/ /\ pc[w] = "usage"
     /\ Advance(w, UsageVerdict(ev[w], s), rec[w], s)
  \/ /\ pc[w] \in BeforeSave
     /\ Advance(w, BeforeVerdict(w, pc[w], s), rec[w], s)
  \/ /\ pc[w] \in {"enabled", "redisabled"}
     /\ Advance(w, AfterVerdict(w, pc[w], s), rec[w], s)
  \/ /\ pc[w] = "disabled"
     /\ Advance(w, AfterVerdict(w, pc[w], s), ClaimOf(w, s), s)

HostGetRuntime(w) ==
  /\ half[w] # NoHalf
  /\ \E kind \in DOMAIN Runtime :
       /\ IF kind = "full" THEN UNCHANGED faults ELSE Fault(kind)
       /\ Decide(w, SnapshotOf(w, kind))
  /\ UNCHANGED <<file, record, same>>

\* Who wrote the file last: the operator, a disable of the plugin's or an
\* enable of the plugin's.
AuthorOf == [enable_save |-> "enable", redisable_save |-> "disable",
             disable_save |-> "disable"]

\* Host.Save replaces the whole file by the JSON read before, with the flag
\* changed.  The host compares nothing.
Write(w) ==
  file' = [content |-> snap[w].content, disabled |-> Target(pc[w]),
           rev |-> file.rev + 1, author |-> AuthorOf[pc[w]]]

\* A failing save may or may not have reached the file.
HostSave(w) ==
  /\ pc[w] \in Saving
  /\ \/ /\ Write(w)
        /\ Continue(w, AfterOf[pc[w]])
        /\ UNCHANGED faults
     \/ /\ Fault("save")
        /\ Continue(w, ErrorOf[pc[w]])
        /\ UNCHANGED file
     \/ /\ Fault("save_reply")
        /\ Write(w)
        /\ Continue(w, ErrorOf[pc[w]])
  /\ UNCHANGED <<record, same>>

\* The read-only quota probe.  A success is evidence about the revision it was
\* sent for, as long as that is still the file.
Probe(w) ==
  /\ pc[w] = "probe"
  /\ \/ /\ Continue(w, "verify")
        /\ file' = IF file.rev = rec[w].postRev
                   THEN [file EXCEPT !.author = "verified"] ELSE file
     \/ /\ Continue(w, "failed")
        /\ UNCHANGED file
  /\ UNCHANGED <<record, same, faults>>

-----------------------------------------------------------------------------
(* Store updates.  One that finds no record changes nothing; one that       *)
(* fails leaves disk and memory as they were.                              *)

Amend(r) == record' = IF Owned THEN r ELSE record

UpdateFails(w, stage) ==
  /\ Fault("store")
  /\ Continue(w, stage)
  /\ UNCHANGED <<record, same>>

\* The intent to enable is durable, under a new AttemptID, before the enable.
ArmedRecord == [record EXCEPT !.phase = "restore_pending"]

\* Mutant: the enable goes on when the intent could not be written down.
ArmRegardless(w) ==
  /\ pc[w] = "arm"
  /\ \/ /\ Amend(ArmedRecord)
        /\ Advance(w, IF Owned THEN "enable" ELSE "idle", ArmedRecord, snap[w])
        /\ same' = [x \in Workers |-> FALSE]
        /\ UNCHANGED faults
     \/ UpdateFails(w, "enable")
  /\ UNCHANGED file

Arm(w) ==
  /\ pc[w] = "arm"
  /\ \/ /\ Amend(ArmedRecord)
        /\ Advance(w, IF Owned THEN "enable" ELSE "idle", ArmedRecord, snap[w])
        /\ same' = [x \in Workers |-> FALSE]
        /\ UNCHANGED faults
     \/ UpdateFails(w, "safe_error")
  /\ UNCHANGED file

\* The enable is bound to the revision the host reports for it; probeLocked
\* then looks at the same snapshot again.
EnabledRecord(w) ==
  [record EXCEPT !.phase = "probe_pending", !.postHash = snap[w].content,
                 !.postRev = snap[w].rev]

CommitEnable(w) ==
  /\ pc[w] = "commit_enable"
  /\ \/ /\ Amend(EnabledRecord(w))
        /\ Advance(w, IF Owned
                      THEN PostEnableVerdict(EnabledRecord(w), snap[w], "probe")
                      ELSE "idle",
                   EnabledRecord(w), snap[w])
        /\ UNCHANGED <<same, faults>>
     \/ UpdateFails(w, "safe_error")
  /\ UNCHANGED file

\* The probe result is stored as an observation, which no step here reads.
RecordHealthCheck(w) ==
  /\ pc[w] = "record_health"
  /\ \/ Continue(w, "retire") /\ UNCHANGED <<record, same, faults>>
     \/ UpdateFails(w, "safe_error")
  /\ UNCHANGED file

\* Mutant: the level grows without the cap.
RaiseForever(level) == level + 1

\* scheduleBackoff.
Raise(level) == IF level < MaxLevel THEN level + 1 ELSE level

Backoff(r) == [r EXCEPT !.level = Raise(r.level), !.wait = TRUE]

\* The disable after a failed probe is owned like the first one.
RedisabledRecord(w) ==
  [record EXCEPT !.phase = "owned_disabled",
                 !.level = Raise(rec[w].level), !.wait = TRUE,
                 !.hash = snap[w].content, !.saveRev = snap[w].rev,
                 !.postHash = None, !.postRev = NoRev]

CommitRedisable(w) ==
  /\ pc[w] = "commit_redisable"
  /\ \/ /\ Amend(RedisabledRecord(w))
        /\ Continue(w, "idle")
        /\ UNCHANGED <<same, faults>>
     \/ UpdateFails(w, "safe_error")
  /\ UNCHANGED file

Retire(w) ==
  /\ pc[w] = "retire"
  /\ \/ /\ record' = NoRecord
        /\ Continue(w, "idle")
        /\ UNCHANGED <<same, faults>>
     \/ UpdateFails(w, "safe_error")
  /\ UNCHANGED file

ReviewedRecord == [record EXCEPT !.phase = "manual_review"]

ManualReview(w) ==
  /\ pc[w] = "review"
  /\ \/ /\ Amend(ReviewedRecord)
        /\ Continue(w, "idle")
        /\ UNCHANGED <<same, faults>>
     \/ UpdateFails(w, "safe_error")
  /\ UNCHANGED file

\* retryOrReview for an error that says nothing about the guard: the copy of
\* the armed record goes back, to be tried again later.
RetryLater(w) ==
  /\ pc[w] = "backoff"
  /\ \/ /\ Amend(Backoff(rec[w]))
        /\ Continue(w, "idle")
        /\ UNCHANGED <<same, faults>>
     \/ UpdateFails(w, "safe_error")
  /\ UNCHANGED file

\* disableFromQuota's update replaces whatever record there is.
Claim(w) ==
  /\ pc[w] = "claim"
  /\ \/ /\ record' = rec[w]
        /\ Continue(w, "idle")
        /\ same' = [x \in Workers |-> FALSE]
        /\ UNCHANGED faults
     \/ UpdateFails(w, "idle")
  /\ UNCHANGED file

\* recordSafeError runs after the lock was handed back: it reads the record,
\* computes the backoff, and writes it in a second store access, provided the
\* AttemptID is still the one the scan started from.
SafeErrorRead(w) ==
  /\ pc[w] = "safe_error"
  /\ IF Owned /\ same[w]
     THEN /\ rec' = [rec EXCEPT ![w] = Backoff(record)]
          /\ pc' = [pc EXCEPT ![w] = "safe_error_write"]
     ELSE /\ pc' = [pc EXCEPT ![w] = "idle"]
          /\ UNCHANGED rec
  /\ UNCHANGED <<file, record, lock, half, snap, ev, same, faults>>

\* Mutant: the AttemptID is compared when the record is read, not again when it
\* is written.
SafeErrorWriteAnyAttempt(w) ==
  /\ pc[w] = "safe_error_write"
  /\ \/ /\ record' = IF Owned THEN rec[w] ELSE record
        /\ UNCHANGED faults
     \/ /\ Fault("store")
        /\ UNCHANGED record
  /\ pc' = [pc EXCEPT ![w] = "idle"]
  /\ rec' = [rec EXCEPT ![w] = NoRecord]
  /\ UNCHANGED <<file, lock, half, snap, ev, same>>

SafeErrorWrite(w) ==
  /\ pc[w] = "safe_error_write"
  /\ \/ /\ record' = IF Owned /\ same[w] THEN rec[w] ELSE record
        /\ UNCHANGED faults
     \/ /\ Fault("store")
        /\ UNCHANGED record
  /\ pc' = [pc EXCEPT ![w] = "idle"]
  /\ rec' = [rec EXCEPT ![w] = NoRecord]
  /\ UNCHANGED <<file, lock, half, snap, ev, same>>

-----------------------------------------------------------------------------
(* The environment.                                                        *)

InBeforeWindow(w) ==
  \/ pc[w] \in BeforeSave /\ half[w] # NoHalf
  \/ pc[w] \in Saving

MayEdit ==
  \A w \in Workers :
    /\ InBeforeWindow(w) => "before_save" \in UserRaces
    /\ pc[w] \in AfterSave => "after_save" \in UserRaces

\* The operator edits or replaces the credential, or CPA itself does.  Every
\* write gives the file a revision it never had.
UserEdit ==
  /\ file.rev <= MaxRev
  /\ MayEdit
  /\ \E c \in Contents, d \in BOOLEAN :
       file' = [content |-> c, disabled |-> d, rev |-> file.rev + 1,
                author |-> "user"]
  /\ UNCHANGED <<record, lock, pc, workerVars, same, faults>>

\* NextCheckAt has come.  Past the bound no further attempt falls due, while a
\* started one still does.
Elapse ==
  /\ record.wait
  /\ record.phase = "owned_disabled" => file.rev <= MaxRev
  /\ record' = [record EXCEPT !.wait = FALSE]
  /\ UNCHANGED <<file, lock, pc, workerVars, same, faults>>

\* The process dies and starts again with what state.json holds.
Crash ==
  /\ Fault("crash")
  /\ lock' = None
  /\ pc'   = [w \in Workers |-> "idle"]
  /\ rec'  = [w \in Workers |-> NoRecord]
  /\ half' = [w \in Workers |-> NoHalf]
  /\ snap' = [w \in Workers |-> NoSnap]
  /\ ev'   = [w \in Workers |-> NoEvent]
  /\ same' = [w \in Workers |-> FALSE]
  /\ UNCHANGED <<file, record>>

-----------------------------------------------------------------------------
Init ==
  /\ \E c \in Contents, d \in BOOLEAN :
       file = [content |-> c, disabled |-> d, rev |-> 1, author |-> "user"]
  /\ record = NoRecord
  /\ lock = None
  /\ pc   = [w \in Workers |-> "idle"]
  /\ rec  = [w \in Workers |-> NoRecord]
  /\ half = [w \in Workers |-> NoHalf]
  /\ snap = [w \in Workers |-> NoSnap]
  /\ ev   = [w \in Workers |-> NoEvent]
  /\ same = [w \in Workers |-> FALSE]
  /\ faults = 0

Step(w) ==
  \/ ScanLock(w) \/ Resolve(w) \/ UsageLock(w)
  \/ HostGet(w) \/ HostGetRuntime(w) \/ HostSave(w) \/ Probe(w)
  \/ Arm(w) \/ CommitEnable(w) \/ RecordHealthCheck(w) \/ CommitRedisable(w)
  \/ Retire(w) \/ ManualReview(w) \/ RetryLater(w) \/ Claim(w)
  \/ SafeErrorRead(w) \/ SafeErrorWrite(w)

Next ==
  \/ \E w \in Workers : Step(w) \/ ScanPick(w) \/ UsageEvent(w)
  \/ UserEdit
  \/ Elapse
  \/ Crash

Spec == Init /\ [][Next]_vars

\* A goroutine that runs goes on running, the ticker keeps ticking, and time
\* passes.  The lock is a channel, whose waiters are served in turn, so a worker
\* that waits while the lock is free again and again gets it.  Nothing obliges
\* the operator or the usage events.
Fairness ==
  /\ \A w \in Workers  : WF_vars(Step(w)) /\ SF_vars(ScanLock(w) \/ UsageLock(w))
  /\ \A w \in Scanners : WF_vars(ScanPick(w))
  /\ WF_vars(Elapse)

FairSpec == Spec /\ Fairness

-----------------------------------------------------------------------------
(* What must hold.                                                         *)

Authors == {"user", "disable", "enable", "verified"}
Files == [content : Contents, disabled : BOOLEAN, rev : Nat, author : Authors]
Records == [phase : Phases, id : Ids \cup {None}, hash : Contents \cup {None},
            saveRev : Nat, postHash : Contents \cup {None}, postRev : Nat,
            level : 0..MaxLevel, wait : BOOLEAN]
Halves == [content : Contents \cup {None}, disabled : BOOLEAN]
Snaps == [content : Contents \cup {None}, disabled : BOOLEAN, ok : BOOLEAN,
          rev : Nat, id : Ids \cup {None}]
Events == [named : {TRUE}, id : Ids] \cup [named : {FALSE}, id : Ids \cup {None}]

\* The types of the variables.  The record's level never leaves 0..MaxLevel, the
\* range validateStateForSave accepts: a level outside it would make every later
\* save of the whole state fail.
TypeOK ==
  /\ file \in Files
  /\ record \in Records
  /\ lock \in Workers \cup {None}
  /\ pc \in [Workers -> Stages]
  /\ rec \in [Workers -> Records]
  /\ half \in [Workers -> Halves]
  /\ snap \in [Workers -> Snaps]
  /\ ev \in [Workers -> Events]
  /\ same \in [Workers -> BOOLEAN]
  /\ faults \in Nat

\* A step of w that writes the credential file.
Writes(w) == pc[w] \in Saving /\ file'.rev # file.rev /\ pc'[w] # pc[w]

\* The plugin enables a credential only over its own disable: whatever the
\* operator wrote since, and whatever failed or crashed since, a disable by the
\* operator is never undone (startRecoveryLocked and its guard).
EnableOnlyOwnDisable ==
  [][\A w \in Workers :
       Writes(w) /\ pc[w] = "enable_save" => file.author = "disable"]_vars

\* After a failed probe the plugin disables the credential again only if the
\* file is still the one its own enable left (finishFailedProbe and its guard).
RedisableOnlyOwnEnable ==
  [][\A w \in Workers :
       Writes(w) /\ pc[w] = "redisable_save"
         => file.author \in {"enable", "verified"}]_vars

\* A usage event that names an identity never disables another credential that
\* took its place at the same auth index between the request, the listing, the
\* lock and the save (disableFromQuota).
DisableOnlyNamedIdentity ==
  [][\A w \in Workers :
       Writes(w) /\ pc[w] = "disable_save" /\ ev[w].named
         => IdOf[file.content] = ev[w].id /\ ~file.disabled]_vars

\* A credential the plugin enabled and no probe has vouched for is never
\* forgotten: the durable record says so, in a phase a later scan finishes or an
\* operator sees, through crashes, concurrent scans and every error but no_id.
AttemptTracked ==
  file.author = "enable" =>
    record.phase \in {"restore_pending", "probe_pending", "manual_review"}

\* While nobody is in the middle of an operation, a credential the plugin
\* disabled has the record that lets a later scan enable it: bound to exactly
\* that write of the file.
DisableTracked ==
  file.author = "disable" /\ lock = None =>
    /\ record.phase \in {"owned_disabled", "restore_pending"}
    /\ record.saveRev = file.rev

\* Until the first fault it is so, through every interleaving of usage events,
\* scans and edits.
DisableTrackedUntilFault == faults = 0 => DisableTracked

\* The flag as the operator sees it.
InCustody == INSTANCE Custody WITH
  disabled <- file.disabled,
  hand     <- file.author,
  watching <- record.phase \in {"restore_pending", "probe_pending", "manual_review"}

\* What disableFromQuota and the scans promise together, through crashes, each other's
\* steps and every error but no_id: the plugin undoes nothing but its own writes, no usage
\* event disables a credential while it is on trial, and the record tells of the trial
\* from before it begins until it is decided.
KeepsCustody == InCustody!Spec

\* An attempt to recover does not hang: a record whose credential may have been
\* enabled unverified is, in the end, finished, disabled again, or handed to the
\* operator.
PendingResolved ==
  record.phase \in {"restore_pending", "probe_pending"} ~>
  record.phase \in {"none", "owned_disabled", "manual_review"}

=============================================================================
