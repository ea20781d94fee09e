------------------------- MODULE OwnershipInvariant -------------------------
(***************************************************************************)
(* Why the properties of Ownership hold, for an operator who does not edit *)
(* inside a save window: the inductive invariant behind the properties     *)
(* about writes (proved in OwnershipProofs), and those behind the tracking *)
(* of enables and disables (proved in OwnershipTrackProofs).  TLC checks   *)
(* all of them.                                                            *)
(***************************************************************************)
EXTENDS Ownership

\* What is written back was read: a snapshot that a save uses has a content.
ReadsReal ==
  \A w \in Workers :
    /\ half[w] # NoHalf => half[w].content \in Contents
    /\ pc[w] \in Saving => snap[w].content \in Contents

\* Only the holder of the lock is inside the WithLock body.
LockHeld == \A w \in Workers : pc[w] \notin Unlocked => lock = w

\* No worker's snapshot shows a revision the file has not had yet.
RevisionsPast ==
  /\ file.rev # NoRev
  /\ \A w \in Workers : snap[w].rev <= file.rev

\* The author of the last write decides the flag.
AuthorFlag ==
  /\ file.author = "disable" => file.disabled
  /\ file.author \in {"enable", "verified"} => ~file.disabled

\* A record, or a copy of one, names only revisions the file has had, and where
\* it names the present one, that is a write of the plugin's own: its disable, or
\* its enable.
Bound(r) ==
  /\ r.saveRev <= file.rev
  /\ r.postRev <= file.rev
  /\ r.saveRev = file.rev => file.author = "disable"
  /\ r.postRev = file.rev => file.author \in {"enable", "verified"}
RecordsBound == Bound(record) /\ \A w \in Workers : Bound(rec[w])

\* Between the Get before a save and the save, what was read is what is there.
WindowStill(w) ==
  pc[w] \in BeforeSave /\ half[w] # NoHalf =>
    half[w].content = file.content /\ half[w].disabled = file.disabled

\* What a worker at this stage, with this snapshot and event, knows of the file.
Knows(stage, s, e) ==
  /\ stage \in {"arm", "enable"} /\ s.rev = file.rev => file.author = "disable"
  /\ stage = "disable" /\ s.rev = file.rev /\ e.named
       => IdOf[file.content] = e.id
  /\ stage = "enable_save" => file.author = "disable"
  /\ stage = "redisable_save" => file.author \in {"enable", "verified"}
  /\ stage = "disable_save" =>
       ~file.disabled /\ (e.named => IdOf[file.content] = e.id)
  /\ stage = "enabled" => file.author = "enable"
  /\ stage \in {"redisabled", "disabled"} => file.author = "disable"
  /\ stage = "commit_enable" /\ s.rev = file.rev => file.author = "enable"
  /\ stage = "commit_redisable" /\ s.rev = file.rev => file.author = "disable"

StageKnows(w) == Knows(pc[w], snap[w], ev[w])

\* Every revision a record or a worker relies on stands for the write it is
\* believed to stand for: the strengthening that makes the three properties
\* about writes inductive.
RevisionsMeanWhatTheySay ==
  /\ ReadsReal
  /\ LockHeld
  /\ RevisionsPast
  /\ AuthorFlag
  /\ RecordsBound
  /\ \A w \in Workers : WindowStill(w) /\ StageKnows(w)

-----------------------------------------------------------------------------
(* Why a record follows the credential: the inductive invariants behind    *)
(* AttemptTracked, on a host whose runtime entries have ids, and behind    *)
(* DisableTrackedUntilFault.                                               *)

\* A snapshot under way has read the file as the plugin wrote it, and what a save
\* is about to write back is what is there.
ReadsTrue ==
  \A w \in Workers :
    /\ half[w] # NoHalf => pc[w] \in SnapStages
    /\ half[w] # NoHalf /\ file.author # "user" =>
         half[w].content = file.content /\ half[w].disabled = file.disabled
    /\ pc[w] \in Saving => snap[w].content = file.content
    /\ pc[w] \in AfterSave => snap[w].rev < file.rev

\* A record, or a copy of one, by which a scan finds an enabled and unverified
\* credential: it goes on with the probe, or hands it to the operator.
Fits(r) == r.id \in {None, IdOf[file.content]}
Tracks(r) ==
  /\ r.phase \in {"restore_pending", "probe_pending", "manual_review"}
  /\ Fits(r)
  /\ r.phase = "probe_pending" => r.postRev = file.rev /\ r.postHash = file.content

\* These have a copy of the record as it is, or was since it was last armed.
Copied == {"inspect", "arm", "enable", "enable_save", "enabled", "backoff"}

\* No failed scan is about to write back what it read before the record was armed.
NobodyWrites ==
  \A w \in Workers : pc[w] \in {"safe_error", "safe_error_write"} => ~same[w]

\* Stages that no worker stands at while the credential is enabled unverified.
NotEnabled == {"arm", "enable", "enable_save", "verify", "record_health", "retire",
               "redisabled", "commit_redisable", "disable", "disable_save",
               "disabled", "claim"}

\* What a worker at this stage, with this copy of the record and this snapshot,
\* will make of the record still tracks the enable.
AttemptAt(stage, r, s) ==
  /\ stage \in NotEnabled => file.author # "enable"
  /\ stage \in {"inspect", "probe", "failed", "enabled", "backoff"}
       /\ file.author = "enable" => Tracks(r)
  /\ stage = "inspect" => r.phase # "manual_review"
  /\ stage \in {"probe", "failed"} => r.phase = "probe_pending"
  /\ stage \in {"arm", "enable", "enable_save"} /\ file.author = "disable" => Fits(r)
  /\ stage \in {"enable", "enable_save"} =>
       record.phase = "restore_pending" /\ r.phase = "restore_pending" /\ NobodyWrites
  /\ stage = "commit_enable" /\ file.author = "enable" =>
       /\ Usable(s) /\ ~s.disabled
       /\ s.content = file.content /\ s.rev = file.rev /\ s.id = IdOf[file.content]
  /\ stage \in Copied /\ Owned => r.id = record.id

\* So does what a failed scan is about to write back.
WriterKeeps(w) ==
  pc[w] = "safe_error_write" /\ same[w] =>
    /\ file.author = "enable" => Tracks(rec[w])
    /\ Owned => rec[w].id = record.id

\* While the credential is enabled unverified, the record tracks the enable, and so
\* does all that a scan, or a failed scan outside the lock, is yet to write: the
\* strengthening of AttemptTracked over the steps of processLocked and
\* recordSafeError.
AttemptFollowed ==
  /\ file.author = "enable" => Tracks(record)
  /\ \A w \in Workers : AttemptAt(pc[w], rec[w], snap[w]) /\ WriterKeeps(w)

\* A record by which a scan finds the credential that the plugin disabled.
Holds(r) ==
  /\ r.phase \in {"owned_disabled", "restore_pending"}
  /\ r.saveRev = file.rev
  /\ r.hash = file.content
  /\ Fits(r)

\* Stages between a save that disables and the update that records it.
Recording == {"disabled", "claim", "redisabled", "commit_redisable"}

\* Stages that no worker stands at while the credential is disabled and recorded.
NotDisabled == {"enabled", "commit_enable", "probe", "verify", "failed",
                "record_health", "retire", "review", "redisable", "redisable_save",
                "disable", "disable_save"}

\* These have a copy of the record as it is, while nothing fails.
Scanning == {"inspect", "arm", "enable", "enable_save", "enabled", "probe", "failed",
             "redisable", "redisable_save", "redisabled", "commit_redisable"}

\* What a worker at this stage, with this copy of the record, this snapshot and
\* this event, will make of the record holds the disable.
DisableAt(stage, r, s, e) ==
  /\ stage \notin {"backoff", "safe_error", "safe_error_write"}
  /\ stage \in {"resolve", "usage", "disable", "disable_save", "disabled"} => e.named
  /\ stage \in NotDisabled => file.author # "disable"
  /\ stage \in {"inspect", "arm", "enable", "claim"} /\ file.author = "disable" => Holds(r)
  /\ stage \in {"arm", "enable"} /\ file.author = "disable" =>
       s.rev = file.rev /\ s.content = file.content
  /\ stage = "disabled" => e.id = IdOf[file.content] /\ s.content = file.content
  /\ stage \in Scanning => Owned /\ r.id = record.id
  /\ stage = "redisable" /\ r.postRev = file.rev => Fits(r)
  /\ stage \in {"redisable_save", "redisabled"} => Fits(r)
  /\ stage = "commit_redisable" /\ file.author = "disable" =>
       Fits(r) /\ s.rev = file.rev /\ s.content = file.content

\* The record holds the disable, or the holder of the lock is about to record it.
DisableKept ==
  /\ file.author = "disable" =>
       Holds(record) \/ \E w \in Workers : pc[w] \in Recording
  /\ \A w \in Workers : DisableAt(pc[w], rec[w], snap[w], ev[w])
  /\ \A w \in Usages : pc[w] = "waiting" => ev[w].named

\* Until the first fault nothing that disableFromQuota or a scan has in hand loses
\* a disable of the plugin: the strengthening of DisableTrackedUntilFault.
DisableFollowed == faults = 0 => DisableKept

=============================================================================
