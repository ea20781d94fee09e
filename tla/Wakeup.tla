-------------------------------- MODULE Wakeup --------------------------------
(***************************************************************************)
(* The wake-up manager: real requests with one credential, sent once when  *)
(* it was never used ("initial") and once for every exhausted window whose *)
(* reset has passed ("reset").                                             *)
(*                                                                         *)
(* A scan holds the credential's lock from its snapshot to its last write, *)
(* and writes the attempt to the store before the request and again after  *)
(* the answer.  The other writers of the same observation (usage records,  *)
(* quota queries and probes, the automatic disable) take the same lock for *)
(* a snapshot and one update, so each is one step here.                    *)
(*                                                                         *)
(* Time is a count; 0 is Go's zero time.                                   *)
(***************************************************************************)
EXTENDS Naturals, Sequences, FiniteSets

CONSTANTS
  Scanners,      \* the coordinator's scan and the one an operator asks for
  Ids,           \* the identities (content hashes) the credential may have
  Windows,       \* the summaries of quota windows an answer may carry
  None,
  Modes,         \* the wake-ups that are switched on
  MaxAttempts,   \* how often one wake-up is tried: 3 in the code
  Lease,         \* how long a pending attempt is left alone
  InitialBackoff, MaxBackoff,
  Faults,        \* what may go wrong
  MaxTime, MaxEvents   \* bounds: the clock, and edits, uses, answers and faults together

Legacy == "legacy"    \* the window key of older releases had no summary
FaultKinds == {"save", "crash", "damage"}

VARIABLES
  now,
  content,    \* the identity of the credential at the host
  disabled,   \* its native disabled field
  own,        \* the plugin's ownership record, None when there is none
  obs,        \* the stored observation; its id is None when there is none
  lock,       \* who holds the credential's lock
  pc, loc,    \* per scanner: its next step, and what it has in hand
  inflight,   \* usage records CPA has made and the plugin has not yet taken
  requests,   \* history: the requests sent
  uses,       \* history: the uses recorded
  edits, made, quotas, faults   \* counts for the bound MaxEvents

scan    == <<lock, pc, loc>>
host    == <<content, disabled, edits>>
usage   == <<inflight, uses, made>>
vars    == <<now, host, own, obs, quotas, scan, usage, requests, faults>>

More == edits + made + quotas + faults < MaxEvents

Times == 0..(MaxTime + MaxBackoff)

Quotas == [exhausted : BOOLEAN, reset : Times, windows : Windows \cup {None}]
Keys   == [reset : Times, windows : Windows \cup {Legacy, None}] \cup {None}
Owned  == [id : Ids, reset : Times, windows : Windows \cup {None}, probed : Times,
           review : BOOLEAN, quota : Quotas \cup {None}]
Wakes  == [status : {"pending", "success", "failed", "unknown"}, key : Keys,
           at : Times, count : Nat, next : Times, retry : BOOLEAN]
Requests == [mode : {"initial", "reset"}, key : Keys, edit : Nat, gen : Nat, at : Times,
             outcome : {"unrecorded", "success", "retry", "final"}]
Observations == [id : Ids \cup {None}, quota : Quotas \cup {None}, usage : Times \cup {None},
                 initial : Wakes \cup {None}, reset : Wakes \cup {None}]

\* What a scan has in hand: its snapshot, the wake it is at and the edit its payload
\* is of, and whether that payload was wiped.
Hands == [id : Ids, o : Observations, mode : {"initial", "reset"}, wiped : BOOLEAN,
          edit : 0..MaxEvents, wake : Wakes]

ASSUME WakeupAssumption ==
  /\ None \notin Scanners \cup Ids \cup Windows \cup Times
  /\ None \notin Quotas /\ None \notin Wakes
  /\ Legacy \notin Windows
  /\ Modes \subseteq {"initial", "reset"}
  /\ MaxAttempts \in 1..3
  /\ Lease \in Nat \ {0}
  /\ InitialBackoff \in Nat \ {0} /\ MaxBackoff \in Nat /\ InitialBackoff <= MaxBackoff
  /\ Faults \subseteq FaultKinds
  /\ MaxTime \in Nat \ {0} /\ MaxEvents \in Nat

\* A sub-record is kept only with the identity of its observation, so it needs
\* none of its own.
Fresh(id) == [id |-> id, quota |-> None, usage |-> None, initial |-> None, reset |-> None]
For(id) == IF obs.id = id THEN obs ELSE Fresh(id)

-----------------------------------------------------------------------------
(* What is due.                                                            *)

\* A retry follows the first attempt or, MaxAttempts being 3, the second.
Backoff(count) ==
  IF count = 1 THEN InitialBackoff
  ELSE IF InitialBackoff >= MaxBackoff \div 2 THEN MaxBackoff
  ELSE 2 * InitialBackoff

\* Mutant: the lease of a pending attempt is not waited for.
MayRetryPending(wake) ==
  /\ wake.status \in {"pending", "failed"}
  /\ wake.status = "failed" => wake.retry
  /\ wake.count < MaxAttempts
  /\ now >= wake.next

\* An attempt that succeeded, or may have spent quota in an unknown way, is not
\* repeated; one that is pending is left alone for the lease.
MayRetry(wake) ==
  /\ wake.status \in {"pending", "failed"}
  /\ wake.status = "pending" => now >= wake.at + Lease
  /\ wake.status = "failed" => wake.retry
  /\ wake.count < MaxAttempts
  /\ now >= wake.next

EligibleInitial(o) ==
  /\ "initial" \in Modes /\ ~disabled
  /\ o.usage = None
  /\ o.initial # None => MayRetry(o.initial)

Key(quota)       == [reset |-> quota.reset, windows |-> quota.windows]
LegacyKey(quota) == [reset |-> quota.reset, windows |-> Legacy]

\* Mutant: a window is woken though it was used.
EligibleResetUsed(o) ==
  /\ "reset" \in Modes
  /\ o.quota # None
  /\ o.quota.exhausted /\ o.quota.reset \in 1..now
  /\ o.reset # None =>
       IF o.reset.key = Key(o.quota) THEN MayRetry(o.reset)
       ELSE ~(o.reset.status = "success" /\ o.reset.key = LegacyKey(o.quota))

EligibleReset(o) ==
  /\ "reset" \in Modes
  /\ o.quota # None
  /\ o.quota.exhausted /\ o.quota.reset \in 1..now
  /\ o.usage # None => o.usage < o.quota.reset
  /\ \/ o.reset = None
     \/ /\ o.reset # None
        /\ o.reset.key = Key(o.quota)
        /\ MayRetry(o.reset)
     \/ /\ o.reset # None
        /\ o.reset.key # Key(o.quota)
        /\ ~(o.reset.status = "success" /\ o.reset.key = LegacyKey(o.quota))

\* When an ownership record expects the quota back: when its exhaustion said, or else
\* when the last exhausted window of its last probe opens.
OwnReset == IF own.reset # 0 THEN own.reset ELSE own.probed

\* The window of an ownership record stands in for a missing quota observation.
PersistedResetQuota(id) ==
  IF own # None /\ own.id = id /\ ~own.review /\ OwnReset # 0
  THEN [exhausted |-> TRUE, reset |-> OwnReset, windows |-> own.windows]
  ELSE None

Observed(id) ==
  [For(id) EXCEPT !.quota = IF @ = None THEN PersistedResetQuota(id) ELSE @]

-----------------------------------------------------------------------------
(* A scan: processLocked and runWakeLocked.                                *)

\* Mutant: the attempts are counted afresh at every retry.
AttemptUncounted(o, mode) ==
  [status |-> "pending", at |-> now, next |-> 0, retry |-> FALSE, count |-> 1,
   key |-> IF mode = "reset" THEN Key(o.quota) ELSE None]

Attempt(o, mode) ==
  [status |-> "pending", at |-> now, next |-> 0, retry |-> FALSE,
   count |-> IF o[mode] = None THEN 1 ELSE o[mode].count + 1,
   key |-> IF mode = "reset" THEN Key(o.quota) ELSE None]

Release(s) ==
  /\ lock' = None
  /\ pc' = [pc EXCEPT ![s] = "idle"]
  /\ loc' = [loc EXCEPT ![s] = None]

Begin(s, id, o, mode, wiped, edit) ==
  /\ pc' = [pc EXCEPT ![s] = "save"]
  /\ loc' = [loc EXCEPT ![s] = [id |-> id, o |-> o, mode |-> mode, wiped |-> wiped,
                                edit |-> edit, wake |-> Attempt(o, mode)]]

\* Mutant: a scan does not take the credential's lock.
ScanUnlocked(s) ==
  /\ pc[s] = "idle"
  /\ LET o == Observed(content)
     IN  \/ EligibleInitial(o) /\ Begin(s, content, o, "initial", FALSE, edits)
         \/ /\ ~EligibleInitial(o) /\ EligibleReset(o)
            /\ Begin(s, content, o, "reset", FALSE, edits)
  /\ UNCHANGED <<now, host, own, obs, quotas, lock, usage, requests, faults>>

\* A scan that fails to read the credential, or finds nothing due, changes nothing.
Scan(s) ==
  /\ pc[s] = "idle"
  /\ lock = None
  /\ lock' = s
  /\ LET o == Observed(content)
     IN  \/ EligibleInitial(o) /\ Begin(s, content, o, "initial", FALSE, edits)
         \/ /\ ~EligibleInitial(o) /\ EligibleReset(o)
            /\ Begin(s, content, o, "reset", FALSE, edits)
  /\ UNCHANGED <<now, host, own, obs, quotas, usage, requests, faults>>

Capped(wake) == [wake EXCEPT !.count = IF @ > MaxAttempts THEN MaxAttempts ELSE @]

\* saveWakeObservation.
Saved(l) ==
  LET cur == For(l.id)
  IN  [cur EXCEPT !.quota = IF @ = None THEN l.o.quota ELSE @,
                  !.usage = IF @ = None THEN l.o.usage ELSE @,
                  ![l.mode] = Capped(l.wake)]

\* Mutant: the scan returns without its lock's release when the store refuses.
SavePendingKeepsLock(s) ==
  /\ pc[s] = "save"
  /\ \/ /\ obs' = Saved(loc[s])
        /\ pc' = [pc EXCEPT ![s] = "send"]
        /\ UNCHANGED <<lock, loc, faults>>
     \/ /\ "save" \in Faults /\ More /\ faults' = faults + 1
        /\ pc' = [pc EXCEPT ![s] = "idle"] /\ loc' = [loc EXCEPT ![s] = None]
        /\ UNCHANGED <<obs, lock>>
  /\ UNCHANGED <<now, host, own, quotas, usage, requests>>

\* Mutant: the attempt is written down only with its outcome.
SavePendingLater(s) ==
  /\ pc[s] = "save"
  /\ \/ /\ pc' = [pc EXCEPT ![s] = "send"]
        /\ UNCHANGED <<obs, lock, loc, faults>>
     \/ /\ "save" \in Faults /\ More /\ faults' = faults + 1
        /\ Release(s)
        /\ UNCHANGED obs
  /\ UNCHANGED <<now, host, own, quotas, usage, requests>>

SavePending(s) ==
  /\ pc[s] = "save"
  /\ \/ /\ obs' = Saved(loc[s])
        /\ pc' = [pc EXCEPT ![s] = "send"]
        /\ UNCHANGED <<lock, loc, faults>>
     \/ /\ "save" \in Faults /\ More /\ faults' = faults + 1
        /\ Release(s)
        /\ UNCHANGED obs
  /\ UNCHANGED <<now, host, own, quotas, usage, requests>>

Failed(wake, retry) ==
  [wake EXCEPT !.status = "failed", !.retry = retry,
               !.next = IF retry /\ wake.count < MaxAttempts
                        THEN now + Backoff(wake.count) ELSE 0]

\* A payload that was wiped holds no token: the client gives up without a request.
Send(s) ==
  /\ pc[s] = "send"
  /\ \/ /\ ~loc[s].wiped
        /\ requests' = Append(requests,
             [mode |-> loc[s].mode, key |-> loc[s].wake.key, edit |-> loc[s].edit,
              gen |-> quotas, at |-> loc[s].wake.at, outcome |-> "unrecorded"])
        /\ pc' = [pc EXCEPT ![s] = "wait"]
        /\ UNCHANGED loc
     \/ /\ loc[s].wiped
        /\ loc' = [loc EXCEPT ![s].wake = Failed(@, FALSE)]
        /\ pc' = [pc EXCEPT ![s] = "outcome"]
        /\ UNCHANGED requests
  /\ UNCHANGED <<now, host, own, obs, quotas, lock, usage, faults>>

\* Success, a transport failure that may be retried, or any other answer.
Reply(s) ==
  /\ pc[s] = "wait"
  /\ \E wake \in {[loc[s].wake EXCEPT !.status = "success"],
                  Failed(loc[s].wake, TRUE), Failed(loc[s].wake, FALSE)} :
       loc' = [loc EXCEPT ![s].wake = wake]
  /\ pc' = [pc EXCEPT ![s] = "outcome"]
  /\ UNCHANGED <<now, host, own, obs, quotas, lock, usage, requests, faults>>

\* How a recorded outcome reads in the history of requests.
Outcome(wake) ==
  IF wake.status = "success" THEN "success" ELSE IF wake.retry THEN "retry" ELSE "final"

\* After the initial wake the scan goes on to the reset wake.
SaveOutcome(s) ==
  /\ pc[s] = "outcome"
  /\ \/ /\ obs' = Saved(loc[s])
        /\ requests' = IF loc[s].wiped THEN requests
                       ELSE [requests EXCEPT ![Len(requests)].outcome = Outcome(loc[s].wake)]
        /\ IF loc[s].mode = "initial"
           THEN /\ pc' = [pc EXCEPT ![s] = "refresh"]
                /\ loc' = [loc EXCEPT ![s].wiped = TRUE]
                /\ UNCHANGED lock
           ELSE Release(s)
        /\ UNCHANGED faults
     \/ /\ "save" \in Faults /\ More /\ faults' = faults + 1
        /\ Release(s)
        /\ UNCHANGED <<obs, requests>>
  /\ UNCHANGED <<now, host, own, quotas, usage>>

\* The request wiped its payload; a second one is read when the reset wake is due
\* now, and the scan ends when the host does not answer with the same credential.
Refresh(s) ==
  /\ pc[s] = "refresh"
  /\ \/ /\ ~EligibleReset(loc[s].o)
        /\ pc' = [pc EXCEPT ![s] = "again"]
        /\ UNCHANGED <<lock, loc>>
     \/ /\ EligibleReset(loc[s].o) /\ content = loc[s].id
        /\ pc' = [pc EXCEPT ![s] = "again"]
        /\ loc' = [loc EXCEPT ![s].wiped = FALSE, ![s].edit = edits]
        /\ UNCHANGED lock
     \/ EligibleReset(loc[s].o) /\ Release(s)
  /\ UNCHANGED <<now, host, own, obs, quotas, usage, requests, faults>>

\* The same question is asked again, by a later clock.
Again(s) ==
  /\ pc[s] = "again"
  /\ IF EligibleReset(loc[s].o)
     THEN /\ Begin(s, loc[s].id, loc[s].o, "reset", loc[s].wiped, loc[s].edit)
          /\ UNCHANGED lock
     ELSE Release(s)
  /\ UNCHANGED <<now, host, own, obs, quotas, usage, requests, faults>>

-----------------------------------------------------------------------------
(* The other writers of the observation.                                   *)

\* CPA has made a request with the credential; its record arrives when it will.
Use ==
  /\ More
  /\ made' = made + 1
  /\ inflight' = inflight \cup {now}
  /\ UNCHANGED <<now, host, own, obs, quotas, scan, uses, requests, faults>>

OwnQuota == IF own # None /\ own.id = content THEN own.quota ELSE None

\* The last record taken is the one kept, whatever its time.
RecordUsageOutcome(at) ==
  /\ at \in inflight
  /\ lock = None
  /\ inflight' = inflight \ {at}
  /\ obs' = [For(content) EXCEPT !.usage = at, !.quota = IF @ = None THEN OwnQuota ELSE @]
  /\ uses' = uses \cup {[at |-> at, edit |-> edits]}
  /\ UNCHANGED <<now, host, own, quotas, scan, requests, made, faults>>

\* Mutant: a probe's observation replaces the whole record.
ObserveAlone(quota) ==
  /\ More
  /\ lock = None
  /\ quotas' = quotas + 1
  /\ obs' = [Fresh(content) EXCEPT !.quota = quota]
  /\ \/ own # None /\ own' = [own EXCEPT !.quota = IF own.id = content THEN quota ELSE None]
     \/ own # None /\ quota.exhausted /\ own' = [own EXCEPT !.windows = quota.windows,
                                                              !.probed = quota.reset]
     \/ UNCHANGED own
  /\ UNCHANGED <<now, host, scan, usage, requests, faults>>

\* A quota query (queryQuotaOne) keeps the answer in the ownership record too; the
\* probe of a recovery (recordHealthCheck) leaves its windows there when it failed.
Observe(quota) ==
  /\ More
  /\ lock = None
  /\ quotas' = quotas + 1
  /\ obs' = [For(content) EXCEPT !.quota = quota]
  /\ \/ own # None /\ own' = [own EXCEPT !.quota = IF own.id = content THEN quota ELSE None]
     \/ own # None /\ quota.exhausted /\ own' = [own EXCEPT !.windows = quota.windows,
                                                              !.probed = quota.reset]
     \/ UNCHANGED own
  /\ UNCHANGED <<now, host, scan, usage, requests, faults>>

\* disableFromQuota, when it succeeds.
Claim(quota) ==
  /\ own = None /\ ~disabled
  /\ More
  /\ lock = None
  /\ quotas' = quotas + 1
  /\ disabled' = TRUE
  /\ own' = [id |-> content, reset |-> quota.reset, windows |-> None, probed |-> 0,
             review |-> FALSE, quota |-> quota]
  /\ obs' = [For(content) EXCEPT !.quota = quota]
  /\ UNCHANGED <<now, content, edits, scan, usage, requests, faults>>

\* Recovery enables the credential again, or leaves it to the operator.
Recover ==
  /\ own # None
  /\ lock = None
  /\ \/ own' = None /\ disabled' = FALSE
     \/ ~own.review /\ own' = [own EXCEPT !.review = TRUE] /\ UNCHANGED disabled
  /\ UNCHANGED <<now, content, edits, obs, quotas, scan, usage, requests, faults>>

-----------------------------------------------------------------------------
(* The environment.                                                        *)

Tick ==
  /\ now < MaxTime
  /\ now' = now + 1
  /\ UNCHANGED <<host, own, obs, quotas, scan, usage, requests, faults>>

\* The operator replaces or edits the credential.
Edit(id) ==
  /\ id # content
  /\ More
  /\ edits' = edits + 1
  /\ content' = id
  /\ UNCHANGED <<now, disabled, own, obs, quotas, scan, usage, requests, faults>>

\* A wake record that was damaged is loaded as one to be reviewed.
Damaged(wake) ==
  [wake EXCEPT !.status = "unknown", !.count = MaxAttempts, !.next = 0, !.retry = FALSE]

\* The process dies and starts again; usage records it had not taken are lost, and a
\* wake record may be damaged meanwhile.
Crash ==
  /\ "crash" \in Faults
  /\ More
  /\ faults' = faults + 1
  /\ lock' = None
  /\ pc' = [s \in Scanners |-> "idle"]
  /\ loc' = [s \in Scanners |-> None]
  /\ inflight' = {}
  /\ \/ UNCHANGED obs
     \/ /\ "damage" \in Faults
        /\ \E mode \in {"initial", "reset"} :
             /\ obs[mode] # None
             /\ obs' = [obs EXCEPT ![mode] = Damaged(@)]
  /\ UNCHANGED <<now, host, own, quotas, uses, made, requests>>

-----------------------------------------------------------------------------
\* A state file may hold an ownership record without an observation, whose own reset
\* or that of its last probe is known, or a window that was woken by an older release.
Init ==
  /\ now = 1
  /\ content \in Ids
  /\ \E windows \in Windows :
       \/ own = None /\ obs = Fresh(None) /\ disabled = FALSE
       \/ /\ \/ own = [id |-> content, reset |-> 2, windows |-> None, probed |-> 0,
                       review |-> FALSE, quota |-> None]
             \/ own = [id |-> content, reset |-> 0, windows |-> windows, probed |-> 2,
                       review |-> FALSE, quota |-> None]
          /\ obs = Fresh(None) /\ disabled = TRUE
       \/ /\ own = None /\ disabled = FALSE
          /\ LET quota == [exhausted |-> TRUE, reset |-> 1, windows |-> windows]
             IN  obs = [Fresh(content) EXCEPT
                          !.quota = quota,
                          !.reset = [status |-> "success", key |-> LegacyKey(quota), at |-> 1,
                                     count |-> 1, next |-> 0, retry |-> FALSE]]
  /\ lock = None
  /\ pc = [s \in Scanners |-> "idle"]
  /\ loc = [s \in Scanners |-> None]
  /\ inflight = {} /\ requests = <<>> /\ uses = {}
  /\ edits = 0 /\ made = 0 /\ quotas = 0 /\ faults = 0

Step(s) ==
  SavePending(s) \/ Send(s) \/ Reply(s) \/ SaveOutcome(s) \/ Refresh(s) \/ Again(s)

\* An answer about the quota: exhausted until a time ahead, or nothing to wait for.
\* (The reset of an exhausted quota may be unknown, which then is never due.)
Answers ==
  {[exhausted |-> TRUE, reset |-> now + 1, windows |-> windows] : windows \in Windows}
    \cup {[exhausted |-> FALSE, reset |-> 0, windows |-> None]}

Next ==
  \/ \E s \in Scanners : Scan(s) \/ Step(s)
  \/ Use
  \/ \E at \in inflight : RecordUsageOutcome(at)
  \/ \E quota \in Answers : Observe(quota)
  \/ \E quota \in Answers : quota.exhausted /\ Claim(quota)
  \/ Recover
  \/ Tick
  \/ \E id \in Ids : Edit(id)
  \/ Crash

Spec == Init /\ [][Next]_vars

\* A scan that began goes on, and there is always another scan.
Fairness == WF_vars(\E s \in Scanners : Scan(s)) /\ \A s \in Scanners : WF_vars(Step(s))
FairSpec == Spec /\ Fairness

-----------------------------------------------------------------------------
(* What must hold.                                                         *)

\* The types of the variables; a scanner is under way exactly while it holds the
\* credential's lock.
TypeOK ==
  /\ now \in 1..MaxTime
  /\ content \in Ids /\ disabled \in BOOLEAN
  /\ own \in Owned \cup {None}
  /\ obs \in Observations
  /\ lock \in Scanners \cup {None}
  /\ pc \in [Scanners -> {"idle", "save", "send", "wait", "outcome", "refresh", "again"}]
  /\ \A s \in Scanners : pc[s] = "idle" <=> lock # s
  /\ loc \in [Scanners -> Hands \cup {None}]
  /\ requests \in Seq(Requests)
  /\ inflight \subseteq 1..MaxTime /\ uses \subseteq [at : 1..MaxTime, edit : 0..MaxEvents]
  /\ edits \in 0..MaxEvents /\ made \in 0..MaxEvents
  /\ quotas \in 0..MaxEvents /\ faults \in 0..MaxEvents

\* The requests of one mode for one occupant of the place, and for one answer about
\* its quota when the request is about a window.
Alike(r, q) ==
  r.mode = q.mode /\ r.edit = q.edit /\ r.key = q.key /\ (r.mode = "reset" => r.gen = q.gen)

\* However often the plugin dies or its store refuses, the requests sent for one
\* reason are at most MaxAttempts.
AttemptsBounded ==
  \A i \in 1..Len(requests) :
    Cardinality({j \in 1..Len(requests) : Alike(requests[i], requests[j])}) <= MaxAttempts

\* The requests of the credential's present occupant, about its present quota.
Current(r) == r.edit = edits /\ (r.mode = "reset" => r.gen = quotas)

\* A request that has been sent is known to the store, through deaths and refused
\* writes: what is stored for its mode is this attempt or a later one for the same
\* reason, which an answer that settles the matter keeps from being repeated, and an
\* unknown answer for the lease.
RequestsRemembered ==
  \A i \in 1..Len(requests) :
    LET r == requests[i]
        wake == obs[r.mode]
    IN  Current(r) =>
          /\ obs.id = content
          /\ wake # None
          /\ wake.key = r.key /\ wake.at >= r.at
          /\ r.outcome \in {"success", "final"} => wake.status # "pending" /\ ~wake.retry
          /\ r.outcome = "unrecorded" =>
               \/ wake.status \in {"pending", "unknown"}
               \/ now >= r.at + Lease

\* A request is repeated only when the last one is recorded as a transport failure,
\* or, its outcome being unknown, after the lease.
Repeatable(r) ==
  \/ r.outcome = "retry"
  \/ r.outcome = "unrecorded" /\ now >= r.at + Lease

RepeatsAreDue ==
  [][Len(requests') > Len(requests) =>
       LET r == requests'[Len(requests')] IN
       \A i \in 1..Len(requests) : Alike(requests[i], r) => Repeatable(requests[i])]_vars

\* The initial wake is for a credential of which no use is recorded.
UsedIsNotWoken ==
  [][Len(requests') > Len(requests) =>
       LET r == requests'[Len(requests')] IN
       r.mode = "initial" => \A use \in uses : use.edit # r.edit]_vars

\* A window is not woken when a use after its reset is recorded (the comment in
\* eligibleReset), unless an older record was taken after that one and replaced it.
UsedWindowIsNotWoken ==
  [][Len(requests') > Len(requests) =>
       LET r == requests'[Len(requests')] IN
       r.mode = "reset" =>
         \A use \in uses : use.edit = r.edit =>
           \/ use.at < r.key.reset
           \/ obs.usage # None /\ obs.usage < use.at]_vars

\* What is due is attempted, or stops being due.
DueIsAttempted ==
  /\ EligibleInitial(Observed(content)) ~> ~EligibleInitial(Observed(content))
  /\ EligibleReset(Observed(content)) ~> ~EligibleReset(Observed(content))

=============================================================================
