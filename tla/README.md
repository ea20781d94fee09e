# Verification of cpa-credential-guard

TLA+ models of the credential guard, a plugin of CPA (CLIProxyAPI) that disables
Codex credentials whose quota is exhausted, probes and enables them again later,
wakes idle ones, and assigns proxies in bulk. Source paths below are those of the
repository, without the leading `src/`.

The modules are checked with TLC on small instances and, where a module of proofs
exists, proved with TLAPS for every value of the constants.

## 1. The system

| Component | State | Operations | Called by, calls |
|---|---|---|---|
| Lifecycle (`main.go`) | the current controller, two mutexes | configure, reconfigure, shutdown, dispatch of host methods | CPA calls it; it builds, publishes and drains controllers |
| Controller (`internal/app`) | `closing`, running operations, the scan coordinator | HandleUsage, disableFromQuota, recordUsageOutcome, HandleManagement, Start, Shutdown | lifecycle; repository, store, recovery, wake-up |
| Credential repository (`internal/credentials`) | one lock per auth index | Resolve, Snapshot, MutateAndSave(Locked) | everybody who touches a credential; host calls |
| Recovery manager (`internal/recovery`) | none of its own; ownership records in the store | Scan: process, start, probe, finish, retire, review, back off | ticker and POST /scan; repository, store, probe client |
| State store (`internal/state`) | ownership records and observations in memory and in `state.json` | New/load, Update, Replace, Get, Snapshot, quarantine | controller, recovery, wake-up, management |
| Wake-up manager (`internal/wakeup`) | wake records in the store's observations | Scan: initial and reset wakes, pending lease, retries | ticker and POST /scan; repository, store, wake client |
| Quota classifier (`internal/quota`) | none | Classify, LatestFutureReset | controller |
| Probe and wake client (`internal/codexhealth`) | none | Probe, Wake, ParseResponse | recovery, wake-up, management |
| Management (`internal/management`) | proxy plans, kept for five minutes | status, preview, apply, scan, quota query, profile routes | HTTP requests through CPA |
| Proxy profiles (`internal/profiles`) | profiles and the fallback graph, in memory and on disk | Save, Delete, MarkFallback, ClearFallback | management |
| Proxy check (`internal/proxy`), configuration (`internal/config`), host adapter (`internal/host`), safe values (`internal/domain`) | none | validation, network and encoding | all of the above |

The credential files belong to CPA. The plugin reads a file with `host.auth.get`,
its revision (size and times) with a second call `host.auth.get_runtime`, and
replaces the whole file with `host.auth.save`, which compares nothing. The operator,
and CPA itself, write the same files at any time. Everything durable the plugin
knows is in `state.json`; goroutines (one per usage event, the ticker, one per
management request) meet in the per-index lock, the mutex of the store, and the
files.

What is hard in it: a guarded change is four calls that others interleave with; a
crash or a failing call may fall between any two of them; two scans may run at the
same time; and state read before a lock is used under it. `PROJECT.json` lists these
hazards at their lines.

### Not modelled

| Component | What would make it correct | Why not here |
|---|---|---|
| Proxy check (`internal/proxy`), configuration (`internal/config`) | what is accepted as a URL or a setting, what a check reports | no state between calls; parsing and network I/O |
| Host adapter (`internal/host`), but for the failures of its calls, which `Ownership` has | the envelopes of the calls | encoding |
| Redaction (`internal/domain`) | no token in what is logged or shown | formatting of strings |
| Web console, build and release workflow | | no Go code of the plugin, or none that runs in it |

## 2. Plan

| Module | Models | State |
|---|---|---|
| `Ownership` | disableFromQuota, recovery.Manager, the guarded change of `disabled` | done |
| `Custody` | what the operator is promised of the flag; `Ownership` implements it | proved |
| `OwnershipInvariant`, `OwnershipProofs`, `OwnershipTrackProofs` | the inductive invariants and their proofs | safety proved |
| `Lifecycle`, `LifecycleProofs` | configure, reconfigure, shutdown, drain, several stores over one state.json | safety proved |
| `StateStore`, `DurableState`, `StateStoreProofs` | load, atomicWrite, quarantine, crashes between the steps; refines a durable set of records | proved |
| `Wakeup`, `WakeupProofs` | eligibility, pending lease, attempts and backoff, usage and quota observations, restarts | safety proved |
| `Profiles`, `ProfilesProofs`, `ProxyPlans`, `ProxyPlansProofs` | the catalog of profiles; preview, apply, prune, expiry, the guarded change of `proxy_url`, fallbacks | safety proved |
| `Quota`, `QuotaProofs` | Classify, the resets and ParseResponse as operators on answers | proved for every answer |

What could come next: a composition of `Ownership` with `Wakeup` over one lock, so that the
observation of each is that of the other and not a set of answers.

## 3. Conventions

An action stands for the code between two points where somebody else can run: one
host call, one access of the store, one critical section. A definition whose comment
starts with "Mutant" is not part of any specification. It is the definition below it
with a mistake a programmer could make, and `PROJECT.json` names the property that
notices when the mistake is put in.

`PROJECT.json` maps each definition to the lines it translates. Hash comparisons
are comparisons of contents, times are "has come" or "has not", and a host call may
fail wherever the code has an error branch.

## 4. Ownership

### State and actions

One credential: the lock, the record and the file are keyed by auth index and no
step reads another index. A file carries its content (the JSON without `disabled`),
the flag, a revision, and a history variable `author`: who wrote it last, `user`,
`disable`, `enable`, or `verified` once a probe has vouched for the enable. Every
write makes a revision the file never had. The code takes the same for granted when
it compares size and times.

| Code | Actions |
|---|---|
| `Repository.Snapshot` | `HostGet`, then `HostGetRuntime`: the content and the revision are read at two moments |
| `MutateAndSaveLocked` | `HostGet`, `HostGetRuntime`, the decision `Decide` (guard, "already there"), `HostSave`, and the two reads again |
| `disableFromQuota` | `UsageEvent`, `Resolve` (before the lock), `UsageLock`, the snapshot, the guarded disable, `Claim` |
| `Manager.Scan`, `processLocked` | `ScanPick`, `ScanLock`, the snapshot with `InspectVerdict` |
| `startRecoveryLocked` | `Arm` (the durable intent, with the backoff), the guarded enable, `CommitEnable` |
| `probeLocked`, `finishFailedProbe` | snapshot, `Probe`, `RecordHealthCheck`, snapshot, the guarded disable, `CommitRedisable` |
| `retire`, `manualReview`, `retryOrReview` | `Retire`, `ManualReview`, `RetryLater` |
| `recordSafeError` | `SafeErrorRead`, `SafeErrorWrite`: outside the lock, two accesses of the store |
| operator, CPA | `UserEdit`: any content, any flag, at any step (`MayEdit` keeps it out of the windows `UserRaces` does not list) |
| time, process | `Elapse`, `Crash` (volatile state lost, the record and the file stay) |

`same[w]` says whether the record's `AttemptID` is still the one the scan first
read: the code uses the identifier for nothing but that comparison. Faults are chosen
by `Faults`: failing Get, GetRuntime or Save, a Save that is done but answered with an
error, a runtime without revision, a listing or runtime entry without an id (`no_id`), a
listing entry without a name, a failing update of the store, a crash. The enable is guarded
by what the snapshot of the lock holder read, which `StartVerdict` has found equal to the
record read with it (recovery.go:227), whatever a late `SafeErrorWrite` has made of the
record since; the second disable by the record of the enable.

### Runs

| Run | Instance | Shows |
|---|---|---|
| `ownership_faults` | one scan, two usage events, two identities, one fault of any kind; 461,654 states | `TypeOK`, the inductive invariant, and: no scan enables over anything but the plugin's own disable; an event never disables an identity it does not name; until the first fault, every disable of the plugin has its record |
| `ownership_concurrent_scans` | two scans, one usage event, two faults of any kind but `no_id`; 440,382 states | an enabled and unverified credential is always on record; the second disable hits only the plugin's own enable; the two invariants behind the tracking of enables and disables; the protocol implements `Custody` |
| `ownership_liveness` | one scan, one usage event, two faults; 50,924 states | every attempt ends: finished, disabled again, or under manual review |
| `ownership_orphan` | the smallest that shows it | see the findings |

The bounds: `MaxRev` is the number of writes of the file after which no new work falls
due, and three of them make a full cycle (disable, enable, disable again) and a fourth
puts an edit inside it. One fault with two usage events and two faults with two scans
cover every pair of a failure and the step that is meant to repair it. `MaxLevel`
stands for the 32 of `maxRecoveryBackoffLevel`; the code treats all levels alike up to
the cap, which 1 or 2 reach. Nothing forces an event to come, so a run that has used up
its writes may stop: deadlock is not checked.

Fairness: a goroutine that runs goes on running and its host calls return (they have
timeouts in the host); the ticker keeps ticking; `NextCheckAt` comes. The lock is a
channel of capacity one, whose waiters the Go runtime serves first come first served;
hence strong fairness for the two locking steps, needed when another worker takes the
lock again and again. Neither the operator nor the usage events are owed anything.

### The promise

`Custody` is the protocol as the operator of the credential sees it: the flag, whose hand
set it last, and whether the plugin is on the watch, which means that state.json has a
record which a scan finishes or an operator sees (`restore_pending`, `probe_pending`,
`manual_review`). The operator may do anything (`Edit`). The plugin disables only what is
enabled and not on trial, enables only what it has disabled itself and only on the watch,
vouches, or takes back its own enable; and the watch does not end during a trial. Workers,
locks, the calls of the host, copies of the record and faults are gone: each of the saves of
`Ownership` is one of these steps, and everything else is `Watch` or nothing. The mapping
(`InCustody`) takes the hand from `author`. `KeepsCustody` says more than the invariants:
`AttemptTracked` would allow an event to disable a credential on trial, and the properties
about writes would allow an enable before the intent is durable, which is what the mutant
`ArmRegardless` does.

### Proofs

`OwnershipProofs.TypeCorrect` holds for any constants. The properties about writes are
proved for an operator who does not edit inside a save window (`UserRaces = {}`), with
any number of scans, events, contents, identities and faults. Without that assumption
they are false: an operator who writes the file, disabled, between the plugin's save and
its reading of the revision (`UserRaces` with `after_save`) has the write claimed by
`disableFromQuota` (controller.go:427) as the plugin's own, and a later scan undoes it.

None of them is inductive. What a save may rely on was learned two host calls earlier,
so `RevisionsMeanWhatTheySay` strengthens them by what each revision in a record, a
copy of one or a worker's snapshot stands for: `RecordsBound` (a revision a record
names is the present one only if the present file is the plugin's own disable, or
enable), `StageKnows` (what a worker at each stage knows of the author), `WindowStill`
(what the Get before a save read is still there), `LockHeld` and `RevisionsPast`. The
proof has one lemma per family of actions; the save (`HostSaveKeeps`) is where a new
revision gets its meaning, and `DecideKeeps` where a guard turns the equality of
revisions into knowledge of the author. TLC checks the invariant as an invariant of
`ownership_faults`; `EnablesOwnDisables`, `RedisablesOwnEnables` and
`DisablesNamedIdentities` follow from it.

`OwnershipTrackProofs` proves that the record follows the credential, under the same
assumption on the operator. Here the difficulty is that a worker holds a copy of the record
and will write it back, or what it makes of it, several steps later.

- `AttemptsTracked`, on a host whose runtime entries have ids (`no_id` not in `Faults`;
  section 10 says what happens without). `AttemptFollowed` says of the record that it tracks
  an unverified enable (`Tracks`: a phase that is finished or seen, an identity that fits,
  and, once the probe is pending, this very revision), and of each worker that what its stage
  will make of the record does so too (`AttemptAt`, `WriterKeeps` for a scan that failed and
  holds no lock). Between the arming and the enable nobody else may write at all
  (`NobodyWrites`): that is what the new `AttemptID` is for, and where a scan that compares
  it only once breaks the invariant.
- `DisablesTracked`. `DisableFollowed` is the same for a disable: until the first fault the
  record holds it (`Holds`: phase, revision, content, identity), or the holder of the lock is
  about to record it (`Recording`), and no scan is at a stage that gives up (`NotDisabled`).
- Both rest on `ReadsTrue` (`ReadsAreTrue`): what a snapshot under way has read of a file
  that the plugin wrote is what is there.
- `CustodyKept`, under the assumptions of `AttemptsTracked`. The three saves are `Enable`,
  `TakeBack` and `Disable` by what their stages know (`Knows`, `AuthorFlag`); that no event's
  save falls into a trial is `NotEnabled`; a probe vouches for its own enable by `Bound`; and
  for each other step `AttemptFollowed` after it says that the watch goes on.

TLC checks both invariants and the refinement in `ownership_concurrent_scans`. Only
model-checked: `PendingResolved`, which is liveness.

## 5. Lifecycle

### State and actions

A controller is a generation, numbered as they are built. `enabled`, `closing`, `open`
and `scan` are what the code keeps in a controller and its store; `mem[g]` is the
memory of generation g's store and `disk` is state.json, which all of them share.
`holder` is the per-generation table of credential locks. `acked` is a history
variable: the state after every update whose caller was told it was written.

| Code | Actions |
|---|---|
| `handleMethod`: register, reconfigure; quiesce, shutdown | `CallConfigure`, `CallShutdown` |
| `configure` | `TakeLifecycle`, `Build` (parse, `NewStopped`, which loads state.json), `Replace` (takes `controllerMu`, starts the drain), `Drain`, `Publish`, `StartScans` |
| `shutdownController` | `TakeLifecycle`, `Unpublish`, `Drain` |
| `Controller.Shutdown` | `BeginShutdown` (closing, contexts cancelled), `Drain` (scans and operations have ended; the store is closed) |
| `handleMethod`: usage and management | `Arrive`, `ReadPointer` (under the read lock), `Begin` (registers the operation, or drops it), `OpLock`, `OpUpdate` |
| `startScanCoordinator` | `Tick`, `ScanLock`, `ScanUpdate`, `StopScans` |

What an operation does to its credential is the subject of `Ownership`; here it takes
its lock, works and updates the state.

### Runs

| Run | Instance | Shows |
|---|---|---|
| `lifecycle_reconfigure` | two admins, one call, two generations, one fault; 17,772 states | one generation works at a time, always on an open store; the pointer leads to a generation that takes work; every configure, shutdown and call returns |
| `lifecycle_quiesced` | two admins, two calls, two credentials, one fault, a host that quiesces before it configures; 151,808 states | no update that was reported done is lost from one generation to the next |
| `lifecycle_lost_update` | one admin, one call, two generations | see the findings |

Two generations are the replaced one and its replacement; the third configure of a
series meets the same states as the second. Two admins make the lifecycle mutex matter.
One call and a scan compete for a credential's lock and for the drain; the theorems do
away with that bound for safety. The host may stop calling: deadlock is not checked,
and a hang shows as a violation of `AdminsReturn` or `CallsReturn`.

Fairness: every thread and goroutine that can go on does. `lifecycleMu`, `controllerMu`
and the lock channels serve their waiters in turn (Go's mutexes hand over to a waiter
that has starved for a millisecond, and a waiting writer holds new readers back), so
taking one of them is strongly fair. Nothing obliges the host to call or the ticker
to tick.

### Proofs

`TypeOK` says besides the types (`Types`) that a call which was let in has a generation
(`LetIn`), and who holds the locks of credentials (`Holders`): exactly the calls and scans at
work, each that of its own generation and of the credential it works on, and a scan one at a
time. `LifecycleProofs` proves `TypeOK`, `OneGenerationWorks`, `WorkersHaveStores` and
`PublishedTakesWork` for any number of admins, calls, credentials and generations.
The invariant has two parts. `Order` is about the admins alone: at which stages the
two mutexes are held (`Mutexes`), what is being drained and where the pointer is
meanwhile (`Draining`), and that a generation about to be published or started is new
(`Fresh`, `Started`). `Work` adds the others: a call has the current generation or one
that takes no more work (`Pointers`), only the current or the draining generation works,
and its store is open (`Working`), at a publication nobody works (`Replaced`), and a
generation that takes work has its store (`Stores`). For the locks, `Unstarted` adds that a
generation which is still to be built has no scans: otherwise building one would forget
the lock that its scan holds. `OneGenerationWorks` then follows:
two busy generations would have to be the current one and a draining one at once, and
`Draining` says that the pointer is the draining one or empty.

`UpdatesKept` proves `UpdatesSurvive` for a host that quiesces before it configures
(`QuiesceFirst`); without that it is false, as `lifecycle_lost_update` shows. `Quiesced`
says that one admin at a time configures, and finds no controller; `Intact` that a
generation which may come to write has in memory what is on disk (`Loaded`), be it current,
being drained, or built and not yet published. The build is the step that loads, and while
it is under way nobody works (`NobodyWorks`), so what it loaded stays what is on disk until
the publication.

Only model-checked: `AdminsReturn`, `CallsReturn` (liveness is out of the prover's reach).

## 6. StateStore and DurableState

`DurableState` is the promise: a set of records; one change at a time, done or not done;
after a stop, one of the values that are owed; a success only when the new value alone
is owed. `StateStore` is the code: `New`, `Load`, `Quarantine`, `Close`, and an update as
the steps of `Update` and `atomicWrite`: `Begin` (mutex and private copy), `Refuse`,
`CreateTemp`, `Write`, `Sync`, `Rename`, `SyncDir`, `Publish`. `Die` and `LosePower` may
come at any step. A death leaves the files as the operating system shows them; a loss of
power leaves of state.json one of the contents in `after`, to which a rename adds and
which a sync of the directory reduces to one. A rename of a file that was not synced
would add a torn one. `Damage` is a file written by another version or by hand while the
plugin is down. Who decodes what is abstracted to "decodes" and "does not".

| Run | Instance | Shows |
|---|---|---|
| `state_store` | two records, three failures of any kind, two damages, deaths and losses of power without bound; 36,917 states, deadlock checked | types, with the mutex held exactly during an update; no loss of power leaves a torn file; the only copy of a file that did not decode is never written over; the store implements `DurableState` |

Two records make an update that adds and one that removes. Three failures reach the
load, the quarantine and one step of an update, or three steps of three updates.

The refinement maps a store that is not open to the records of the file it would load,
an open one to its memory; `owed` is the set of records in `after`. The rename is
`Reach`, the sync of the directory is `Settle`, and the publication `Succeed`. The code
ignores a failing sync of the directory (state.go:772-775): that is `Lapse`, and after it
alone `Succeed` may happen while the older value is owed too. One thing follows from the
order of the steps which a reader may not expect: a process that dies between the rename
and the directory sync shows the new value when it starts again, and a later loss of
power may still bring back the old one. The update had not been reported, so the promise
is kept.

`StateStoreProofs` proves all four for any records and faults. `WriteInv` says what
the temporary file, state.json and the private copy are at each step of an update,
`FileInv` that state.json is among what may be left and that a damaged file is the
only one there is while it is not quarantined. `StepImplements` maps every step to a
step of `DurableState` or to a stutter, one case per action; `Implementation` concludes.

## 7. Wakeup

### State and actions

One credential: a scan takes the credentials one after the other, each under its own
lock, and their records are separate. The observation (`obs`) holds what the store
keeps: the last quota, the last use, and one wake record per mode. `requests` is a
history of the requests sent, each with the occupant of the place it was sent for (`edit`,
the number of replacements so far) and the answer about the quota it followed (`gen`).

| Code | Actions |
|---|---|
| `Manager.processLocked` | `Scan` (lock, snapshot, `Observed`, the two eligibilities), after the initial wake `Refresh` and `Again` |
| `runWakeLocked` | `Begin` (the attempt), `SavePending`, `Send`, `Reply`, `SaveOutcome` |
| `eligibleInitial`, `eligibleReset`, `mayRetry`, `backoff` | `EligibleInitial`, `EligibleReset`, `MayRetry`, `Backoff` |
| `saveWakeObservation` | `Saved` |
| `recordUsageOutcome` | `RecordUsageOutcome`: records arrive in any order, late, or not at all (`Use`, `Crash`) |
| `queryQuotaOne`, `recordHealthCheck`, `disableFromQuota` | `Observe`, `Claim`: a snapshot and one update under the lock |
| `persistedResetQuota` | `PersistedResetQuota`, with `OwnReset`: the record's reset, or the latest of its last probe |
| recovery | `Recover`: the record goes, or goes to review |
| decodeAndValidate of a damaged wake record | in `Crash` |

Faults: an update of the store that is refused, the death of the process between any two
steps, and a record that does not decode at the restart.

### Run

`wakeup_faults`: two scans, two identities, one summary of windows, times up to 3, and
two of edits, uses, answers and faults in any mixture; 1,620,814 states, about two minutes. `MaxAttempts` is 2 where the code has 3: with 2 there is a retry and a bound,
and the code treats the second attempt as it treats the first. Lease and backoffs are 1,
so that each can be waited for, twice. It shows that a request which was sent is known
to the store through deaths and refused writes (`RequestsRemembered`), that it is repeated
only after a transport failure that is on record or after the lease (`RepeatsAreDue`), at
most `MaxAttempts` times (`AttemptsBounded`); that a credential, or a window, that was
used is not woken (`UsedIsNotWoken`, `UsedWindowIsNotWoken`); and that what is due is
attempted or stops being due (`DueIsAttempted`).

Fairness: a scan that began goes on (the HTTP client has a timeout), and there is always
another scan (the ticker). Which scanner that is does not matter, so it is weak fairness
of `\E s : Scan(s)`. Nobody has to use, edit or answer.

### Proofs

`WakeupProofs` proves all of these but `DueIsAttempted`, for any
number of scanners, identities, windows, attempts (up to the code's 3), lease and backoffs.

The difficulty is that a credential may be edited while a scan has its payload in hand. So
what is remembered is not told of the present occupant only: `Recalled(edit, id)` says of an
edit and an identity that whatever was sent for them is known to the stored observation
(the same reason, this attempt or a later one, and a status that fits its outcome), and
`Memory` has it of the present occupant and of each scan under way. The two are the same
while the scan's payload is current; when it is not, nothing was sent for the newer edit
(`Timely`, `NoneAhead`). `Holds(v, l)` says what is so of a scan at stage `v` with `l` in
hand: its snapshot agrees with the store in what it will use again (`Snapshot`), what was
sent before its request may be repeated (`Due`), its attempt is written before the request
is made (`Written`), and no use speaks against it (`Unused`). A scan establishes `Due`
when it begins a wake, for then what is stored may be retried (`RetriesTheStored`), and it
stays so because every other writer needs the lock. `RequestsRemembered` is `Recalled` of
the present occupant; `RepeatsAreDue`, `UsedIsNotWoken` and `UsedWindowIsNotWoken` are
`Due` and `Unused` at the one step that sends.

`AttemptsAreBounded` adds that the stored count is at least the number of requests sent
(`CountedFor`) and that a scan which has not sent its request has one left (`Tallied`).
The count can be above that number, since it goes on from one window to the next.

### What the model shows besides

- The initial wake wipes the payload it used. Whether the scan has to read another one is
  asked at manager.go:224 with one clock, and whether the window is due at a later one;
  when the reset passes between the two, the reset wake has no token, fails as
  `missing_access_token`, which is final, and the window is not woken (`Refresh`, `Again`,
  `Send` of a wiped payload; manager.go:208-212 says that a fresh payload is read).
- A usage record replaces the one before it whatever its time (controller.go:349). A late
  one hides a newer use, and then a window may be woken that was used:
  `UsedWindowIsNotWoken` has that as its exception.
- `AttemptCount` goes on from one window to the next (manager.go:411-418): a window after
  a failed one has fewer retries, or none.

## 8. Profiles and ProxyPlans

### State and actions

`Profiles` is the catalog: a function from the names in use to profiles, with the URL, the
fallback and the credentials that are away on it. Every operation runs under the store's
mutex and its write is all or nothing, so each is one step. `ProxyPlans` extends it with
the credentials' documents, the locks, the plans, and the requests of the admins.

| Code | Actions |
|---|---|
| `Store.save`, `Delete`, `updateFallbackState`, `load`, `Match` | `Save`, `Delete`, `UpdateFallback`, `Load`, `Matches` |
| `validateFallbackFields`, `validateFallbackGraph` | `ValidFields`, `ValidGraph` (with the bounded walk of the code) |
| `preview` | `Preview` (the request's checks), per credential `Read` (the snapshot) and `Inspect` (its profile and its target, from the catalog), `MakePlan` (the fallback's checks, the pruning, the plan) |
| `apply` | `Apply` (prunes and takes the plan), per credential `Get` and `Put`, `Finish` (the mark in the catalog) |
| `SetProxy`, `MutateAndSaveLocked` | `Get` (lock, read, guard), `Put` (save, second reading, unlock) |
| `prunePlansLocked` | `Prunings` |
| `SetDisabled` by disableFromQuota and recovery | `WriterRead`, `WriterWrite` |
| operator, CPA | `EditByHand`; it takes no lock |

`byHand`, `moved` and `had` are histories: the revisions written by hand, the credentials a
fallback moved and from which URL, the URLs a profile ever had. "keep" items do nothing at
apply and are left out. Three things are coarser than the code. The two host calls of a
snapshot are one step, since the revision they end with is what the guard compares; so are
the two questions `Inspect` asks of the catalog, whose answers meet again only in
`FitsFallback`, which compares both with the catalog of that moment. And a request has one
target, a profile or none, where the code has one for each item and takes plain URLs, too: a
fallback demands one target of all its items, and to the other properties an URL is an URL. Faults: an item that fails, a save without an answer, a catalog that
cannot be written or read, the death of the process, which loses plans and requests.

### Run

`proxy_plans`: two profiles, two URLs, two credentials, two admins with one plan each, a
table of two plans (256 in the code) that live one unit of time, and one piece of other
work: an edit of the catalog or by hand, the other writer, or a fault; 4,590,428 states,
two to three minutes. The catalogs to start from have a profile with another as its
fallback, and two profiles with one URL. A plan expires, is evicted by another, and is
overtaken by the other admin's, by an edit and by the other writer in these bounds; what
takes more of them at once is covered by the theorems. It shows that a plan is carried out
once (`TakenOnce`); that what a save replaces unseen was written by hand
(`OnlyEditsByHandAreLost`); that marks are of credentials which were moved
(`MarkedWasMoved`); that no fallback leads back or nowhere (`FallbacksEnd`); and that the
next start accepts what the operations wrote (`CatalogLoads`). Only safety is claimed, so
there is no fairness; a system whose bounds are used up stops, and deadlock is not checked.

### Proofs

`ProxyPlansProofs` proves all of these for any number of admins, credentials, profiles,
plans and faults.

- `TypeCorrect`: one lemma per action. `Locks` is part of it: the lock of a credential is
  held by the request that saves it, or by the other writer.
- `PlansTakenOnce`, from `OnePlace`: a plan is with the request that makes it, in the table,
  or with the request that carries it out.
- `PluginLosesNothing`, from `HoldersHaveSeen`: whoever holds a lock has seen all that the
  plugin wrote. The guard of `Get` establishes it, the lock keeps it until the save.
- `MarksAreTrue`, from `Provenance`: that a credential had an URL of the profile is passed
  on from the preview to the plan, to the request and to the mark. It is known of a
  revision, and a document that changes gets a new one (`EveryStepGrows`), so the guard on
  the revision is what carries it from the preview to the save. Between `Read` and `Inspect`
  the document may change already; what was read then is of a revision that is past.

- `CatalogStaysLoadable` and `FallbacksStayFinite`, from `Settled` (the catalog is finite and
  one that a start accepts). `Save` and `UpdateFallback` check what they write; `Delete` does
  not, and is safe because the profile that goes is nobody's backup (`DeleteSettles`).

What the last two rest on is in `ProfilesProofs`, about catalogs of any size.
`SearchFindsCycles`: the walk along the backups, for as many steps as there are profiles, ends
for every profile if and only if no set of profiles has all its backups inside. From a cycle
it never gets out (`CyclesAreFound`); a walk that has not ended has been at more places than
there are profiles, hence at one of them twice, and what lies between is a cycle
(`EndsAreReached`). The walk is a recursive function. What it satisfies at each step
(`WalkSteps`), and what is said of all its steps, takes an induction; `AllNumbers` states it
of a set of numbers, first-order, and proves it from the least number that is not in the set.

The theorems assume what `ProxyPlansAssumption` says: names are apart; the catalog to start
from is what `Store.load` accepts, since it sets anything else aside; and no fallback is
active in it, since the history does not reach back before it.

### What the model shows besides

- A full table (256) evicts the plan that expires first, although it is alive, and apply
  prunes as if it were to add one (management.go:532-551, 921): with a full table even the
  plan that is applied may be gone. README.md:129 gives a plan five minutes.
- Two profiles with one URL make `Match` depend on the order of a map (store.go:462-476): a
  fallback may be refused for one of them, or not.
- A restore takes a URL that no profile has for "direct".
- The catalog may change between preview and apply. `Finish` then marks what the profile is
  by now, or leaves the catalog as it is; the credentials stay moved without a mark.
- A catalog that could not be read for a moment is set aside as one that does not decode.

## 9. Quota

`Classify` and `ParseResponse` are operators from an answer (status, headers, a document)
to the set of its outcomes. It is a set because three things in them depend on the order in
which Go visits a map:

- the first key `findValue` meets (quota.go:735): `Found`;
- which of several headers of one family is read last (quota.go:251). `safeFamily` gives all
  names but a few the family "additional", and reset-at and reset-after-seconds replace each
  other: a family has a set of values for each field, and `HeaderWindow` any choice of them;
- which windows are left when there are more than 32 (domain.go:107), since those that only
  the headers have come in any order: `FirstOf`.

A document is a tree of objects, each with what the code looks for. `SafeQuotaWindows` is
there in full (`Kept`): it keeps the first 32 windows, forgets a use below 0 or above 1000
per cent and judges the window again without it; the headers drop such a use when they are
read (`Believed`). An object has three kinds of resets: `at` for the keys of an absolute
reset that `parseWindow` and `structuredReset` share, `resetTime` for the one that only
`parseWindow` knows, `after` for relative ones. The strings that are recognised are the
members of `Kinds`; the formats of numbers and times, arrays, the status inside a body, and
bodies that are no JSON object or too large (no document) are left out.

| Run | Instance | Shows |
|---|---|---|
| `quota` | every combination of the objects, headers and Retry-After in `MCQuota`, both functions; 400,256 states | the reset outlasts the exhausted windows whose class of resets wins; an open window does not delay it; an answer that says nothing of quota is transient, whatever its status; what passes for recovered has no window that is seen to be exhausted |
| `quota_ambiguous` | the same | see the findings |

The objects have the values on both sides of each boundary: 99 and 100, 1000 and 1001 and -1
per cent; resets at 0, in bounds, and beyond `MaxFuture`; a relative reset that is later than
an absolute one, a resetTime that is later than both; a window that has nothing but its
length; headers of one family that contradict each other, and a further value of a header,
which only `headerReset` reads. Nothing here runs: a step computes one answer, and the
properties compare the answer with the document, not with the code's way through it.

What they do not say is as much part of them, because the code does not do it:

- `ResetOutlastsWindows` is about the class of resets that wins. An absolute reset beats a
  relative one of another exhausted window even if that is later (quota.go:599-602), and
  both beat a resetTime (section 10).
- `AvailableIsOpen` is about windows that are seen to be exhausted. A window with a use above
  1000 per cent and no flag counts as open; so may one whose headers also say that it is open,
  or one that is not among the 32.
- `SilenceIsTransient` lets a family of headers speak if any order of reading it does.

### Proofs

`QuotaProofs` proves the five properties for every answer: any calls (`Inputs`), numbers,
times and bounds. The invariant (`Told`) is that an outcome is one that `Classify` or
`ParseResponse` returns for its call; the rest are lemmas about these operators. `Latest` of
the usable times exists and is one of them (`LatestUsable`); what a place of the document says
holds below it, though the code hands it down (`LimitHolds`, `BlockedHolds`); so a window of
the document is exhausted exactly when the document shuts it (`WindowOfDoc`), and each window
of an inventory is `Founded` in the document or a family of the headers, in every order in
which these are read. From there each property follows the precedence of `ResetForEvent`, or
the questions of `Decide`. They assume that a call is what `UsageInput` can hold: places of
the tree, with those above them, and members of `Objects` and `OfHeaders`
(`QuotaAssumption`). That a classification is one and the same whenever it is asked is false
(section 10). `OneDecision` proves that it is so of every answer in which no field of the
document has two values, the headers of a family do not contradict each other, and there are
no more windows than are kept (`Within`): the three orders above are all there is.

What the model shows besides: `headerReset` takes the latest of all families, those that
are open included, and lends it to blocking windows without a reset of their own; the
headers never override what the document says of used or allowed.

## 10. Findings

Each is a run that TLC must find violated, with the quoted line, in `PROJECT.json`.

- `ownership_orphan`: a disable whose following snapshot fails leaves no record; the
  comment at controller.go:384-386 rules that out.
- `lifecycle_lost_update`: a reconfigure loads state.json before the old controller has
  drained; what that one writes meanwhile is overwritten. `lifecycle_quiesced` shows that
  a host that quiesces first is safe.
- `quota_ambiguous`: one answer is classified as exhausted or as transient, by the order of
  a map, against "pure" at quota.go:1 and controller.go:204.

More observations, without a run of their own:

- `recordSafeError` reads and writes in two accesses of the store (recovery.go:499-506) and
  may undo what a concurrent scan of the same attempt has concluded.
- After `startRecoveryLocked` renewed the `AttemptID`, an error later in the pass schedules
  no backoff: recovery.go:500 compares the identifiers, and the next tick tries again at once.
- `structuredReset` compares keys in lower case with "resetime" (quota.go:561), a slip for
  "resettime": the resetTime that `parseWindow` reads (quota.go:448) does not count beside
  another reset of the document, though quota.go:503-505 says that the latest of the
  exhausted windows is selected. With an exhausted window of resetTime 7 and another of
  reset_at 4 the recovery is tried at 4. `Quota` keeps the two kinds apart.
- A call that has read the pointer and not registered is dropped when the shutdown begins
  (controller.go:232), although main.go:233-235 says that requests in flight are drained.
- A runtime entry without an id right after the enable makes `guardMatchesPostEnable` false
  and probeLocked forgets the credential, enabled and unverified (recovery.go:271);
  `AttemptTracked` is therefore checked, and proved, without the fault `no_id`.
- An edit by hand between the Get and the Save of a change is lost, since the host's save
  compares nothing (credentials.go:255); `PluginLosesNothing` says that nothing else is.
- A usage callback that arrives during a reconfigure waits at main.go:155 until the old
  controller's operations have ended, because configure holds `controllerMu` across the drain.

## 11. What the checks do not cover

TLC checks the instances above; what is proved is proved for all. Every safety property of a
passing run is stated by a theorem. The liveness properties (`PendingResolved`,
`AdminsReturn`, `CallsReturn`, `DueIsAttempted`) rest on TLC: fairness is out of the prover's
reach. Times are abstract: that a backoff or a timeout has the right length is not checked.
`Ownership` lets an operation run to its end and has no shutdown; `Lifecycle` has
shutdowns and abstracts the operation; `Wakeup` and `ProxyPlans` take the other writers of
what they are about as single steps, or two. Of the partial repair of optional sub-records in
`decodeAndValidate` only that of wake records is modelled. File permissions and
symbolic-link checks, the managers' own tickers (which the controller does not use), the
console's read-only requests and the pool that queries several credentials are left out.
