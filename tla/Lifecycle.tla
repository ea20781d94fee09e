------------------------------ MODULE Lifecycle ------------------------------
(***************************************************************************)
(* The plugin's controllers over its life: CPA registers, reconfigures and *)
(* shuts the plugin down while usage callbacks and management requests     *)
(* come in and scans run.                                                  *)
(*                                                                         *)
(* A controller is a generation, numbered as they are built.  Each has its *)
(* own Store, whose memory was loaded from state.json when the generation  *)
(* was built and which writes the whole state at every update; its own     *)
(* scan coordinator; and its own running operations.  lifecycleMu lets one *)
(* configure or shutdown run at a time; controllerMu guards the pointer to *)
(* the current generation.                                                 *)
(*                                                                         *)
(* What an operation does to its credential is the subject of Ownership;   *)
(* here it waits for its credential, works on it, and updates the state.   *)
(***************************************************************************)
EXTENDS Naturals, FiniteSets

CONSTANTS
  Admins,       \* host threads that call configure, quiesce or shutdown
  Calls,        \* host threads that deliver usage records and requests
  Keys,         \* credentials
  None,
  MaxGens,      \* bound: controllers ever built
  MaxFaults,    \* bound: failing constructions and state updates
  QuiesceFirst  \* does the host call configure only when it has quiesced the plugin

Gens == 1..MaxGens
Scan == "scan"   \* the scan coordinator, as a worker of its generation

ASSUME LifecycleAssumption ==
  /\ MaxGens \in Nat /\ MaxFaults \in Nat
  /\ QuiesceFirst \in BOOLEAN
  /\ None \notin Nat \cup Admins \cup Calls

ASSUME ScanAssumption == Scan \notin Calls \cup {None}

VARIABLES
  lifecycleMu,   \* the admin inside configure or shutdown, None when free
  controllerMu,  \* the admin that holds it for writing, None when free
  controller,    \* the published generation, None when there is none
  apc,           \* where each admin stands
  old,           \* the generation an admin is draining
  cpc, at, job,  \* where each call stands, the generation it got, its purpose
  built,         \* how many generations were built
  enabled,       \* generations whose configuration is enabled
  closing,       \* generations that are shutting down
  scan,          \* the scan coordinator of each generation
  open,          \* generations whose store still has its directory handle
  mem,           \* each store's memory: the credentials with a record
  disk,          \* state.json
  holder,        \* who holds each generation's lock of each credential
  acked,         \* the state after all updates that were reported done
  faults

admins == <<lifecycleMu, controllerMu, controller, apc, old>>
calls  == <<cpc, at, job>>
gens   == <<built, enabled, closing, scan, open>>
store  == <<mem, disk, acked>>
vars   == <<admins, calls, gens, store, holder, faults>>

CallStages == {"idle", "arrived", "has_pointer", "wants_lock", "works"}
ScanStages == {"off", "sleeps", "wants_lock", "works", "stopped"}
NoJob == [kind |-> "none", key |-> None]

Running(g) == {c \in Calls : at[c] = g /\ cpc[c] \in {"wants_lock", "works"}}
Scanning(g) == scan[g] \in {"sleeps", "wants_lock", "works"}

Fault == faults < MaxFaults /\ faults' = faults + 1

-----------------------------------------------------------------------------
(* configure and shutdown.                                                 *)

Go(a, stage) == apc' = [apc EXCEPT ![a] = stage]

Configuring(a) == apc[a] \in {"configure", "build", "replace", "publish", "start"}

\* register and reconfigure; there are never more of them than MaxGens allows.
CallConfigure(a) ==
  /\ apc[a] = "idle"
  /\ built + Cardinality({b \in Admins : apc[b] \in {"configure", "build"}}) < MaxGens
  /\ QuiesceFirst => controller = None /\ ~\E b \in Admins : Configuring(b)
  /\ Go(a, "configure")
  /\ UNCHANGED <<lifecycleMu, controllerMu, controller, old, calls, gens, store, holder, faults>>

\* quiesce and shutdown, which the host may ask for at any time.
CallShutdown(a) ==
  /\ apc[a] = "idle"
  /\ Go(a, "shutdown")
  /\ UNCHANGED <<lifecycleMu, controllerMu, controller, old, calls, gens, store, holder, faults>>

TakeLifecycle(a) ==
  /\ apc[a] \in {"configure", "shutdown"}
  /\ lifecycleMu = None
  /\ lifecycleMu' = a
  /\ Go(a, IF apc[a] = "configure" THEN "build" ELSE "unpublish")
  /\ UNCHANGED <<controllerMu, controller, old, calls, gens, store, holder, faults>>

Leave(a) == lifecycleMu' = None /\ Go(a, "idle")

\* Mutant: the stores are opened before the configuration is asked whether it
\* wants them.
BuildOpensFirst(a) ==
  /\ apc[a] = "build"
  /\ built' = built + 1
  /\ open' = open \cup {built + 1}
  /\ mem' = [mem EXCEPT ![built + 1] = disk]
  /\ \E on \in BOOLEAN : enabled' = IF on THEN enabled \cup {built + 1} ELSE enabled
  /\ Go(a, "replace")
  /\ UNCHANGED <<lifecycleMu, controllerMu, controller, old, closing, scan, disk,
                 acked, faults, calls, holder>>

\* Mutant: the replacement is built running, not stopped.
BuildRunning(a) ==
  /\ apc[a] = "build"
  /\ built' = built + 1
  /\ open' = open \cup {built + 1}
  /\ mem' = [mem EXCEPT ![built + 1] = disk]
  /\ enabled' = enabled \cup {built + 1}
  /\ scan' = [scan EXCEPT ![built + 1] = "sleeps"]
  /\ Go(a, "replace")
  /\ UNCHANGED <<lifecycleMu, controllerMu, controller, old, closing, disk, acked,
                 faults, calls, holder>>

\* Parse the configuration and build the next generation, stopped, with the
\* state that is on disk now.
Build(a) ==
  /\ apc[a] = "build"
  /\ \/ /\ Fault
        /\ Leave(a)
        /\ UNCHANGED <<controllerMu, controller, old, gens, store>>
     \/ /\ built < MaxGens
        /\ built' = built + 1
        /\ \E on \in BOOLEAN :
             /\ enabled' = IF on THEN enabled \cup {built + 1} ELSE enabled
             /\ open' = IF on THEN open \cup {built + 1} ELSE open
             /\ mem' = IF on THEN [mem EXCEPT ![built + 1] = disk] ELSE mem
        /\ Go(a, "replace")
        /\ UNCHANGED <<lifecycleMu, controllerMu, controller, old, closing, scan,
                       disk, acked, faults>>
  /\ UNCHANGED <<calls, holder>>

\* Controller.Shutdown begins: no operation starts any more, the contexts of the
\* running ones are cancelled.
BeginShutdown(a, g) ==
  /\ closing' = closing \cup {g}
  /\ old' = [old EXCEPT ![a] = g]
  /\ Go(a, "drain")

\* Mutant: the old generation is drained before the mutex is taken.
ReplaceUnguarded(a) ==
  /\ apc[a] = "replace"
  /\ IF controller # None
     THEN BeginShutdown(a, controller)
     ELSE Go(a, "publish") /\ UNCHANGED <<closing, old>>
  /\ UNCHANGED <<lifecycleMu, controllerMu, controller, calls, built, enabled, scan,
                 open, store, holder, faults>>

\* configure takes the pointer's mutex and keeps it while the old generation
\* drains.
Replace(a) ==
  /\ apc[a] = "replace"
  /\ controllerMu = None
  /\ controllerMu' = a
  /\ IF controller # None
     THEN BeginShutdown(a, controller)
     ELSE Go(a, "publish") /\ UNCHANGED <<closing, old>>
  /\ UNCHANGED <<lifecycleMu, controller, calls, built, enabled, scan, open, store, holder, faults>>

\* Mutant: the return without a controller forgets the lifecycle mutex.
UnpublishKeepsMutex(a) ==
  /\ apc[a] = "unpublish"
  /\ controllerMu = None
  /\ controller' = None
  /\ IF controller # None
     THEN BeginShutdown(a, controller)
     ELSE Go(a, "idle") /\ UNCHANGED <<closing, old>>
  /\ UNCHANGED <<lifecycleMu, controllerMu, calls, built, enabled, scan, open, store, holder, faults>>

\* shutdownController clears the pointer first and drains without the mutex.
Unpublish(a) ==
  /\ apc[a] = "unpublish"
  /\ controllerMu = None
  /\ controller' = None
  /\ IF controller # None
     THEN BeginShutdown(a, controller) /\ UNCHANGED lifecycleMu
     ELSE Leave(a) /\ UNCHANGED <<closing, old>>
  /\ UNCHANGED <<controllerMu, calls, built, enabled, scan, open, store, holder, faults>>

\* Mutant: the store is closed as soon as the scan coordinator has stopped.
DrainScansOnly(a) ==
  /\ apc[a] = "drain"
  /\ ~Scanning(old[a])
  /\ open' = open \ {old[a]}
  /\ old' = [old EXCEPT ![a] = None]
  /\ IF controllerMu = a
     THEN Go(a, "publish") /\ UNCHANGED lifecycleMu
     ELSE Leave(a)
  /\ UNCHANGED <<controllerMu, controller, calls, built, enabled, closing, scan, store, holder, faults>>

\* Shutdown waits for the scan coordinator and for the running operations, and
\* closes the store.
Drain(a) ==
  /\ apc[a] = "drain"
  /\ ~Scanning(old[a])
  /\ Running(old[a]) = {}
  /\ open' = open \ {old[a]}
  /\ old' = [old EXCEPT ![a] = None]
  /\ IF controllerMu = a
     THEN Go(a, "publish") /\ UNCHANGED lifecycleMu
     ELSE Leave(a)
  /\ UNCHANGED <<controllerMu, controller, calls, built, enabled, closing, scan, store, holder, faults>>

Publish(a) ==
  /\ apc[a] = "publish"
  /\ controller' = built
  /\ controllerMu' = None
  /\ Go(a, "start")
  /\ UNCHANGED <<lifecycleMu, old, calls, gens, store, holder, faults>>

\* Start the published generation's scan coordinator, if it has work.
StartScans(a) ==
  /\ apc[a] = "start"
  /\ scan' = IF built \in enabled /\ built \notin closing
             THEN [scan EXCEPT ![built] = "sleeps"] ELSE scan
  /\ Leave(a)
  /\ UNCHANGED <<controllerMu, controller, old, calls, built, enabled, closing, open, store, holder, faults>>

-----------------------------------------------------------------------------
(* The work of a generation g, done by a call or by its scan coordinator.  *)

\* Mutant: the return of an operation that had nothing to write keeps the lock.
FreeLockAfterWrite(g, k) ==
  holder' = IF disk' = disk THEN holder ELSE [holder EXCEPT ![g][k] = None]

FreeLock(g, k) == holder' = [holder EXCEPT ![g][k] = None]

\* Mutant: a state that could not be written stays in memory.
UpdateKeepsFailed(g, now, done) ==
  /\ g \in open
  /\ mem' = [mem EXCEPT ![g] = now]
  /\ \/ disk' = now /\ acked' = done /\ UNCHANGED faults
     \/ Fault /\ UNCHANGED <<disk, acked>>

\* Store.Update under the generation's own mutex: the whole of its memory, with
\* the change, becomes state.json.  A store without its directory handle fails.
Update(g, now, done) ==
  \/ /\ g \in open
     /\ mem' = [mem EXCEPT ![g] = now]
     /\ disk' = now
     /\ acked' = done
     /\ UNCHANGED faults
  \/ /\ g \in open
     /\ Fault
     /\ UNCHANGED store
  \/ /\ g \notin open
     /\ UNCHANGED <<store, faults>>

-----------------------------------------------------------------------------
(* Usage records and management requests.                                  *)

Jobs == {"usage", "manage"}

Arrive(c) ==
  /\ cpc[c] = "idle"
  /\ \E kind \in Jobs, k \in Keys : job' = [job EXCEPT ![c] = [kind |-> kind, key |-> k]]
  /\ cpc' = [cpc EXCEPT ![c] = "arrived"]
  /\ UNCHANGED <<admins, at, gens, store, holder, faults>>

Return(c) ==
  /\ cpc' = [cpc EXCEPT ![c] = "idle"]
  /\ at'  = [at EXCEPT ![c] = None]
  /\ job' = [job EXCEPT ![c] = NoJob]

\* handleMethod reads the pointer under the read lock.
ReadPointer(c) ==
  /\ cpc[c] = "arrived"
  /\ controllerMu = None
  /\ IF controller = None
     THEN Return(c)
     ELSE /\ cpc' = [cpc EXCEPT ![c] = "has_pointer"]
          /\ at' = [at EXCEPT ![c] = controller]
          /\ UNCHANGED job
  /\ UNCHANGED <<admins, gens, store, holder, faults>>

\* Mutant: the operation is registered without a look at closing.
BeginUnchecked(c) ==
  /\ cpc[c] = "has_pointer"
  /\ IF at[c] \in enabled
     THEN cpc' = [cpc EXCEPT ![c] = "wants_lock"] /\ UNCHANGED <<at, job>>
     ELSE Return(c)
  /\ UNCHANGED <<admins, gens, store, holder, faults>>

\* HandleUsage and HandleManagement register the operation, unless the
\* generation is closing or has nothing to work with.
Begin(c) ==
  /\ cpc[c] = "has_pointer"
  /\ IF at[c] \in enabled \ closing
     THEN cpc' = [cpc EXCEPT ![c] = "wants_lock"] /\ UNCHANGED <<at, job>>
     ELSE Return(c)
  /\ UNCHANGED <<admins, gens, store, holder, faults>>

\* WithLock: a usage goroutine runs under the generation's context and may give
\* up once it is cancelled; a management request runs under its own.
OpLock(c) ==
  /\ cpc[c] = "wants_lock"
  /\ LET g == at[c]  k == job[c].key IN
     \/ /\ holder[g][k] = None
        /\ holder' = [holder EXCEPT ![g][k] = c]
        /\ cpc' = [cpc EXCEPT ![c] = "works"]
        /\ UNCHANGED <<at, job>>
     \/ /\ g \in closing /\ job[c].kind = "usage"
        /\ Return(c)
        /\ UNCHANGED holder
  /\ UNCHANGED <<admins, gens, store, faults>>

\* The operation's host calls are over.  A usage event claims its credential; a
\* requested scan retires it, or leaves its record; both write the state.
OpUpdate(c) ==
  /\ cpc[c] = "works"
  /\ LET g == at[c]  k == job[c].key IN
     /\ \/ job[c].kind = "usage"  /\ Update(g, mem[g] \cup {k}, acked \cup {k})
        \/ job[c].kind = "manage" /\ Update(g, mem[g] \ {k}, acked \ {k})
        \/ job[c].kind = "manage" /\ Update(g, mem[g], acked)
     /\ FreeLock(g, k)
  /\ Return(c)
  /\ UNCHANGED <<admins, gens>>

-----------------------------------------------------------------------------
(* The scan coordinator.                                                   *)

\* A tick finds a credential with a record due.
Tick(g) ==
  /\ scan[g] = "sleeps"
  /\ g \notin closing
  /\ mem[g] # {}
  /\ scan' = [scan EXCEPT ![g] = "wants_lock"]
  /\ UNCHANGED <<admins, calls, built, enabled, closing, open, store, holder, faults>>

\* The next record of the scan; a cancelled scan gives up instead.
ScanLock(g) ==
  /\ scan[g] = "wants_lock"
  /\ \/ \E k \in mem[g] :
          /\ holder[g][k] = None
          /\ holder' = [holder EXCEPT ![g][k] = Scan]
          /\ scan' = [scan EXCEPT ![g] = "works"]
     \/ /\ g \in closing \/ mem[g] = {}
        /\ scan' = [scan EXCEPT ![g] = "sleeps"]
        /\ UNCHANGED holder
  /\ UNCHANGED <<admins, calls, built, enabled, closing, open, store, faults>>

\* The record is retired, or kept with new contents.
ScanUpdate(g) ==
  /\ scan[g] = "works"
  /\ \E k \in Keys :
       /\ holder[g][k] = Scan
       /\ \/ Update(g, mem[g] \ {k}, acked \ {k})
          \/ Update(g, mem[g], acked)
       /\ FreeLock(g, k)
  /\ scan' = [scan EXCEPT ![g] = "sleeps"]
  /\ UNCHANGED <<admins, calls, built, enabled, closing, open>>

StopScans(g) ==
  /\ scan[g] = "sleeps"
  /\ g \in closing
  /\ scan' = [scan EXCEPT ![g] = "stopped"]
  /\ UNCHANGED <<admins, calls, built, enabled, closing, open, store, holder, faults>>

-----------------------------------------------------------------------------
Init ==
  /\ lifecycleMu = None /\ controllerMu = None /\ controller = None
  /\ apc = [a \in Admins |-> "idle"] /\ old = [a \in Admins |-> None]
  /\ cpc = [c \in Calls |-> "idle"] /\ at = [c \in Calls |-> None]
  /\ job = [c \in Calls |-> NoJob]
  /\ built = 0 /\ enabled = {} /\ closing = {} /\ open = {}
  /\ scan = [g \in Gens |-> "off"]
  /\ disk \in SUBSET Keys
  /\ mem = [g \in Gens |-> {}]
  /\ acked = disk
  /\ holder = [g \in Gens |-> [k \in Keys |-> None]]
  /\ faults = 0

AdminStep(a) ==
  \/ TakeLifecycle(a) \/ Build(a) \/ Replace(a) \/ Unpublish(a) \/ Drain(a)
  \/ Publish(a) \/ StartScans(a)
CallStep(c) == ReadPointer(c) \/ Begin(c) \/ OpLock(c) \/ OpUpdate(c)
ScanStep(g) == ScanLock(g) \/ ScanUpdate(g) \/ StopScans(g)

Next ==
  \/ \E a \in Admins : CallConfigure(a) \/ CallShutdown(a) \/ AdminStep(a)
  \/ \E c \in Calls : Arrive(c) \/ CallStep(c)
  \/ \E g \in Gens : Tick(g) \/ ScanStep(g)

Spec == Init /\ [][Next]_vars

\* Threads and goroutines go on running, host calls return, and the waiters of a
\* mutex or of a credential's lock are served in turn.  Nothing obliges the host
\* to call, nor the ticker to tick.
Fairness ==
  /\ \A a \in Admins : WF_vars(AdminStep(a)) /\ SF_vars(TakeLifecycle(a))
  /\ \A c \in Calls  : WF_vars(CallStep(c)) /\ SF_vars(OpLock(c)) /\ SF_vars(ReadPointer(c))
  /\ \A g \in Gens   : WF_vars(ScanStep(g)) /\ SF_vars(ScanLock(g))

FairSpec == Spec /\ Fairness

-----------------------------------------------------------------------------
(* What must hold.                                                         *)

Types ==
  /\ lifecycleMu \in Admins \cup {None}
  /\ controllerMu \in Admins \cup {None}
  /\ controller \in 1..built \cup {None}
  /\ apc \in [Admins -> {"idle", "configure", "shutdown", "build", "replace",
                         "unpublish", "drain", "publish", "start"}]
  /\ old \in [Admins -> 1..built \cup {None}]
  /\ cpc \in [Calls -> CallStages]
  /\ at \in [Calls -> 1..built \cup {None}]
  /\ job \in [Calls -> [kind : Jobs, key : Keys] \cup {NoJob}]
  /\ built \in 0..MaxGens
  /\ enabled \subseteq 1..built /\ closing \subseteq 1..built /\ open \subseteq enabled
  /\ scan \in [Gens -> ScanStages]
  /\ mem \in [Gens -> SUBSET Keys]
  /\ disk \subseteq Keys /\ acked \subseteq Keys
  /\ holder \in [Gens -> [Keys -> Calls \cup {Scan, None}]]
  /\ faults \in 0..MaxFaults

\* A call that was let in has a generation.
LetIn ==
  \A c \in Calls :
    /\ cpc[c] # "idle" => job[c] \in [kind : Jobs, key : Keys]
    /\ cpc[c] \in {"wants_lock", "works"} => at[c] \in Gens

\* Exactly the calls and scans at work hold a lock: that of their own generation, of the
\* credential they work on; and a scan holds one at a time.
Holders ==
  \A g \in Gens :
    /\ \A c \in Calls, k \in Keys :
         holder[g][k] = c <=> at[c] = g /\ job[c].key = k /\ cpc[c] = "works"
    /\ scan[g] = "works" <=> \E k \in Keys : holder[g][k] = Scan
    /\ \A k, l \in Keys : holder[g][k] = Scan /\ holder[g][l] = Scan => k = l

\* The types of the variables; a lock of a credential is held exactly while a worker of
\* the generation it belongs to works on that credential.
TypeOK == Types /\ LetIn /\ Holders

\* Never do two generations work on credentials at the same time: while a scan
\* coordinator runs, or an operation is under way, no other generation has any.
\* Their locks are not the same, so nothing else would keep them apart.
OneGenerationWorks ==
  \A g, h \in Gens :
    /\ g # h
    /\ Running(g) # {} \/ Scanning(g)
    => Running(h) = {} /\ ~Scanning(h)

\* A registered operation never finds its store closed under it.
WorkersHaveStores ==
  \A g \in Gens : Running(g) # {} \/ Scanning(g) => g \in open

\* Whoever can read the pointer finds a generation that takes work, or none.
PublishedTakesWork ==
  controllerMu = None /\ controller # None => controller \notin closing

\* configure, quiesce and shutdown return: the drain does not hang, whatever
\* operations, scans and other admins are about.
AdminsReturn ==
  \A a \in Admins : apc[a] # "idle" ~> apc[a] = "idle"

\* A delivered call is always answered, through any reconfiguration.
CallsReturn ==
  \A c \in Calls : cpc[c] # "idle" ~> cpc[c] = "idle"

\* What a store reported as written stays in state.json until an update of that
\* record changes it.
UpdatesSurvive == disk = acked

=============================================================================
