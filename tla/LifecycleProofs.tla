-------------------------- MODULE LifecycleProofs ---------------------------
(***************************************************************************)
(* Proofs about Lifecycle: at most one generation ever works, on a store   *)
(* that is open, and whoever reads the pointer finds one that takes work.  *)
(* And no reported update is lost as long as the host configures the       *)
(* plugin only when it has quiesced it.                                    *)
(***************************************************************************)
EXTENDS Lifecycle, TLAPS

\* The stages at which an admin holds lifecycleMu.
Inside == {"build", "replace", "unpublish", "drain", "publish", "start"}

\* lifecycleMu and controllerMu are held at the stages where the code holds them.
Mutexes ==
  /\ \A a \in Admins : apc[a] \in Inside <=> lifecycleMu = a
  /\ \A a \in Admins : controllerMu = a => apc[a] \in {"drain", "publish"}
  /\ \A a \in Admins : apc[a] = "publish" => controllerMu = a

\* The generation an admin drains, and what the pointer is meanwhile.
Draining ==
  \A a \in Admins : apc[a] = "drain" =>
    /\ old[a] \in closing
    /\ controllerMu = a => controller = old[a]
    /\ controllerMu # a => controller = None

\* The generation that is about to be published was never published before.
Fresh ==
  \A a \in Admins : apc[a] = "replace" \/ controllerMu = a =>
    built \in Gens /\ built \notin closing /\ controller # built

Started ==
  \A a \in Admins : apc[a] = "start" =>
    controller = built /\ built \in Gens /\ built \notin closing

Busy(g) == Running(g) # {} \/ Scanning(g)

\* When the next generation is published, the one before has stopped.
Replaced ==
  \A a \in Admins : apc[a] = "publish" =>
    controller \in closing \cup {None} /\ \A g \in Gens : ~Busy(g)

\* A call has the current generation, or one that takes no work any more.
Pointers ==
  \A c \in Calls : at[c] # None => at[c] = controller \/ at[c] \in closing

\* Only the current generation works, or the one that is being drained.
Working ==
  \A g \in Gens : Busy(g) =>
    /\ g \in open
    /\ g = controller \/ \E a \in Admins : apc[a] = "drain" /\ old[a] = g

\* A generation that takes work has its store.
Stores == enabled \ closing \subseteq open

\* The scans of a generation begin when it was published.
Unstarted ==
  /\ \A g \in Gens : g > built => scan[g] = "off"
  /\ \A a \in Admins : apc[a] \in {"replace", "publish", "start"} \/ controllerMu = a =>
       built \in Gens /\ scan[built] = "off"

Order == Mutexes /\ Draining /\ Fresh /\ Started
Work  == Replaced /\ Pointers /\ Working /\ Stores /\ PublishedTakesWork

\* A fault is one of the faults that are left.
LEMMA FaultsBounded ==
  ASSUME faults \in 0..MaxFaults, Fault PROVE faults' \in 0..MaxFaults
BY LifecycleAssumption DEF Fault

\* The stores that are open belong to generations.
LEMMA OpenInGens == Types => open \subseteq Gens
BY LifecycleAssumption DEF Types, Gens

\* No call that got no pointer begins an operation.
LEMMA NoneNotEnabled == Types => None \notin enabled
<1>1. None \notin Nat
  BY LifecycleAssumption
<1>2. Types => enabled \subseteq Nat
  BY LifecycleAssumption DEF Types
<1>3. QED
  BY <1>1, <1>2

\* An update of the state leaves sets of credentials, and a fault at most.
LEMMA UpdateTypes ==
  ASSUME Types, NEW g, NEW now, NEW done \in SUBSET Keys,
         g \in open => now \in SUBSET Keys, Update(g, now, done)
  PROVE  /\ mem' \in [Gens -> SUBSET Keys] /\ disk' \subseteq Keys /\ acked' \subseteq Keys
         /\ faults' \in 0..MaxFaults
BY FaultsBounded DEF Types, Update, store, Gens

\* The locks keep their type when one of them changes hands.
LEMMA HolderTypes ==
  ASSUME holder \in [Gens -> [Keys -> Calls \cup {Scan, None}]],
         NEW g, NEW k, NEW w \in Calls \cup {Scan, None}
  PROVE  [holder EXCEPT ![g][k] = w] \in [Gens -> [Keys -> Calls \cup {Scan, None}]]
<1>1. CASE g \in Gens
  <2>1. [holder[g] EXCEPT ![k] = w] \in [Keys -> Calls \cup {Scan, None}]
    BY <1>1
  <2>2. QED
    BY <1>1, <2>1
<1>2. CASE g \notin Gens
  BY <1>2
<1>3. QED
  BY <1>1, <1>2

\* Every step keeps the types; a published generation is one that was built.
LEMMA TypeStep == Types /\ Order /\ [Next]_vars => Types'
<1> SUFFICES ASSUME Types, Order, [Next]_vars PROVE Types'
  OBVIOUS
<1> USE LifecycleAssumption DEF Types, Gens, CallStages, ScanStages, NoJob, Jobs, Scan
<1>1. ASSUME NEW a \in Admins, CallConfigure(a) PROVE Types'
  BY <1>1 DEF CallConfigure, Go, calls, gens, store
<1>2. ASSUME NEW a \in Admins, CallShutdown(a) PROVE Types'
  BY <1>2 DEF CallShutdown, Go, calls, gens, store
<1>3. ASSUME NEW a \in Admins, TakeLifecycle(a) PROVE Types'
  BY <1>3 DEF TakeLifecycle, Go, calls, gens, store
<1>4. ASSUME NEW a \in Admins, Build(a) PROVE Types'
  <2>1. CASE UNCHANGED gens
    BY <1>4, <2>1, FaultsBounded DEF Build, Leave, Go, calls, gens, store
  <2>2. CASE built < MaxGens /\ built' = built + 1
    <3>1. built' \in 0..MaxGens /\ 1..built \subseteq 1..built' /\ built' \in 1..built' /\ built' \in Gens
      BY <2>2
    <3>2. PICK on \in BOOLEAN :
            /\ enabled' = IF on THEN enabled \cup {built + 1} ELSE enabled
            /\ open' = IF on THEN open \cup {built + 1} ELSE open
            /\ mem' = IF on THEN [mem EXCEPT ![built + 1] = disk] ELSE mem
      BY <1>4, <2>2 DEF Build, gens
    <3>3. enabled' \subseteq 1..built' /\ open' \subseteq enabled' /\ mem' \in [Gens -> SUBSET Keys]
      BY <2>2, <3>1, <3>2
    <3>4. UNCHANGED <<lifecycleMu, controllerMu, controller, old, closing, scan, disk, acked,
                      faults, calls, holder>> /\ apc' = [apc EXCEPT ![a] = "replace"]
      BY <1>4, <2>2 DEF Build, Go, gens
    <3>5. closing' \subseteq 1..built' /\ controller' \in 1..built' \cup {None}
          /\ old' \in [Admins -> 1..built' \cup {None}] /\ at' \in [Calls -> 1..built' \cup {None}]
      BY <3>1, <3>4 DEF calls
    <3>6. QED
      BY <3>1, <3>3, <3>4, <3>5 DEF calls
  <2>3. QED
    BY <1>4, <2>1, <2>2 DEF Build
<1>5. ASSUME NEW a \in Admins, Replace(a) PROVE Types'
  <2>1. CASE controller # None
    <3>1. controller \in 1..built
      BY <2>1
    <3>2. closing' = closing \cup {controller} /\ old' = [old EXCEPT ![a] = controller]
      BY <1>5, <2>1 DEF Replace, BeginShutdown
    <3>3. old' \in [Admins -> 1..built \cup {None}] /\ closing' \subseteq 1..built
      BY <3>1, <3>2
    <3>4. QED
      BY <1>5, <2>1, <3>3 DEF Replace, BeginShutdown, Go, calls, store
  <2>2. CASE controller = None
    BY <1>5, <2>2 DEF Replace, Go, calls, store
  <2>3. QED
    BY <2>1, <2>2
<1>6. ASSUME NEW a \in Admins, Unpublish(a) PROVE Types'
  <2>1. CASE controller # None
    <3>1. controller \in 1..built
      BY <2>1
    <3>2. closing' = closing \cup {controller} /\ old' = [old EXCEPT ![a] = controller]
      BY <1>6, <2>1 DEF Unpublish, BeginShutdown
    <3>3. old' \in [Admins -> 1..built \cup {None}] /\ closing' \subseteq 1..built
      BY <3>1, <3>2
    <3>4. QED
      BY <1>6, <2>1, <3>3 DEF Unpublish, BeginShutdown, Go, calls, store
  <2>2. CASE controller = None
    BY <1>6, <2>2 DEF Unpublish, Leave, Go, calls, store
  <2>3. QED
    BY <2>1, <2>2
<1>7. ASSUME NEW a \in Admins, Drain(a) PROVE Types'
  BY <1>7 DEF Drain, Leave, Go, calls, store
<1>8. ASSUME NEW a \in Admins, Publish(a) PROVE Types'
  <2>1. built \in 1..built
    BY <1>8 DEF Publish, Order, Mutexes, Fresh
  <2>2. QED
    BY <1>8, <2>1 DEF Publish, Go, calls, gens, store
<1>9. ASSUME NEW a \in Admins, StartScans(a) PROVE Types'
  BY <1>9 DEF StartScans, Leave, Go, calls, store
<1>10. ASSUME NEW c \in Calls, Arrive(c) PROVE Types'
  BY <1>10 DEF Arrive, admins, gens, store
<1>11. ASSUME NEW c \in Calls, ReadPointer(c) PROVE Types'
  <2>1. CASE Return(c)
    BY <1>11, <2>1 DEF ReadPointer, Return, admins, gens, store
  <2>2. CASE controller # None /\ cpc' = [cpc EXCEPT ![c] = "has_pointer"]
             /\ at' = [at EXCEPT ![c] = controller] /\ UNCHANGED job
    <3>1. cpc' \in [Calls -> CallStages] /\ at' \in [Calls -> 1..built \cup {None}]
      BY <2>2
    <3>2. QED
      BY <1>11, <2>2, <3>1 DEF ReadPointer, admins, gens, store
  <2>3. QED
    BY <1>11, <2>1, <2>2 DEF ReadPointer
<1>12. ASSUME NEW c \in Calls, Begin(c) PROVE Types'
  BY <1>12 DEF Begin, Return, admins, gens, store
<1>13. ASSUME NEW c \in Calls, OpLock(c) PROVE Types'
  <2>1. CASE UNCHANGED holder
    BY <1>13, <2>1 DEF OpLock, Return, admins, gens, store
  <2>2. CASE /\ holder' = [holder EXCEPT ![at[c]][job[c].key] = c]
             /\ cpc' = [cpc EXCEPT ![c] = "works"]
             /\ UNCHANGED <<at, job>>
    <3>1. holder' \in [Gens -> [Keys -> Calls \cup {Scan, None}]]
      BY <2>2, HolderTypes
    <3>2. cpc' \in [Calls -> CallStages]
      BY <2>2
    <3>3. QED
      BY <1>13, <2>2, <3>1, <3>2 DEF OpLock, admins, gens, store
  <2>3. QED
    BY <1>13, <2>1, <2>2 DEF OpLock
<1>14. ASSUME NEW c \in Calls, OpUpdate(c) PROVE Types'
  <2>1. holder' \in [Gens -> [Keys -> Calls \cup {Scan, None}]]
    BY <1>14, HolderTypes DEF OpUpdate, FreeLock
  <2>2. /\ mem' \in [Gens -> SUBSET Keys] /\ disk' \subseteq Keys /\ acked' \subseteq Keys
        /\ faults' \in 0..MaxFaults
    <3> DEFINE g == at[c]
               k == job[c].key
    <3>1. g \in open => mem[g] \in SUBSET Keys
      BY OpenInGens
    <3>2. CASE job[c].kind = "usage" /\ Update(g, mem[g] \cup {k}, acked \cup {k})
      <4>1. k \in Keys
        BY <3>2
      <4>2. QED
        BY <3>1, <3>2, <4>1, UpdateTypes
    <3>3. CASE Update(g, mem[g] \ {k}, acked \ {k})
      BY <3>1, <3>3, UpdateTypes
    <3>4. CASE Update(g, mem[g], acked)
      BY <3>1, <3>4, UpdateTypes
    <3>5. QED
      BY <1>14, <3>2, <3>3, <3>4 DEF OpUpdate
  <2>3. QED
    BY <1>14, <2>1, <2>2 DEF OpUpdate, Return, admins, gens
<1>15. ASSUME NEW g \in Gens, Tick(g) PROVE Types'
  BY <1>15 DEF Tick, admins, calls, store
<1>16. ASSUME NEW g \in Gens, ScanLock(g) PROVE Types'
  <2>1. CASE UNCHANGED holder
    BY <1>16, <2>1 DEF ScanLock, admins, calls, store
  <2>2. CASE \E k \in mem[g] : holder' = [holder EXCEPT ![g][k] = Scan]
    <3>0. PICK k \in mem[g] : holder' = [holder EXCEPT ![g][k] = Scan]
      BY <2>2
    <3>1. holder' \in [Gens -> [Keys -> Calls \cup {Scan, None}]]
      <4>1. Scan \in Calls \cup {Scan, None}
        OBVIOUS
      <4>2. [holder EXCEPT ![g][k] = Scan] \in [Gens -> [Keys -> Calls \cup {Scan, None}]]
        BY <4>1, HolderTypes
      <4>3. QED
        BY <3>0, <4>2
    <3>2. QED
      BY <1>16, <3>1 DEF ScanLock, admins, calls, store
  <2>3. QED
    BY <1>16, <2>1, <2>2 DEF ScanLock
<1>17. ASSUME NEW g \in Gens, ScanUpdate(g) PROVE Types'
  <2>1. PICK k \in Keys : /\ Update(g, mem[g] \ {k}, acked \ {k}) \/ Update(g, mem[g], acked)
                          /\ FreeLock(g, k)
    BY <1>17 DEF ScanUpdate
  <2>2. holder' \in [Gens -> [Keys -> Calls \cup {Scan, None}]]
    BY <2>1, HolderTypes DEF FreeLock
  <2>3. mem[g] \in SUBSET Keys /\ mem[g] \ {k} \in SUBSET Keys /\ acked \ {k} \in SUBSET Keys
    OBVIOUS
  <2>4. /\ mem' \in [Gens -> SUBSET Keys] /\ disk' \subseteq Keys /\ acked' \subseteq Keys
        /\ faults' \in 0..MaxFaults
    BY <2>1, <2>3, UpdateTypes
  <2>5. QED
    BY <1>17, <2>2, <2>4 DEF ScanUpdate, admins, calls
<1>18. ASSUME NEW g \in Gens, StopScans(g) PROVE Types'
  BY <1>18 DEF StopScans, admins, calls, store
<1>19. CASE UNCHANGED vars
  BY <1>19 DEF vars, admins, calls, gens, store
<1>20. QED
  BY <1>1, <1>2, <1>3, <1>4, <1>5, <1>6, <1>7, <1>8, <1>9, <1>10,
     <1>11, <1>12, <1>13, <1>14, <1>15, <1>16, <1>17, <1>18, <1>19
     DEF Next, AdminStep, CallStep, ScanStep

\* Every step keeps the order in which admins replace the controller.
LEMMA OrderStep == Types /\ Order /\ [Next]_vars => Order'
<1> SUFFICES ASSUME Types, Order, [Next]_vars PROVE Order'
  OBVIOUS
<1> USE LifecycleAssumption DEF Types, Order, Mutexes, Draining, Fresh, Started, Inside, Gens
<1>1. ASSUME NEW a \in Admins, CallConfigure(a) PROVE Order'
  BY <1>1 DEF CallConfigure, Go, calls, gens, store
<1>2. ASSUME NEW a \in Admins, CallShutdown(a) PROVE Order'
  BY <1>2 DEF CallShutdown, Go, calls, gens, store
<1>3. ASSUME NEW a \in Admins, TakeLifecycle(a) PROVE Order'
  BY <1>3 DEF TakeLifecycle, Go, calls, gens, store
<1>4. ASSUME NEW a \in Admins, Build(a) PROVE Order'
  BY <1>4 DEF Build, Leave, Go, Fault, calls, gens, store
<1>5. ASSUME NEW a \in Admins, Replace(a) PROVE Order'
  BY <1>5 DEF Replace, BeginShutdown, Go, calls, store
<1>6. ASSUME NEW a \in Admins, Unpublish(a) PROVE Order'
  BY <1>6 DEF Unpublish, BeginShutdown, Leave, Go, calls, store
<1>7. ASSUME NEW a \in Admins, Drain(a) PROVE Order'
  BY <1>7 DEF Drain, Leave, Go, calls, store
<1>8. ASSUME NEW a \in Admins, Publish(a) PROVE Order'
  BY <1>8 DEF Publish, Go, calls, gens, store
<1>9. ASSUME NEW a \in Admins, StartScans(a) PROVE Order'
  BY <1>9 DEF StartScans, Leave, Go, calls, store
<1>10. ASSUME NEW c \in Calls, Arrive(c) PROVE Order'
  BY <1>10 DEF Arrive, admins, gens, store
<1>11. ASSUME NEW c \in Calls, ReadPointer(c) PROVE Order'
  BY <1>11 DEF ReadPointer, Return, admins, gens, store
<1>12. ASSUME NEW c \in Calls, Begin(c) PROVE Order'
  BY <1>12 DEF Begin, Return, admins, gens, store
<1>13. ASSUME NEW c \in Calls, OpLock(c) PROVE Order'
  BY <1>13 DEF OpLock, Return, admins, gens, store
<1>14. ASSUME NEW c \in Calls, OpUpdate(c) PROVE Order'
  BY <1>14 DEF OpUpdate, Update, FreeLock, Return, Fault, admins, gens, store
<1>15. ASSUME NEW g \in Gens, Tick(g) PROVE Order'
  BY <1>15 DEF Tick, admins, calls, store
<1>16. ASSUME NEW g \in Gens, ScanLock(g) PROVE Order'
  BY <1>16 DEF ScanLock, admins, calls, store
<1>17. ASSUME NEW g \in Gens, ScanUpdate(g) PROVE Order'
  BY <1>17 DEF ScanUpdate, Update, FreeLock, Fault, admins, calls, store
<1>18. ASSUME NEW g \in Gens, StopScans(g) PROVE Order'
  BY <1>18 DEF StopScans, admins, calls, store
<1>19. CASE UNCHANGED vars
  BY <1>19 DEF vars, admins, calls, gens, store
<1>20. QED
  BY <1>1, <1>2, <1>3, <1>4, <1>5, <1>6, <1>7, <1>8, <1>9, <1>10,
     <1>11, <1>12, <1>13, <1>14, <1>15, <1>16, <1>17, <1>18, <1>19
     DEF Next, AdminStep, CallStep, ScanStep

\* A call that returns leaves the work of the others alone.
LEMMA ReturnWork ==
  ASSUME Types, Work, NEW c \in Calls, Return(c), UNCHANGED <<admins, gens>>
  PROVE  Work'
<1>1. \A g \in Gens : Busy(g)' => Busy(g)
  BY DEF Return, gens, Busy, Running, Scanning, Types
<1>2. \A d \in Calls : at'[d] = at[d] \/ at'[d] = None
  BY DEF Return, Types
<1>3. QED
  BY <1>1, <1>2
     DEF admins, gens, Work, Replaced, Pointers, Working, Stores, PublishedTakesWork

\* So does an admin that neither starts nor ends a drain or a publication.
LEMMA ElsewhereWork ==
  ASSUME Types, Work, UNCHANGED <<at, cpc, scan, controller, controllerMu, closing, old>>,
         open \subseteq open', enabled' \ closing \subseteq open',
         \A b \in Admins : apc'[b] \in {"drain", "publish"} \/ apc[b] \in {"drain", "publish"}
                           => apc'[b] = apc[b]
  PROVE  Work'
<1>1. \A g \in Gens : Busy(g)' <=> Busy(g)
  BY DEF Busy, Running, Scanning
<1>2. Replaced' /\ Pointers'
  BY <1>1 DEF Work, Replaced, Pointers
<1>3. Working'
  BY <1>1 DEF Work, Working
<1>4. QED
  BY <1>2, <1>3 DEF Work, Stores, PublishedTakesWork

\* Every step leaves the work with the one generation that may do it.
LEMMA WorkStep == Types /\ Order /\ Work /\ [Next]_vars => Work'
<1> SUFFICES ASSUME Types, Order, Work, [Next]_vars PROVE Work'
  OBVIOUS
<1> USE LifecycleAssumption
    DEF Types, Order, Mutexes, Draining, Fresh, Started, Inside, Gens,
        Work, Replaced, Pointers, Working, Stores, PublishedTakesWork
<1>1. ASSUME NEW a \in Admins, CallConfigure(a) PROVE Work'
  BY <1>1, ElsewhereWork DEF CallConfigure, Go, calls, gens
<1>2. ASSUME NEW a \in Admins, CallShutdown(a) PROVE Work'
  BY <1>2, ElsewhereWork DEF CallShutdown, Go, calls, gens
<1>3. ASSUME NEW a \in Admins, TakeLifecycle(a) PROVE Work'
  BY <1>3, ElsewhereWork DEF TakeLifecycle, Go, calls, gens
<1>4. ASSUME NEW a \in Admins, Build(a) PROVE Work'
  <2>1. /\ UNCHANGED <<at, cpc, scan, controller, controllerMu, closing, old>>
        /\ \A b \in Admins : apc'[b] \in {"drain", "publish"} \/ apc[b] \in {"drain", "publish"}
                              => apc'[b] = apc[b]
    BY <1>4 DEF Build, Leave, Go, calls, gens
  <2>2. open \subseteq open' /\ enabled' \ closing \subseteq open'
    BY <1>4 DEF Build, gens
  <2>3. QED
    BY <2>1, <2>2, ElsewhereWork
<1>5. ASSUME NEW a \in Admins, Replace(a) PROVE Work'
  <2>1. \A b \in Admins : apc[b] \notin {"drain", "publish"}
    BY <1>5 DEF Replace
  <2>2. \A g \in Gens : Busy(g)' <=> Busy(g)
    BY <1>5 DEF Replace, calls, Busy, Running, Scanning
  <2>3. CASE controller # None
    <3>1. /\ UNCHANGED <<at, controller, enabled, open>>
          /\ closing' = closing \cup {controller} /\ old'[a] = controller
          /\ controllerMu' = a /\ apc'[a] = "drain"
          /\ \A b \in Admins : b # a => apc'[b] = apc[b]
      BY <1>5, <2>3 DEF Replace, BeginShutdown, Go, calls
    <3>2. Replaced' /\ Pointers'
      BY <2>1, <3>1
    <3>3. Working'
      BY <2>1, <2>2, <3>1
    <3>4. Stores' /\ PublishedTakesWork'
      BY <3>1
    <3>5. QED
      BY <3>2, <3>3, <3>4
  <2>4. CASE controller = None
    <3>1. \A g \in Gens : ~Busy(g)
      BY <2>1, <2>4
    <3>2. QED
      BY <1>5, <2>1, <2>2, <2>4, <3>1 DEF Replace, Go, calls
  <2>5. QED
    BY <2>3, <2>4
<1>6. ASSUME NEW a \in Admins, Unpublish(a) PROVE Work'
  <2>1. \A b \in Admins : apc[b] \notin {"drain", "publish"}
    BY <1>6 DEF Unpublish
  <2>2. \A g \in Gens : Busy(g)' <=> Busy(g)
    BY <1>6 DEF Unpublish, calls, Busy, Running, Scanning
  <2>3. CASE controller # None
    <3>1. /\ UNCHANGED <<at, controllerMu, enabled, open>>
          /\ closing' = closing \cup {controller} /\ old'[a] = controller
          /\ controller' = None /\ apc'[a] = "drain"
          /\ \A b \in Admins : b # a => apc'[b] = apc[b]
      BY <1>6, <2>3 DEF Unpublish, BeginShutdown, Go, calls
    <3>2. Replaced' /\ Pointers'
      BY <2>1, <3>1
    <3>3. Working'
      BY <2>1, <2>2, <3>1
    <3>4. Stores' /\ PublishedTakesWork'
      BY <3>1
    <3>5. QED
      BY <3>2, <3>3, <3>4
  <2>4. CASE controller = None
    <3>1. /\ UNCHANGED <<at, controller, controllerMu, closing, enabled, open>>
          /\ apc'[a] = "idle" /\ \A b \in Admins : b # a => apc'[b] = apc[b]
      BY <1>6, <2>4 DEF Unpublish, Leave, Go, calls
    <3>2. \A b \in Admins : apc'[b] \notin {"drain", "publish"}
      BY <2>1, <3>1
    <3>3. QED
      BY <2>1, <2>2, <2>4, <3>1, <3>2
  <2>5. QED
    BY <2>3, <2>4
<1>7. ASSUME NEW a \in Admins, Drain(a) PROVE Work'
  <2>1. /\ UNCHANGED <<at, cpc, scan, controller, controllerMu, closing, enabled>>
        /\ open' = open \ {old[a]} /\ old[a] \in closing /\ ~Busy(old[a])
    BY <1>7 DEF Drain, calls, Busy
  <2>2. \A b \in Admins : b # a => apc'[b] = apc[b] /\ apc[b] \notin {"drain", "publish"}
    BY <1>7 DEF Drain, Leave, Go
  <2>3. apc'[a] # "drain" /\ (apc'[a] = "publish" => controller = old[a])
    BY <1>7 DEF Drain, Leave, Go
  <2>4. \A g \in Gens : Busy(g)' <=> Busy(g)
    BY <2>1 DEF Busy, Running, Scanning
  <2>5. \A g \in Gens : Busy(g) => g = controller /\ g # old[a]
    BY <2>1, <2>2
  <2>6. QED
    BY <2>1, <2>2, <2>3, <2>4, <2>5
<1>8. ASSUME NEW a \in Admins, Publish(a) PROVE Work'
  BY <1>8 DEF Publish, Go, calls, gens, store,
     Busy, Running, Scanning
<1>9. ASSUME NEW a \in Admins, StartScans(a) PROVE Work'
  BY <1>9 DEF StartScans, Leave, Go, calls, store,
     Busy, Running, Scanning
<1>10. ASSUME NEW c \in Calls, Arrive(c) PROVE Work'
  BY <1>10 DEF Arrive, admins, gens, store,
     Busy, Running, Scanning
<1>11. ASSUME NEW c \in Calls, ReadPointer(c) PROVE Work'
  BY <1>11 DEF ReadPointer, Return, admins, gens, store,
     Busy, Running, Scanning
<1>12. ASSUME NEW c \in Calls, Begin(c) PROVE Work'
  <2>1. CASE at[c] \in enabled \ closing
    <3>1. at[c] # None
      BY <2>1, NoneNotEnabled
    <3>2. at[c] = controller /\ at[c] \in open
      BY <2>1, <3>1
    <3>3. \A b \in Admins : apc[b] # "publish"
      BY <2>1, <3>1, <3>2
    <3>4. UNCHANGED <<at, scan, controller, controllerMu, closing, enabled, open, apc, old>>
          /\ cpc' = [cpc EXCEPT ![c] = "wants_lock"]
      BY <1>12, <2>1 DEF Begin, admins, gens
    <3>5. \A g \in Gens : Busy(g)' => Busy(g) \/ g = at[c]
      BY <3>4 DEF Busy, Running, Scanning
    <3>6. QED
      BY <3>1, <3>2, <3>3, <3>4, <3>5
  <2>2. CASE at[c] \notin enabled \ closing
    BY <1>12, <2>2, ReturnWork DEF Begin, admins, gens
  <2>3. QED
    BY <2>1, <2>2
<1>13. ASSUME NEW c \in Calls, OpLock(c) PROVE Work'
  <2>1. CASE Return(c)
    BY <1>13, <2>1, ReturnWork DEF OpLock, admins, gens
  <2>2. CASE UNCHANGED at /\ cpc[c] = "wants_lock" /\ cpc' = [cpc EXCEPT ![c] = "works"]
    <3>1. \A g \in Gens : Busy(g)' <=> Busy(g)
      BY <1>13, <2>2 DEF OpLock, admins, gens, Busy, Running, Scanning
    <3>2. QED
      BY <1>13, <2>2, <3>1 DEF OpLock, admins, gens
  <2>3. QED
    BY <1>13, <2>1, <2>2 DEF OpLock
<1>14. ASSUME NEW c \in Calls, OpUpdate(c) PROVE Work'
  BY <1>14 DEF OpUpdate, Update, FreeLock, Return, Fault, admins, gens, store,
     Busy, Running, Scanning
<1>15. ASSUME NEW g \in Gens, Tick(g) PROVE Work'
  BY <1>15 DEF Tick, admins, calls, store,
     Busy, Running, Scanning
<1>16. ASSUME NEW g \in Gens, ScanLock(g) PROVE Work'
  BY <1>16 DEF ScanLock, admins, calls, store,
     Busy, Running, Scanning
<1>17. ASSUME NEW g \in Gens, ScanUpdate(g) PROVE Work'
  BY <1>17 DEF ScanUpdate, Update, FreeLock, Fault, admins, calls, store,
     Busy, Running, Scanning
<1>18. ASSUME NEW g \in Gens, StopScans(g) PROVE Work'
  BY <1>18 DEF StopScans, admins, calls, store,
     Busy, Running, Scanning
<1>19. CASE UNCHANGED vars
  BY <1>19 DEF vars, admins, calls, gens, store,
     Busy, Running, Scanning
<1>20. QED
  BY <1>1, <1>2, <1>3, <1>4, <1>5, <1>6, <1>7, <1>8, <1>9, <1>10,
     <1>11, <1>12, <1>13, <1>14, <1>15, <1>16, <1>17, <1>18, <1>19
     DEF Next, AdminStep, CallStep, ScanStep

-----------------------------------------------------------------------------
(* Who holds the locks.                                                    *)

\* A step of a generation's scans begins with scans that were started.
LEMMA StillUnstarted ==
  ASSUME Types, Unstarted, UNCHANGED <<built, apc, controllerMu>>,
         NEW g \in Gens, scan[g] # "off", NEW stage, scan' = [scan EXCEPT ![g] = stage]
  PROVE  Unstarted'
BY DEF Types, Unstarted

\* Every step keeps the scans of a generation off until it was published.
LEMMA UnstartedStep == Types /\ Order /\ Unstarted /\ [Next]_vars => Unstarted'
<1> SUFFICES ASSUME Types, Order, Unstarted, [Next]_vars PROVE Unstarted'
  OBVIOUS
<1> USE LifecycleAssumption DEF Types, Order, Mutexes, Fresh, Started, Inside, Gens, Unstarted
<1>1. ASSUME NEW a \in Admins, CallConfigure(a) PROVE Unstarted'
  BY <1>1 DEF CallConfigure, Go, gens
<1>2. ASSUME NEW a \in Admins, CallShutdown(a) PROVE Unstarted'
  BY <1>2 DEF CallShutdown, Go, gens
<1>3. ASSUME NEW a \in Admins, TakeLifecycle(a) PROVE Unstarted'
  BY <1>3 DEF TakeLifecycle, Go, gens
<1>4. ASSUME NEW a \in Admins, Build(a) PROVE Unstarted'
  BY <1>4 DEF Build, Leave, Go, gens
<1>5. ASSUME NEW a \in Admins, Replace(a) PROVE Unstarted'
  BY <1>5 DEF Replace, BeginShutdown, Go
<1>6. ASSUME NEW a \in Admins, Unpublish(a) PROVE Unstarted'
  BY <1>6 DEF Unpublish, BeginShutdown, Leave, Go
<1>7. ASSUME NEW a \in Admins, Drain(a) PROVE Unstarted'
  BY <1>7 DEF Drain, Leave, Go
<1>8. ASSUME NEW a \in Admins, Publish(a) PROVE Unstarted'
  BY <1>8 DEF Publish, Go, gens
<1>9. ASSUME NEW a \in Admins, StartScans(a) PROVE Unstarted'
  BY <1>9 DEF StartScans, Leave, Go
<1>10. ASSUME NEW c \in Calls, Arrive(c) \/ CallStep(c) PROVE Unstarted'
  BY <1>10 DEF CallStep, Arrive, ReadPointer, Begin, OpLock, OpUpdate, admins, gens
<1>11. ASSUME NEW g \in Gens, Tick(g) \/ ScanStep(g) PROVE Unstarted'
  <2>1. UNCHANGED <<built, apc, controllerMu>> /\ scan[g] # "off"
    BY <1>11 DEF ScanStep, Tick, ScanLock, ScanUpdate, StopScans, admins
  <2>2. PICK stage : scan' = [scan EXCEPT ![g] = stage]
    BY <1>11 DEF ScanStep, Tick, ScanLock, ScanUpdate, StopScans
  <2>3. QED
    BY <2>1, <2>2, StillUnstarted
<1>12. CASE UNCHANGED vars
  BY <1>12 DEF vars, admins, gens
<1>13. QED
  BY <1>1, <1>2, <1>3, <1>4, <1>5, <1>6, <1>7, <1>8, <1>9, <1>10, <1>11, <1>12
     DEF Next, AdminStep

\* A step that leaves the calls, the scans and the locks alone.
LEMMA LocksAlone ==
  ASSUME LetIn, Holders, UNCHANGED <<calls, scan, holder>> PROVE LetIn' /\ Holders'
BY DEF LetIn, Holders, calls

\* A call that holds no lock returns.
LEMMA ReturnLocks ==
  ASSUME Types, LetIn, Holders, NEW c \in Calls, Return(c), UNCHANGED <<scan, holder>>,
         cpc[c] # "works"
  PROVE  LetIn' /\ Holders'
<1>1. /\ cpc' = [cpc EXCEPT ![c] = "idle"] /\ at' = [at EXCEPT ![c] = None]
      /\ job' = [job EXCEPT ![c] = NoJob]
  BY DEF Return
<1>2. LetIn'
  BY <1>1 DEF LetIn, Types
<1>3. \A d \in Calls : d # c => cpc'[d] = cpc[d] /\ at'[d] = at[d] /\ job'[d] = job[d]
  BY <1>1 DEF Types
<1>4. cpc'[c] = "idle"
  BY <1>1 DEF Types
<1>5. Holders'
  BY <1>3, <1>4 DEF Holders
<1>6. QED
  BY <1>2, <1>5

\* Every step leaves each lock with the worker that took it.
LEMMA LocksStep ==
  Types /\ Unstarted /\ LetIn /\ Holders /\ [Next]_vars => LetIn' /\ Holders'
<1> SUFFICES ASSUME Types, Unstarted, LetIn, Holders, [Next]_vars PROVE LetIn' /\ Holders'
  OBVIOUS
<1>0. /\ None \notin Calls /\ Scan \notin Calls /\ Scan # None
  BY LifecycleAssumption, ScanAssumption
<1>1. ASSUME NEW a \in Admins, CallConfigure(a) PROVE LetIn' /\ Holders'
  BY <1>1, LocksAlone DEF CallConfigure, gens
<1>2. ASSUME NEW a \in Admins, CallShutdown(a) PROVE LetIn' /\ Holders'
  BY <1>2, LocksAlone DEF CallShutdown, gens
<1>3. ASSUME NEW a \in Admins, TakeLifecycle(a) PROVE LetIn' /\ Holders'
  BY <1>3, LocksAlone DEF TakeLifecycle, gens
<1>4. ASSUME NEW a \in Admins, Build(a) PROVE LetIn' /\ Holders'
  BY <1>4, LocksAlone DEF Build, gens
<1>5. ASSUME NEW a \in Admins, Replace(a) PROVE LetIn' /\ Holders'
  BY <1>5, LocksAlone DEF Replace
<1>6. ASSUME NEW a \in Admins, Unpublish(a) PROVE LetIn' /\ Holders'
  BY <1>6, LocksAlone DEF Unpublish
<1>7. ASSUME NEW a \in Admins, Drain(a) PROVE LetIn' /\ Holders'
  BY <1>7, LocksAlone DEF Drain
<1>8. ASSUME NEW a \in Admins, Publish(a) PROVE LetIn' /\ Holders'
  BY <1>8, LocksAlone DEF Publish, gens
<1>9. ASSUME NEW a \in Admins, StartScans(a) PROVE LetIn' /\ Holders'
  <2>1. UNCHANGED <<calls, holder>>
    BY <1>9 DEF StartScans
  <2>2. \A g \in Gens : scan'[g] = "works" <=> scan[g] = "works"
    <3>1. scan[built] = "off"
      BY <1>9 DEF StartScans, Unstarted
    <3>2. CASE scan' = scan
      BY <3>2
    <3>3. CASE scan' = [scan EXCEPT ![built] = "sleeps"]
      BY <3>1, <3>3 DEF Types
    <3>4. QED
      BY <1>9, <3>2, <3>3 DEF StartScans
  <2>3. QED
    BY <2>1, <2>2 DEF LetIn, Holders, calls
<1>10. ASSUME NEW c \in Calls, Arrive(c) PROVE LetIn' /\ Holders'
  <2>1. PICK kind \in Jobs, k \in Keys : job' = [job EXCEPT ![c] = [kind |-> kind, key |-> k]]
    BY <1>10 DEF Arrive
  <2>2. cpc[c] = "idle" /\ cpc' = [cpc EXCEPT ![c] = "arrived"] /\ UNCHANGED <<at, scan, holder>>
    BY <1>10 DEF Arrive, gens
  <2>3. /\ \A d \in Calls : d # c => cpc'[d] = cpc[d] /\ job'[d] = job[d]
        /\ cpc'[c] = "arrived" /\ job'[c] = [kind |-> kind, key |-> k]
    BY <2>1, <2>2 DEF Types
  <2>4. LetIn'
    BY <2>2, <2>3 DEF LetIn
  <2>5. Holders'
    BY <2>2, <2>3 DEF Holders
  <2>6. QED
    BY <2>4, <2>5
<1>11. ASSUME NEW c \in Calls, ReadPointer(c) PROVE LetIn' /\ Holders'
  <2>1. cpc[c] = "arrived" /\ UNCHANGED <<scan, holder>>
    BY <1>11 DEF ReadPointer, gens
  <2>2. CASE Return(c)
    BY <2>1, <2>2, ReturnLocks
  <2>3. CASE cpc' = [cpc EXCEPT ![c] = "has_pointer"] /\ at' = [at EXCEPT ![c] = controller]
             /\ UNCHANGED job
    <3>1. /\ \A d \in Calls : d # c => cpc'[d] = cpc[d] /\ at'[d] = at[d]
          /\ cpc'[c] = "has_pointer"
      BY <2>3 DEF Types
    <3>2. LetIn' /\ Holders'
      BY <2>1, <2>3, <3>1 DEF LetIn, Holders
    <3>3. QED
      BY <3>2
  <2>4. QED
    BY <1>11, <2>2, <2>3 DEF ReadPointer
<1>12. ASSUME NEW c \in Calls, Begin(c) PROVE LetIn' /\ Holders'
  <2>1. cpc[c] = "has_pointer" /\ UNCHANGED <<scan, holder>>
    BY <1>12 DEF Begin, gens
  <2>2. CASE Return(c)
    BY <2>1, <2>2, ReturnLocks
  <2>3. CASE at[c] \in enabled /\ cpc' = [cpc EXCEPT ![c] = "wants_lock"] /\ UNCHANGED <<at, job>>
    <3>1. /\ \A d \in Calls : d # c => cpc'[d] = cpc[d]
          /\ cpc'[c] = "wants_lock"
      BY <2>3 DEF Types
    <3>2. at[c] \in Gens
      <4>1. enabled \subseteq 1..built /\ built \in 0..MaxGens /\ MaxGens \in Nat
        BY LifecycleAssumption DEF Types
      <4>2. 1..built \subseteq Gens
        BY <4>1 DEF Gens
      <4>3. QED
        BY <2>3, <4>1, <4>2
    <3>3. LetIn' /\ Holders'
      BY <2>1, <2>3, <3>1, <3>2 DEF LetIn, Holders
    <3>4. QED
      BY <3>3
  <2>4. QED
    BY <1>12, <2>2, <2>3 DEF Begin
<1>13. ASSUME NEW c \in Calls, OpLock(c) PROVE LetIn' /\ Holders'
  <2>1. cpc[c] = "wants_lock" /\ UNCHANGED scan
    BY <1>13 DEF OpLock, gens
  <2>2. CASE Return(c) /\ UNCHANGED holder
    BY <2>1, <2>2, ReturnLocks
  <2>3. CASE /\ holder[at[c]][job[c].key] = None
             /\ holder' = [holder EXCEPT ![at[c]][job[c].key] = c]
             /\ cpc' = [cpc EXCEPT ![c] = "works"]
             /\ UNCHANGED <<at, job>>
    <3>1. at[c] \in Gens /\ job[c].key \in Keys /\ job[c] \in [kind : Jobs, key : Keys]
      BY <2>1 DEF LetIn
    <3>2. \A h \in Gens, l \in Keys :
            holder'[h][l] = IF h = at[c] /\ l = job[c].key THEN c ELSE holder[h][l]
      BY <2>3, <3>1 DEF Types
    <3>3. /\ \A d \in Calls : d # c => cpc'[d] = cpc[d]
          /\ cpc'[c] = "works"
      BY <2>3 DEF Types
    <3>4. LetIn'
      BY <2>3, <3>1, <3>3 DEF LetIn
    <3>5. ASSUME NEW g \in Gens, NEW d \in Calls, NEW k \in Keys
          PROVE  holder'[g][k] = d <=> at'[d] = g /\ job'[d].key = k /\ cpc'[d] = "works"
      BY <1>0, <2>1, <2>3, <3>1, <3>2, <3>3 DEF Holders
    <3>6. \A g \in Gens, k \in Keys : holder'[g][k] = Scan <=> holder[g][k] = Scan
      BY <1>0, <2>3, <3>2
    <3>7. Holders'
      BY <2>1, <3>5, <3>6 DEF Holders
    <3>8. QED
      BY <3>4, <3>7
  <2>4. QED
    BY <1>13, <2>2, <2>3 DEF OpLock
<1>14. ASSUME NEW c \in Calls, OpUpdate(c) PROVE LetIn' /\ Holders'
  <2>1. /\ cpc[c] = "works" /\ UNCHANGED scan /\ Return(c)
        /\ holder' = [holder EXCEPT ![at[c]][job[c].key] = None]
    BY <1>14 DEF OpUpdate, FreeLock, gens
  <2>2. at[c] \in Gens /\ job[c].key \in Keys
    BY <2>1 DEF LetIn
  <2>3. \A h \in Gens, l \in Keys :
          holder'[h][l] = IF h = at[c] /\ l = job[c].key THEN None ELSE holder[h][l]
    BY <2>1, <2>2 DEF Types
  <2>4. /\ \A d \in Calls : d # c => cpc'[d] = cpc[d] /\ at'[d] = at[d] /\ job'[d] = job[d]
        /\ cpc'[c] = "idle"
    BY <2>1 DEF Return, Types
  <2>5. LetIn'
    BY <2>4 DEF LetIn
  <2>6. holder[at[c]][job[c].key] = c
    BY <2>1, <2>2 DEF Holders
  <2>7. ASSUME NEW g \in Gens, NEW d \in Calls, NEW k \in Keys
        PROVE  holder'[g][k] = d <=> at'[d] = g /\ job'[d].key = k /\ cpc'[d] = "works"
    <3>1. holder[g][k] = d <=> at[d] = g /\ job[d].key = k /\ cpc[d] = "works"
      BY DEF Holders
    <3>2. CASE d = c
      BY <1>0, <2>1, <2>3, <2>4, <3>1, <3>2
    <3>3. CASE d # c
      BY <1>0, <2>3, <2>4, <2>6, <3>1, <3>3
    <3>4. QED
      BY <3>2, <3>3
  <2>8. \A g \in Gens, k \in Keys : holder'[g][k] = Scan <=> holder[g][k] = Scan
    BY <1>0, <2>3, <2>6
  <2>9. Holders'
    BY <2>1, <2>7, <2>8 DEF Holders
  <2>10. QED
    BY <2>5, <2>9
<1>15. ASSUME NEW g \in Gens, Tick(g) PROVE LetIn' /\ Holders'
  <2>1. UNCHANGED <<calls, holder>> /\ scan[g] = "sleeps" /\ scan' = [scan EXCEPT ![g] = "wants_lock"]
    BY <1>15 DEF Tick
  <2>2. \A h \in Gens : scan'[h] = "works" <=> scan[h] = "works"
    BY <2>1 DEF Types
  <2>3. QED
    BY <2>1, <2>2 DEF LetIn, Holders, calls
<1>16. ASSUME NEW g \in Gens, ScanLock(g) PROVE LetIn' /\ Holders'
  <2>1. UNCHANGED calls /\ scan[g] = "wants_lock"
    BY <1>16 DEF ScanLock
  <2>2. LetIn'
    BY <2>1 DEF LetIn, calls
  <2>3. CASE UNCHANGED holder /\ scan' = [scan EXCEPT ![g] = "sleeps"]
    <3>1. \A h \in Gens : scan'[h] = "works" <=> scan[h] = "works"
      BY <2>1, <2>3 DEF Types
    <3>2. QED
      BY <2>1, <2>2, <2>3, <3>1 DEF Holders, calls
  <2>4. CASE \E k \in mem[g] : /\ holder[g][k] = None /\ holder' = [holder EXCEPT ![g][k] = Scan]
                               /\ scan' = [scan EXCEPT ![g] = "works"]
    <3>1. PICK k \in mem[g] : /\ holder[g][k] = None /\ holder' = [holder EXCEPT ![g][k] = Scan]
                              /\ scan' = [scan EXCEPT ![g] = "works"]
      BY <2>4
    <3>2. k \in Keys
      BY DEF Types
    <3>3. \A h \in Gens, l \in Keys :
            holder'[h][l] = IF h = g /\ l = k THEN Scan ELSE holder[h][l]
      BY <3>1, <3>2 DEF Types
    <3>4. \A h \in Gens : h # g => scan'[h] = scan[h]
      BY <3>1 DEF Types
    <3>5. scan'[g] = "works"
      BY <3>1 DEF Types
    <3>6. \A l \in Keys : holder[g][l] # Scan
      BY <2>1 DEF Holders
    <3>7. ASSUME NEW h \in Gens, NEW d \in Calls, NEW l \in Keys
          PROVE  holder'[h][l] = d <=> at'[d] = h /\ job'[d].key = l /\ cpc'[d] = "works"
      BY <1>0, <2>1, <3>1, <3>3 DEF Holders, calls
    <3>8. ASSUME NEW h \in Gens
          PROVE  /\ scan'[h] = "works" <=> \E l \in Keys : holder'[h][l] = Scan
                 /\ \A l, m \in Keys : holder'[h][l] = Scan /\ holder'[h][m] = Scan => l = m
      <4>1. CASE h = g
        BY <3>2, <3>3, <3>5, <3>6, <4>1
      <4>2. CASE h # g
        BY <3>3, <3>4, <4>2 DEF Holders
      <4>3. QED
        BY <4>1, <4>2
    <3>9. Holders'
      BY <3>7, <3>8 DEF Holders
    <3>10. QED
      BY <2>2, <3>9
  <2>5. QED
    BY <1>16, <2>3, <2>4 DEF ScanLock
<1>17. ASSUME NEW g \in Gens, ScanUpdate(g) PROVE LetIn' /\ Holders'
  <2>1. /\ UNCHANGED calls /\ scan[g] = "works" /\ scan' = [scan EXCEPT ![g] = "sleeps"]
    BY <1>17 DEF ScanUpdate
  <2>2. PICK k \in Keys : holder[g][k] = Scan /\ holder' = [holder EXCEPT ![g][k] = None]
    BY <1>17 DEF ScanUpdate, FreeLock
  <2>3. LetIn'
    BY <2>1 DEF LetIn, calls
  <2>4. \A h \in Gens, l \in Keys :
          holder'[h][l] = IF h = g /\ l = k THEN None ELSE holder[h][l]
    BY <2>2 DEF Types
  <2>5. (\A h \in Gens : h # g => scan'[h] = scan[h]) /\ scan'[g] = "sleeps"
    BY <2>1 DEF Types
  <2>6. \A l \in Keys : l # k => holder[g][l] # Scan
    BY <2>2 DEF Holders
  <2>7. ASSUME NEW h \in Gens, NEW d \in Calls, NEW l \in Keys
        PROVE  holder'[h][l] = d <=> at'[d] = h /\ job'[d].key = l /\ cpc'[d] = "works"
    BY <1>0, <2>1, <2>2, <2>4 DEF Holders, calls
  <2>8. ASSUME NEW h \in Gens
        PROVE  /\ scan'[h] = "works" <=> \E l \in Keys : holder'[h][l] = Scan
               /\ \A l, m \in Keys : holder'[h][l] = Scan /\ holder'[h][m] = Scan => l = m
    <3>1. CASE h = g
      BY <1>0, <2>4, <2>5, <2>6, <3>1
    <3>2. CASE h # g
      BY <2>4, <2>5, <3>2 DEF Holders
    <3>3. QED
      BY <3>1, <3>2
  <2>9. Holders'
    BY <2>7, <2>8 DEF Holders
  <2>10. QED
    BY <2>3, <2>9
<1>18. ASSUME NEW g \in Gens, StopScans(g) PROVE LetIn' /\ Holders'
  <2>1. UNCHANGED <<calls, holder>> /\ scan[g] = "sleeps" /\ scan' = [scan EXCEPT ![g] = "stopped"]
    BY <1>18 DEF StopScans
  <2>2. \A h \in Gens : scan'[h] = "works" <=> scan[h] = "works"
    BY <2>1 DEF Types
  <2>3. QED
    BY <2>1, <2>2 DEF LetIn, Holders, calls
<1>19. CASE UNCHANGED vars
  BY <1>19, LocksAlone DEF vars, gens
<1>20. QED
  BY <1>1, <1>2, <1>3, <1>4, <1>5, <1>6, <1>7, <1>8, <1>9, <1>10,
     <1>11, <1>12, <1>13, <1>14, <1>15, <1>16, <1>17, <1>18, <1>19
     DEF Next, AdminStep, CallStep, ScanStep

Inv == Types /\ Order /\ Work /\ Unstarted /\ LetIn /\ Holders

\* The invariant holds at the start and through every step.
LEMMA InvCorrect == Spec => []Inv
<1>1. Init => Inv
  <2>1. Init => Types
    <3> SUFFICES ASSUME Init PROVE Types
      OBVIOUS
    <3>1. 0 \in 0..MaxGens /\ 0 \in 0..MaxFaults
      BY LifecycleAssumption
    <3>2. QED
      BY <3>1, LifecycleAssumption DEF Init, Types, CallStages, ScanStages
  <2>2. Init => Order
    BY LifecycleAssumption DEF Init, Order, Mutexes, Draining, Fresh, Started, Inside
  <2>3. Init => Work
    BY LifecycleAssumption DEF Init, Work, Replaced, Pointers, Working, Stores, PublishedTakesWork,
       Busy, Running, Scanning
  <2>4. Init => Unstarted
    BY LifecycleAssumption DEF Init, Unstarted
  <2>5. Init => LetIn /\ Holders
    BY LifecycleAssumption, ScanAssumption DEF Init, LetIn, Holders
  <2>6. QED
    BY <2>1, <2>2, <2>3, <2>4, <2>5 DEF Inv
<1>2. Inv /\ [Next]_vars => Inv'
  BY TypeStep, OrderStep, WorkStep, UnstartedStep, LocksStep DEF Inv
<1>3. QED
  BY <1>1, <1>2, PTL DEF Spec

\* Every variable keeps its type, and a lock of a credential is held exactly by
\* the worker of its generation that works on that credential, for any admins,
\* calls and credentials.
THEOREM TypeCorrect == Spec => []TypeOK
BY InvCorrect, PTL DEF Inv, TypeOK

\* Through any sequence of configurations and shutdowns, one generation at most
\* runs operations or scans.
THEOREM OneWorks == Spec => []OneGenerationWorks
<1>1. Inv => OneGenerationWorks
  <2> SUFFICES ASSUME Inv, NEW g \in Gens, NEW h \in Gens, g # h, Busy(g)
               PROVE  ~Busy(h)
    BY DEF OneGenerationWorks, Busy
  <2>1. \A k \in Gens : Busy(k) =>
          k = controller \/ \E a \in Admins : apc[a] = "drain" /\ old[a] = k
    BY DEF Inv, Work, Working
  <2>2. \A a, b \in Admins : apc[a] = "drain" /\ apc[b] = "drain" => a = b
    BY DEF Inv, Order, Mutexes, Inside
  <2>3. \A a \in Admins : apc[a] = "drain" => controller \in {old[a], None}
    BY DEF Inv, Order, Draining
  <2>4. None \notin Gens
    BY LifecycleAssumption DEF Gens
  <2>5. QED
    BY <2>1, <2>2, <2>3, <2>4
<1>2. QED
  BY <1>1, InvCorrect, PTL

\* No operation and no scan finds the store of its generation closed.
THEOREM StoresStayOpen == Spec => []WorkersHaveStores
<1>1. Inv => WorkersHaveStores
  BY DEF Inv, Work, Working, Busy, WorkersHaveStores
<1>2. QED
  BY <1>1, InvCorrect, PTL

\* Whoever reads the pointer finds no generation that is shutting down.
THEOREM PointerTakesWork == Spec => []PublishedTakesWork
BY InvCorrect, PTL DEF Inv, Work

-----------------------------------------------------------------------------
(* Updates survive a reconfiguration.  The generation that works, and the  *)
(* one about to be published, have in memory what is on disk: a            *)
(* configuration finds no generation published, so that none works between *)
(* the construction of the next, which loads state.json, and its           *)
(* publication.                                                            *)

\* One admin configures at a time; no generation is published until it has
\* published its own, and so it never drains one with the pointer's mutex.
Quiesced ==
  /\ \A a, b \in Admins : Configuring(a) /\ Configuring(b) => a = b
  /\ \A a \in Admins : apc[a] \in {"configure", "build", "replace", "publish"} =>
       controller = None
  /\ \A a \in Admins : controllerMu = a => apc[a] = "publish"

\* The generation that the pointer shows or that an admin drains.
Current(g) == g = controller \/ \E a \in Admins : apc[a] = "drain" /\ old[a] = g

\* The generation that is built and not yet published.
Coming(g) == g = built /\ \E a \in Admins : apc[a] \in {"replace", "publish"}

\* A generation that may come to write has what is on disk.
Loaded == \A g \in open : Current(g) \/ Coming(g) => mem[g] = disk

\* While an admin builds or publishes, nobody works.
LEMMA NobodyWorks ==
  ASSUME Types, Order, Work, Quiesced,
         NEW a \in Admins, apc[a] \in {"build", "replace", "publish"}
  PROVE  \A g \in Gens : ~Current(g) /\ ~Busy(g)
<1>1. controller = None /\ \A b \in Admins : apc[b] # "drain"
  BY DEF Quiesced, Order, Mutexes, Inside
<1>2. None \notin Gens
  BY LifecycleAssumption DEF Gens
<1>3. QED
  BY <1>1, <1>2 DEF Current, Work, Working

\* Who works is the current generation, on a store that is open, and it is the
\* only generation that may write.
LEMMA WorkerIsCurrent ==
  ASSUME Types, Order, Work, Quiesced, NEW g \in Gens, Busy(g)
  PROVE  g \in open /\ Current(g) /\ \A h \in Gens : Current(h) \/ Coming(h) => h = g
<1>1. g \in open /\ Current(g)
  BY DEF Work, Working, Current
<1>2. \A h \in Gens : ~Coming(h)
  BY NobodyWorks DEF Coming
<1>3. \A h \in Gens : Current(h) => h = g
  <2>1. None \notin Gens
    BY LifecycleAssumption DEF Gens
  <2>2. \A a, b \in Admins : apc[a] = "drain" /\ apc[b] = "drain" => a = b
    BY DEF Order, Mutexes, Inside
  <2>3. \A a \in Admins : apc[a] = "drain" => controller = None
    BY DEF Order, Draining, Quiesced
  <2>4. QED
    BY <1>1, <2>1, <2>2, <2>3 DEF Current
<1>4. QED
  BY <1>1, <1>2, <1>3

\* Every step keeps the configurations apart, if the host quiesces first.
LEMMA QuiescedStep ==
  ASSUME QuiesceFirst, Types, Order, Work, Quiesced, [Next]_vars
  PROVE  Quiesced'
<1> USE LifecycleAssumption
    DEF Types, Quiesced, Configuring, Order, Mutexes, Draining, Inside
<1>1. ASSUME NEW a \in Admins, CallConfigure(a) PROVE Quiesced'
  BY <1>1 DEF CallConfigure, Go
<1>2. ASSUME NEW a \in Admins, CallShutdown(a) PROVE Quiesced'
  BY <1>2 DEF CallShutdown, Go
<1>3. ASSUME NEW a \in Admins, TakeLifecycle(a) PROVE Quiesced'
  BY <1>3 DEF TakeLifecycle, Go
<1>4. ASSUME NEW a \in Admins, Build(a) PROVE Quiesced'
  BY <1>4 DEF Build, Leave, Go
<1>5. ASSUME NEW a \in Admins, Replace(a) PROVE Quiesced'
  BY <1>5 DEF Replace, BeginShutdown, Go
<1>6. ASSUME NEW a \in Admins, Unpublish(a) PROVE Quiesced'
  BY <1>6 DEF Unpublish, BeginShutdown, Leave, Go
<1>7. ASSUME NEW a \in Admins, Drain(a) PROVE Quiesced'
  BY <1>7 DEF Drain, Leave, Go
<1>8. ASSUME NEW a \in Admins, Publish(a) PROVE Quiesced'
  BY <1>8 DEF Publish, Go
<1>9. ASSUME NEW a \in Admins, StartScans(a) PROVE Quiesced'
  BY <1>9 DEF StartScans, Leave, Go
<1>10. ASSUME UNCHANGED admins PROVE Quiesced'
  BY <1>10 DEF admins
<1>11. ASSUME NEW c \in Calls, Arrive(c) \/ CallStep(c) PROVE UNCHANGED admins
  BY <1>11 DEF CallStep, Arrive, ReadPointer, Begin, OpLock, OpUpdate, admins
<1>12. ASSUME NEW g \in Gens, Tick(g) \/ ScanStep(g) PROVE UNCHANGED admins
  BY <1>12 DEF ScanStep, Tick, ScanLock, ScanUpdate, StopScans, admins
<1>13. QED
  BY <1>1, <1>2, <1>3, <1>4, <1>5, <1>6, <1>7, <1>8, <1>9, <1>10, <1>11, <1>12
     DEF Next, AdminStep, vars, admins

\* The generation that writes knows what is on disk, and that is what was reported.
Intact == Loaded /\ UpdatesSurvive

\* A step that writes nothing and makes no generation current or coming.
LEMMA StillIntact ==
  ASSUME Intact, UNCHANGED <<mem, disk, acked>>,
         \A g \in open' : (Current(g) \/ Coming(g))' => g \in open /\ (Current(g) \/ Coming(g))
  PROVE  Intact'
BY DEF Intact, Loaded, UpdatesSurvive

\* The same, for the steps of calls and scans.
LEMMA OutsideIntact ==
  ASSUME Intact, UNCHANGED <<admins, built, open, store>>
  PROVE  Intact'
BY StillIntact DEF Current, Coming, admins, store

\* An update by the generation that works puts the same in its memory and on
\* disk as the updates that were reported amount to.
LEMMA UpdateIntact ==
  ASSUME Types, Order, Work, Quiesced, Intact, NEW g \in Gens, Busy(g),
         NEW now, NEW done, mem[g] = acked => now = done, Update(g, now, done),
         UNCHANGED <<admins, built, open>>
  PROVE  Intact'
<1>1. g \in open /\ Current(g) /\ \A h \in Gens : Current(h) \/ Coming(h) => h = g
  BY WorkerIsCurrent
<1>2. mem[g] = disk /\ disk = acked
  BY <1>1 DEF Intact, Loaded, UpdatesSurvive
<1>3. CASE UNCHANGED store
  BY <1>3, OutsideIntact
<1>4. CASE mem' = [mem EXCEPT ![g] = now] /\ disk' = now /\ acked' = done
  <2>1. mem'[g] = now /\ now = done
    BY <1>2, <1>4 DEF Types
  <2>2. \A h \in open' : (Current(h) \/ Coming(h))' => h = g
    BY <1>1, OpenInGens DEF Current, Coming, admins
  <2>3. QED
    BY <1>4, <2>1, <2>2 DEF Intact, Loaded, UpdatesSurvive
<1>5. QED
  BY <1>1, <1>3, <1>4 DEF Update

\* Every step keeps the updates that were reported.
LEMMA IntactStep ==
  ASSUME QuiesceFirst, Types, Order, Work, Quiesced, Intact, [Next]_vars
  PROVE  Intact'
<1> USE LifecycleAssumption
<1>1. ASSUME NEW a \in Admins, CallConfigure(a) PROVE Intact'
  BY <1>1, StillIntact DEF CallConfigure, Go, gens, store, Current, Coming, Types
<1>2. ASSUME NEW a \in Admins, CallShutdown(a) PROVE Intact'
  BY <1>2, StillIntact DEF CallShutdown, Go, gens, store, Current, Coming, Types
<1>3. ASSUME NEW a \in Admins, TakeLifecycle(a) PROVE Intact'
  BY <1>3, StillIntact DEF TakeLifecycle, Go, gens, store, Current, Coming, Types
<1>4. ASSUME NEW a \in Admins, Build(a) PROVE Intact'
  <2>1. CASE UNCHANGED gens
    BY <1>4, <2>1, StillIntact DEF Build, Leave, Go, gens, store, Current, Coming, Types
  <2>2. CASE built' = built + 1
    <3>1. UNCHANGED <<disk, acked, controller, old>> /\ apc' = [apc EXCEPT ![a] = "replace"]
      BY <1>4, <2>2 DEF Build, Go, gens, Types
    <3>2. PICK on \in BOOLEAN :
            /\ enabled' = IF on THEN enabled \cup {built + 1} ELSE enabled
            /\ open' = IF on THEN open \cup {built + 1} ELSE open
            /\ mem' = IF on THEN [mem EXCEPT ![built + 1] = disk] ELSE mem
      BY <1>4, <2>2 DEF Build, gens, Types
    <3>3. \A g \in Gens : ~Current(g)
      BY <1>4, NobodyWorks DEF Build
    <3>4. \A g \in open : g \in 1..built
      BY DEF Types
    <3>5. \A g : Current(g)' => Current(g)
      BY <3>1 DEF Current, Types
    <3>6. built + 1 \in Gens
      BY <1>4, <2>2 DEF Build, gens, Gens, Types
    <3>7. \A g \in open' : (Current(g) \/ Coming(g))' => g = built + 1 /\ on
      BY <2>2, <3>2, <3>3, <3>4, <3>5, <3>6, OpenInGens DEF Coming, Types
    <3>8. on => mem'[built + 1] = disk
      BY <3>2, <3>6 DEF Types
    <3>9. QED
      BY <3>1, <3>7, <3>8 DEF Intact, Loaded, UpdatesSurvive
  <2>3. QED
    BY <1>4, <2>1, <2>2 DEF Build
<1>5. ASSUME NEW a \in Admins, Replace(a) PROVE Intact'
  <2>1. controller = None
    BY <1>5 DEF Replace, Quiesced
  <2>2. QED
    BY <1>5, <2>1, StillIntact DEF Replace, Go, store, Current, Coming, Types
<1>6. ASSUME NEW a \in Admins, Unpublish(a) PROVE Intact'
  BY <1>6, StillIntact DEF Unpublish, BeginShutdown, Leave, Go, store, Current, Coming, Types
<1>7. ASSUME NEW a \in Admins, Drain(a) PROVE Intact'
  <2>1. controllerMu # a
    BY <1>7 DEF Drain, Quiesced
  <2>2. QED
    BY <1>7, <2>1, StillIntact DEF Drain, Leave, Go, store, Current, Coming, Types
<1>8. ASSUME NEW a \in Admins, Publish(a) PROVE Intact'
  BY <1>8, StillIntact DEF Publish, Go, gens, store, Current, Coming, Types
<1>9. ASSUME NEW a \in Admins, StartScans(a) PROVE Intact'
  BY <1>9, StillIntact DEF StartScans, Leave, Go, store, Current, Coming, Types
<1>10. ASSUME NEW c \in Calls, Arrive(c) \/ ReadPointer(c) \/ Begin(c) \/ OpLock(c)
       PROVE  Intact'
  BY <1>10, OutsideIntact DEF Arrive, ReadPointer, Begin, OpLock, gens
<1>11. ASSUME NEW c \in Calls, OpUpdate(c) PROVE Intact'
  <2>1. UNCHANGED <<admins, built, open>>
    BY <1>11 DEF OpUpdate, gens
  <2>2. PICK now, done : (mem[at[c]] = acked => now = done) /\ Update(at[c], now, done)
    BY <1>11 DEF OpUpdate
  <2>3. CASE at[c] # None
    <3>1. at[c] \in Gens
      BY <2>3 DEF Types, Gens
    <3>2. Busy(at[c])
      BY <1>11 DEF OpUpdate, Busy, Running
    <3>3. QED
      BY <2>1, <2>2, <3>1, <3>2, UpdateIntact
  <2>4. CASE at[c] = None
    <3>1. at[c] \notin open
      BY <2>4, OpenInGens DEF Gens
    <3>2. QED
      BY <2>1, <2>2, <3>1, OutsideIntact DEF Update
  <2>5. QED
    BY <2>3, <2>4
<1>12. ASSUME NEW g \in Gens, Tick(g) \/ ScanLock(g) \/ StopScans(g) PROVE Intact'
  BY <1>12, OutsideIntact DEF Tick, ScanLock, StopScans
<1>13. ASSUME NEW g \in Gens, ScanUpdate(g) PROVE Intact'
  <2>1. Busy(g)
    BY <1>13 DEF ScanUpdate, Busy, Scanning
  <2>2. UNCHANGED <<admins, built, open>>
    BY <1>13 DEF ScanUpdate
  <2>3. PICK now, done : (mem[g] = acked => now = done) /\ Update(g, now, done)
    BY <1>13 DEF ScanUpdate
  <2>4. QED
    BY <2>1, <2>2, <2>3, UpdateIntact
<1>14. CASE UNCHANGED vars
  BY <1>14, OutsideIntact DEF vars, gens
<1>15. QED
  BY <1>1, <1>2, <1>3, <1>4, <1>5, <1>6, <1>7, <1>8, <1>9, <1>10, <1>11, <1>12,
     <1>13, <1>14
     DEF Next, AdminStep, CallStep, ScanStep

\* While the host configures the plugin only when it has quiesced it, what any
\* store reported as written stays in state.json through every reconfiguration
\* and shutdown, until an update of that record changes it.
THEOREM UpdatesKept ==
  ASSUME QuiesceFirst
  PROVE  Spec => []UpdatesSurvive
<1>1. Init => Quiesced /\ Intact
  BY LifecycleAssumption
     DEF Init, Quiesced, Configuring, Intact, Loaded, UpdatesSurvive
<1>2. QuiesceFirst
  OBVIOUS
<1>3. Inv /\ Quiesced /\ Intact /\ [Next]_vars => (Quiesced /\ Intact)'
  BY <1>2, QuiescedStep, IntactStep DEF Inv
<1>4. Intact => UpdatesSurvive
  BY DEF Intact
<1>5. QED
  BY <1>1, <1>3, <1>4, InvCorrect, PTL DEF Spec

=============================================================================
