------------------------------ MODULE ProxyPlans ------------------------------
(***************************************************************************)
(* Proxy changes in two requests: a preview that makes a plan out of what  *)
(* the credentials and the catalog of profiles are at that moment, and an  *)
(* apply that takes the plan and carries it out, credential by credential. *)
(* A plan may also be for a fallback: "activate" moves credentials of a    *)
(* profile whose proxy fails to what the profile names as its fallback,    *)
(* "restore" moves them back, and the catalog remembers which are away.    *)
(*                                                                         *)
(* Requests of several admins run side by side, with the plugin's other    *)
(* writer of credentials (which disables and enables them) and with edits  *)
(* by hand.  The plugin's writers hold the credential's lock from reading  *)
(* to writing; the host compares nothing.                                  *)
(***************************************************************************)
EXTENDS Profiles

CONSTANTS
  Admins,
  Catalogs, Uses,   \* the catalogs loaded at the start (no fallback is active yet), the credentials' proxies
  Lifetime,    \* how long a plan lives
  MaxPlans,    \* bound of the code: the plans kept
  Faults,      \* what may go wrong
  MaxTime, MaxPreviews, MaxWork   \* bounds: clock, plans, and other work together

Writer == "writer"     \* holds locks beside the admins

\* What the model keeps of a credential's document.
Doc == [url : Urls \cup {None}, disabled : BOOLEAN, rev : Nat]

FaultKinds == {"item", "reply", "catalog", "crash", "unreadable"}

ASSUME ProxyPlansAssumption ==
  /\ None \notin Admins \cup [cred : Creds, read : Doc] /\ Writer \notin Admins \cup {None}
  /\ Catalogs \subseteq UNION {[names -> Profile] : names \in SUBSET Names}
  /\ \A start \in Catalogs :
       /\ IsFiniteSet(DOMAIN start) /\ Loadable(start)
       /\ \A p \in DOMAIN start : start[p].active = {}
  /\ Uses \subseteq [Creds -> Urls \cup {None}]
  /\ Lifetime \in Nat \ {0} /\ MaxPlans \in Nat \ {0}
  /\ Faults \subseteq FaultKinds
  /\ MaxTime \in Nat /\ MaxPreviews \in Nat /\ MaxWork \in Nat

VARIABLES
  cred,      \* the credentials' documents: proxy URL, disabled, revision
  lock,      \* per credential: who holds its lock
  writer,    \* the other writer: the credential it has read, and what it read
  now,
  plans,     \* a function from the ids of the plans kept to the plans
  pc, loc,   \* per admin: the request it waits for, and that request's data
  previews, work,   \* counts for the bounds
  byHand,    \* history: per credential, the revisions made by hand
  moved      \* history: the credentials moved away, and the profile and URL they left

catalogVars == <<catalog, had>>
hostVars    == <<cred, lock, writer, byHand, moved>>
planVars    == <<plans, previews>>
adminVars   == <<pc, loc>>
vars == <<catalogVars, hostVars, now, planVars, adminVars, work>>

More   == work < MaxWork
Worked == More /\ work' = work + 1
Fails(what) == what \in Faults /\ Worked

\* What a request is about: credentials, the profile they move to (None clears the
\* proxy), and the fallback it is part of, if any.
Fallbacks == [action : {"activate", "restore"}, profile : Names]
Asked == [creds : SUBSET Creds \ {{}}, target : Names \cup {None}, fallback : Fallbacks \cup {None}]

Item == [url : Urls \cup {None}, rev : Nat]

-----------------------------------------------------------------------------
(* Preview.                                                                *)

Idle(a) == pc' = [pc EXCEPT ![a] = "idle"] /\ loc' = [loc EXCEPT ![a] = None]

\* validateFallbackRequest.
ValidFallback(asked) ==
  \/ asked.fallback = None
  \/ /\ asked.fallback # None
     /\ asked.fallback.profile \in DOMAIN catalog
     /\ LET profile == catalog[asked.fallback.profile]
        IN  IF asked.fallback.action = "activate" THEN profile.mode # "none"
            ELSE profile.active # {} /\ asked.creds \subseteq profile.active

Preview(a, asked) ==
  /\ pc[a] = "idle"
  /\ previews < MaxPreviews
  /\ ValidFallback(asked)
  /\ previews' = previews + 1
  /\ pc' = [pc EXCEPT ![a] = "inspect"]
  /\ loc' = [loc EXCEPT ![a] = [id |-> previews + 1, asked |-> asked,
                                left |-> asked.creds, items |-> Empty]]
  /\ UNCHANGED <<catalogVars, hostVars, now, plans, work>>

\* One credential is read.  One that cannot be read stays out of the plan.
Read(a, c) ==
  /\ pc[a] = "inspect"
  /\ c \in loc[a].left
  /\ LET l == [loc[a] EXCEPT !.left = @ \ {c}]
     IN  \/ /\ pc' = [pc EXCEPT ![a] = "resolve"]
            /\ loc' = [loc EXCEPT ![a] = [l |-> l, cred |-> c, read |-> cred[c]]]
            /\ UNCHANGED work
         \/ /\ Fails("item")
            /\ loc' = [loc EXCEPT ![a] = l]
            /\ UNCHANGED pc
  /\ UNCHANGED <<catalogVars, hostVars, now, planVars>>

\* Then the catalog is, whatever either has become since: to which profile its URL
\* belongs, and what is the URL of the profile it moves to.  One whose target is gone
\* stays out of the plan.  (Only a fallback asks where a credential comes from.)
Inspect(a) ==
  /\ pc[a] = "resolve"
  /\ LET l == loc[a].l
         target == l.asked.target
         read == loc[a].read
         from == IF l.asked.fallback = None THEN {None} ELSE Matches(read.url)
     IN  \/ /\ target \in DOMAIN catalog \cup {None}
            /\ \E p \in from :
                 loc' = [loc EXCEPT ![a] =
                   [l EXCEPT !.items = Extended(@, loc[a].cred,
                      [from |-> p, url |-> IF target = None THEN None ELSE catalog[target].url,
                       rev |-> read.rev])]]
         \/ /\ target \notin DOMAIN catalog \cup {None}
            /\ loc' = [loc EXCEPT ![a] = l]
  /\ pc' = [pc EXCEPT ![a] = "inspect"]
  /\ UNCHANGED <<catalogVars, hostVars, now, planVars, work>>

\* Mutant: the profile a credential comes from is not looked at.
FitsFallbackAnyone(asked, items) ==
  LET p == asked.fallback.profile
      profile == catalog[p]
  IN  /\ p \in DOMAIN catalog
      /\ DOMAIN items = asked.creds
      /\ IF asked.fallback.action = "activate"
         THEN /\ profile.mode = "direct" => asked.target = None
              /\ profile.mode = "profile" => asked.target # None /\ asked.target = profile.backup
         ELSE asked.target = p

\* Every credential must be there, come from the profile and go to its fallback, or the
\* other way round.  An URL of no profile counts as no proxy.
FitsFallback(asked, items) ==
  LET p == asked.fallback.profile
      profile == catalog[p]
      backup == IF profile.mode = "profile" THEN profile.backup ELSE None
  IN  /\ p \in DOMAIN catalog
      /\ DOMAIN items = asked.creds
      /\ IF asked.fallback.action = "activate"
         THEN /\ \A c \in asked.creds : items[c].from = p
              /\ profile.mode = "direct" => asked.target = None
              /\ profile.mode = "profile" => asked.target # None /\ asked.target = backup
         ELSE /\ asked.target = p
              /\ \A c \in asked.creds : items[c].from = backup

\* prunePlansLocked: the expired plans go, and the oldest while there are MaxPlans.
Prunings ==
  LET alive == {i \in DOMAIN plans : now < plans[i].expires}
  IN  {kept \in SUBSET alive :
         /\ Cardinality(kept) < MaxPlans
         /\ kept # alive => Cardinality(kept) = MaxPlans - 1
         /\ \A i \in kept, j \in alive \ kept : plans[j].expires <= plans[i].expires}

Makes(asked, items) ==
  IF asked.fallback = None THEN items # Empty ELSE FitsFallback(asked, items)

\* The plan is kept, unless there is nothing to do or the fallback does not fit.
MakePlan(a) ==
  /\ pc[a] = "inspect"
  /\ loc[a].left = {}
  /\ LET id == loc[a].id
         items == loc[a].items
     IN  IF Makes(loc[a].asked, items)
         THEN \E kept \in Prunings :
                plans' = [i \in kept \cup {id} |->
                  IF i = id
                  THEN [expires |-> now + Lifetime, fallback |-> loc[a].asked.fallback,
                        items |-> [c \in DOMAIN items |-> [url |-> items[c].url, rev |-> items[c].rev]]]
                  ELSE plans[i]]
         ELSE UNCHANGED plans
  /\ Idle(a)
  /\ UNCHANGED <<catalogVars, hostVars, now, previews, work>>

-----------------------------------------------------------------------------
(* Apply.                                                                  *)

Taken(id) == [id |-> id, fallback |-> plans[id].fallback, items |-> plans[id].items, done |-> {}]

\* Mutant: a plan stays after it has been taken.
ApplyAgain(a, id) ==
  /\ pc[a] = "idle"
  /\ id \in 1..previews
  /\ \E kept \in Prunings :
       /\ plans' = [i \in kept |-> plans[i]]
       /\ IF id \in kept
          THEN pc' = [pc EXCEPT ![a] = "apply"] /\ loc' = [loc EXCEPT ![a] = Taken(id)]
          ELSE UNCHANGED adminVars
  /\ UNCHANGED <<catalogVars, hostVars, now, previews, work>>

\* A plan is taken once.  Taking one prunes first, as making one does; a plan that
\* expires at that moment is gone without effect.
Apply(a, id) ==
  /\ pc[a] = "idle"
  /\ id \in 1..previews
  /\ \E kept \in Prunings :
       /\ plans' = [i \in kept \ {id} |-> plans[i]]
       /\ IF id \in kept
          THEN \/ pc' = [pc EXCEPT ![a] = "apply"] /\ loc' = [loc EXCEPT ![a] = Taken(id)]
               \/ plans[id].expires <= now + 1 /\ UNCHANGED adminVars
          ELSE UNCHANGED adminVars
  /\ UNCHANGED <<catalogVars, hostVars, now, previews, work>>

Without(l, c) == [l EXCEPT !.items = [d \in DOMAIN l.items \ {c} |-> l.items[d]]]

\* Mutant: what the preview saw of the credential is not compared.
GetUnguarded(a, c) ==
  /\ pc[a] = "apply"
  /\ c \in DOMAIN loc[a].items
  /\ lock[c] = None
  /\ lock' = [lock EXCEPT ![c] = a]
  /\ pc' = [pc EXCEPT ![a] = "save"]
  /\ loc' = [loc EXCEPT ![a] = [l |-> loc[a], cred |-> c, read |-> cred[c]]]
  /\ UNCHANGED <<catalogVars, cred, writer, byHand, moved, now, planVars, work>>

\* SetProxy up to the comparison with what the preview saw.
Get(a, c) ==
  /\ pc[a] = "apply"
  /\ c \in DOMAIN loc[a].items
  /\ lock[c] = None
  /\ \/ /\ cred[c].rev = loc[a].items[c].rev
        /\ lock' = [lock EXCEPT ![c] = a]
        /\ pc' = [pc EXCEPT ![a] = "save"]
        /\ loc' = [loc EXCEPT ![a] = [l |-> loc[a], cred |-> c, read |-> cred[c]]]
        /\ UNCHANGED work
     \/ /\ \/ cred[c].rev # loc[a].items[c].rev /\ UNCHANGED work
           \/ cred[c].rev = loc[a].items[c].rev /\ Fails("item")
        /\ loc' = [loc EXCEPT ![a] = Without(@, c)]
        /\ UNCHANGED <<lock, pc>>
  /\ UNCHANGED <<catalogVars, cred, writer, byHand, moved, now, planVars>>

\* The whole document is written as it was read, but for one field.
Write(c, doc) == cred' = [cred EXCEPT ![c] = [doc EXCEPT !.rev = cred[c].rev + 1]]

\* What the history keeps of a move away from a profile.
Moves(l, c, url) ==
  moved' = IF l.fallback # None /\ l.fallback.action = "activate"
           THEN moved \cup {[profile |-> l.fallback.profile, cred |-> c, left |-> url]} ELSE moved

\* Mutant: an item that fails leaves without the lock.
PutKeepsLock(a) ==
  /\ pc[a] = "save"
  /\ LET c == loc[a].cred
         l == loc[a].l
         url == l.items[c].url
     IN  /\ pc' = [pc EXCEPT ![a] = "apply"]
         /\ \/ /\ Write(c, [loc[a].read EXCEPT !.url = url])
               /\ Moves(l, c, loc[a].read.url)
               /\ lock' = [lock EXCEPT ![c] = None]
               /\ loc' = [loc EXCEPT ![a] = [Without(l, c) EXCEPT !.done = @ \cup {c}]]
               /\ UNCHANGED work
            \/ /\ Fails("item")
               /\ loc' = [loc EXCEPT ![a] = Without(l, c)]
               /\ UNCHANGED <<lock, cred, moved>>
  /\ UNCHANGED <<catalogVars, writer, byHand, now, planVars>>

\* The save, and the second reading that confirms it: without that one the item failed,
\* whether or not the document was saved.
Put(a) ==
  /\ pc[a] = "save"
  /\ LET c == loc[a].cred
         l == loc[a].l
         url == l.items[c].url
         done == [Without(l, c) EXCEPT !.done = @ \cup {c}]
     IN  /\ lock' = [lock EXCEPT ![c] = None]
         /\ pc' = [pc EXCEPT ![a] = "apply"]
         /\ \/ /\ url = loc[a].read.url
               /\ loc' = [loc EXCEPT ![a] = done]
               /\ Moves(l, c, loc[a].read.url)
               /\ UNCHANGED <<cred, work>>
            \/ /\ url # loc[a].read.url
               /\ Write(c, [loc[a].read EXCEPT !.url = url])
               /\ Moves(l, c, loc[a].read.url)
               /\ \/ UNCHANGED work /\ loc' = [loc EXCEPT ![a] = done]
                  \/ Fails("reply") /\ loc' = [loc EXCEPT ![a] = Without(l, c)]
            \/ /\ url # loc[a].read.url
               /\ Fails("item")
               /\ loc' = [loc EXCEPT ![a] = Without(l, c)]
               /\ UNCHANGED <<cred, moved>>
  /\ UNCHANGED <<catalogVars, writer, byHand, now, planVars>>

\* The credentials that were moved are marked, or no longer marked, in one write; by now
\* the profile may be gone, or have no fallback, and then the catalog stays as it is.
Record(l) ==
  LET p == l.fallback.profile
  IN  UpdateFallback(p, IF l.fallback.action = "activate" THEN Marked(p, l.done)
                        ELSE Cleared(p, l.done))

Finish(a) ==
  /\ pc[a] = "apply"
  /\ DOMAIN loc[a].items = {}
  /\ IF loc[a].fallback # None /\ loc[a].done # {}
     THEN \/ Record(loc[a]) /\ UNCHANGED work
          \/ Fails("catalog") /\ UNCHANGED catalogVars
     ELSE UNCHANGED <<catalogVars, work>>
  /\ Idle(a)
  /\ UNCHANGED <<hostVars, now, planVars>>

-----------------------------------------------------------------------------
(* The catalog's other requests, and everybody else.                       *)

EditCatalog ==
  /\ Worked
  /\ \/ \E p \in Names, url \in Urls, mode \in ModesOfFallback, backup \in Names \cup {None} :
          Save(p, url, mode, backup)
     \/ \E p \in Names : Delete(p)
  /\ UNCHANGED <<hostVars, now, planVars, adminVars>>

WriterRead(c) ==
  /\ writer = None
  /\ Worked
  /\ lock[c] = None
  /\ lock' = [lock EXCEPT ![c] = Writer]
  /\ writer' = [cred |-> c, read |-> cred[c]]
  /\ UNCHANGED <<catalogVars, cred, byHand, moved, now, planVars, adminVars>>

WriterWrite ==
  /\ writer # None
  /\ LET c == writer.cred
     IN  /\ Write(c, [writer.read EXCEPT !.disabled = ~@])
         /\ lock' = [lock EXCEPT ![c] = None]
  /\ writer' = None
  /\ UNCHANGED <<catalogVars, byHand, moved, now, planVars, adminVars, work>>

EditByHand(c, url) ==
  /\ Worked
  /\ url # cred[c].url
  /\ cred' = [cred EXCEPT ![c].url = url, ![c].rev = @ + 1]
  /\ byHand' = [byHand EXCEPT ![c] = @ \cup {cred[c].rev + 1}]
  /\ UNCHANGED <<catalogVars, lock, writer, moved, now, planVars, adminVars>>

Tick ==
  /\ now < MaxTime
  /\ now' = now + 1
  /\ UNCHANGED <<catalogVars, hostVars, planVars, adminVars, work>>

\* The process dies and starts again: plans and requests are gone.
Crash ==
  /\ Fails("crash")
  /\ plans' = [i \in {} |-> None]
  /\ pc' = [a \in Admins |-> "idle"]
  /\ loc' = [a \in Admins |-> None]
  /\ lock' = [c \in Creds |-> None]
  /\ writer' = None
  /\ \/ Load
     \/ "unreadable" \in Faults /\ LoadUnreadable
  /\ UNCHANGED <<cred, byHand, moved, now, previews>>

-----------------------------------------------------------------------------
Init ==
  /\ catalog \in Catalogs
  /\ had = {<<p, catalog[p].url>> : p \in DOMAIN catalog}
  /\ \E use \in Uses : cred = [c \in Creds |-> [url |-> use[c], disabled |-> FALSE, rev |-> 1]]
  /\ lock = [c \in Creds |-> None]
  /\ writer = None
  /\ now = 0
  /\ plans = [i \in {} |-> None]
  /\ pc = [a \in Admins |-> "idle"]
  /\ loc = [a \in Admins |-> None]
  /\ previews = 0 /\ work = 0
  /\ byHand = [c \in Creds |-> {}]
  /\ moved = {}

Request(a) ==
  \/ \E asked \in Asked : Preview(a, asked)
  \/ \E id \in 1..MaxPreviews : Apply(a, id)

Answer(a) ==
  \/ \E c \in Creds : Read(a, c) \/ Get(a, c)
  \/ Inspect(a)
  \/ MakePlan(a)
  \/ Put(a)
  \/ Finish(a)

Next ==
  \/ \E a \in Admins : Request(a) \/ Answer(a)
  \/ EditCatalog
  \/ \E c \in Creds : WriterRead(c)
  \/ WriterWrite
  \/ \E c \in Creds, url \in Urls \cup {None} : EditByHand(c, url)
  \/ Tick
  \/ Crash

Spec == Init /\ [][Next]_vars

-----------------------------------------------------------------------------
(* What must hold.                                                         *)

Items(items) == \E creds \in SUBSET Creds : items \in [creds -> Item]

IsPlan(p) ==
  /\ p = [expires |-> p.expires, fallback |-> p.fallback, items |-> p.items]
  /\ p.expires \in Nat /\ p.fallback \in Fallbacks \cup {None} /\ Items(p.items)

IsApplied(l) ==
  /\ l = [id |-> l.id, fallback |-> l.fallback, items |-> l.items, done |-> l.done]
  /\ l.id \in 1..previews /\ l.fallback \in Fallbacks \cup {None}
  /\ Items(l.items) /\ l.done \subseteq Creds

IsSaved(l) ==
  /\ l = [l |-> l.l, cred |-> l.cred, read |-> l.read]
  /\ IsApplied(l.l) /\ l.read \in Doc /\ l.cred \in DOMAIN l.l.items

IsInspected(l) ==
  /\ l = [id |-> l.id, asked |-> l.asked, left |-> l.left, items |-> l.items]
  /\ l.id \in 1..previews /\ l.asked \in Asked /\ l.left \subseteq l.asked.creds
  /\ DOMAIN l.items \subseteq l.asked.creds \ l.left
  /\ \A c \in DOMAIN l.items :
       l.items[c] \in [from : Names \cup {None}, url : Urls \cup {None}, rev : Nat]

IsRead(l) ==
  /\ l = [l |-> l.l, cred |-> l.cred, read |-> l.read]
  /\ IsInspected(l.l) /\ l.read \in Doc /\ l.cred \in l.l.asked.creds \ l.l.left

HostType ==
  /\ cred \in [Creds -> Doc]
  /\ lock \in [Creds -> Admins \cup {Writer, None}]
  /\ writer \in [cred : Creds, read : Doc] \cup {None}
  /\ byHand \in [Creds -> SUBSET Nat]
  /\ moved \subseteq [profile : Names, cred : Creds, left : Urls \cup {None}]

PlanType ==
  /\ now \in 0..MaxTime /\ previews \in 0..MaxPreviews /\ work \in 0..MaxWork
  /\ DOMAIN plans \subseteq 1..previews
  /\ \A i \in DOMAIN plans : IsPlan(plans[i])

RequestType ==
  /\ pc \in [Admins -> {"idle", "inspect", "resolve", "apply", "save"}] /\ DOMAIN loc = Admins
  /\ \A a \in Admins :
       /\ pc[a] = "idle"    => loc[a] = None
       /\ pc[a] = "inspect" => IsInspected(loc[a])
       /\ pc[a] = "resolve" => IsRead(loc[a])
       /\ pc[a] = "apply"   => IsApplied(loc[a])
       /\ pc[a] = "save"    => IsSaved(loc[a])

\* A credential's lock is held exactly by the request that saves it, or by the other
\* writer.
Locks ==
  \A c \in Creds :
    /\ \A a \in Admins : lock[c] = a <=> pc[a] = "save" /\ loc[a].cred = c
    /\ lock[c] = Writer <=> writer # None /\ writer.cred = c

\* The types of the variables, and who holds which lock.
TypeOK == CatalogType /\ HostType /\ PlanType /\ RequestType /\ Locks

PlanOf(a) ==
  CASE pc[a] = "apply" -> loc[a].id
    [] pc[a] = "save"  -> loc[a].l.id
    [] OTHER           -> 0

\* A plan is carried out once: two requests never work on the same, and one that is
\* worked on cannot be taken again.
TakenOnce ==
  \A a \in Admins :
    PlanOf(a) # 0 =>
      /\ PlanOf(a) \notin DOMAIN plans
      /\ \A b \in Admins \ {a} : PlanOf(a) # PlanOf(b)

\* Nothing the plugin wrote is lost: what a save replaces, and what the plan was made
\* from, or the other writer read, does not show, was written by hand.
Unseen(c, rev) == (rev + 1)..cred[c].rev

OnlyEditsByHandAreLost ==
  [][\A c \in Creds : cred'[c] # cred[c] =>
       /\ \A a \in Admins : pc[a] = "save" /\ pc'[a] = "apply" =>
            Unseen(c, loc[a].l.items[c].rev) \subseteq byHand[c]
       /\ writer # None /\ writer' = None => Unseen(c, writer.read.rev) \subseteq byHand[c]]_vars

\* A credential is marked as away from a profile only if a fallback moved it, and moved
\* it away from an URL of that very profile.
MarkedWasMoved ==
  \A p \in DOMAIN catalog : \A c \in catalog[p].active :
    \E m \in moved : m.profile = p /\ m.cred = c /\ <<p, m.left>> \in had

=============================================================================
