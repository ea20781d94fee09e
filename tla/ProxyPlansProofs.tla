-------------------------- MODULE ProxyPlansProofs --------------------------
(***************************************************************************)
(* Proofs about ProxyPlans: the types and the locks, that the catalog is   *)
(* one the next start accepts, that a plan is carried out once, that only  *)
(* edits by hand are lost, and that what is marked was moved.              *)
(***************************************************************************)
EXTENDS ProxyPlans, ProfilesProofs

-----------------------------------------------------------------------------
(* The values.                                                             *)

\* Nobody shares a name with another, and None is nobody's.
LEMMA Apart ==
  /\ None \notin Admins /\ Writer \notin Admins /\ Writer # None
  /\ None \notin Names /\ None \notin Urls /\ None \notin Creds
  /\ None \notin [cred : Creds, read : Doc]
BY ProxyPlansAssumption, ProfilesAssumption

\* A document stays a document when a field of it changes, and its revision.
LEMMA DocStays ==
  ASSUME NEW d \in Doc, NEW url \in Urls \cup {None}, NEW rev \in Nat
  PROVE  /\ [[d EXCEPT !.url = url] EXCEPT !.rev = rev] \in Doc
         /\ [[d EXCEPT !.disabled = ~d.disabled] EXCEPT !.rev = rev] \in Doc
<1>1. [d EXCEPT !.url = url] \in Doc /\ [d EXCEPT !.disabled = ~d.disabled] \in Doc
      BY DEF Doc
<1>2. \A e \in Doc : [e EXCEPT !.rev = rev] \in Doc
      BY DEF Doc
<1> QED BY <1>1, <1>2

\* Taking a credential out of what is left to apply leaves a request of the same kind.
LEMMA WithoutIsApplied ==
  ASSUME NEW l, IsApplied(l), NEW c
  PROVE  /\ IsApplied(Without(l, c))
         /\ Without(l, c).id = l.id
         /\ Without(l, c) = [id |-> l.id, fallback |-> l.fallback, done |-> l.done,
                             items |-> [d \in DOMAIN l.items \ {c} |-> l.items[d]]]
         /\ c \in Creds => IsApplied([Without(l, c) EXCEPT !.done = @ \cup {c}])
<1> DEFINE rest == [d \in DOMAIN l.items \ {c} |-> l.items[d]]
<1>1. PICK creds \in SUBSET Creds : l.items \in [creds -> Item]
      BY DEF IsApplied, Items
<1>2. rest \in [creds \ {c} -> Item] /\ creds \ {c} \in SUBSET Creds
      BY <1>1
<1>3. Items(rest)
      BY <1>2 DEF Items
<1>4. Without(l, c) = [id |-> l.id, fallback |-> l.fallback, items |-> rest, done |-> l.done]
      BY DEF IsApplied, Without
<1> QED BY <1>3, <1>4 DEF IsApplied

\* The items of a request are credentials, with the URL and the revision of each.
LEMMA ItemsOfApplied ==
  ASSUME NEW l, IsApplied(l)
  PROVE  /\ DOMAIN l.items \subseteq Creds
         /\ \A c \in DOMAIN l.items : l.items[c].url \in Urls \cup {None} /\ l.items[c].rev \in Nat
BY DEF IsApplied, Items, Item

\* What a request has of plans and credentials stays valid as plans are added.
LEMMA RequestsStay ==
  ASSUME PlanType, RequestType, previews' \in Nat, previews <= previews', NEW a \in Admins,
         pc'[a] = pc[a], loc'[a] = loc[a]
  PROVE  /\ pc'[a] \in {"idle", "inspect", "resolve", "apply", "save"}
         /\ pc'[a] = "idle"    => loc'[a] = None
         /\ pc'[a] = "inspect" => IsInspected(loc[a])'
         /\ pc'[a] = "resolve" => IsRead(loc[a])'
         /\ pc'[a] = "apply"   => IsApplied(loc[a])'
         /\ pc'[a] = "save"    => IsSaved(loc[a])'
<1>1. 1..previews \subseteq 1..previews'
      BY DEF PlanType
<1> QED BY <1>1 DEF RequestType, IsInspected, IsRead, IsApplied, IsSaved

\* A profile that is saved, marked or cleared is a profile.
LEMMA CatalogStays ==
  ASSUME CatalogType
  PROVE  /\ \A p \in Names, url \in Urls, mode \in ModesOfFallback, backup \in Names \cup {None} :
              Save(p, url, mode, backup) => CatalogType'
         /\ \A p \in Names : Delete(p) => CatalogType'
         /\ \A p : \A creds \in SUBSET Creds :
              UpdateFallback(p, Marked(p, creds)) \/ UpdateFallback(p, Cleared(p, creds)) => CatalogType'
         /\ Load \/ LoadUnreadable => CatalogType'
         /\ UNCHANGED catalogVars => CatalogType'
<1> USE DEF CatalogType, Spent
<1>1. ASSUME NEW p \in Names, NEW url \in Urls, NEW mode \in ModesOfFallback,
             NEW backup \in Names \cup {None}, Save(p, url, mode, backup)
      PROVE  CatalogType'
  <2> DEFINE profile == [url |-> url, mode |-> mode, backup |-> backup,
                         active |-> IF p \notin DOMAIN catalog THEN {} ELSE catalog[p].active]
  <2>1. profile \in Profile
        BY DEF Profile
  <2>2. /\ DOMAIN catalog' = DOMAIN catalog \cup {p}
        /\ \A q \in DOMAIN catalog' : catalog'[q] = IF q = p THEN profile ELSE catalog[q]
        /\ had' = had \cup {<<p, url>>}
        BY <1>1 DEF Save, With, Extended
  <2>3. <<p, url>>[1] = p /\ <<p, url>> \in Names \X Urls
        OBVIOUS
  <2>4. DOMAIN catalog' \subseteq Spent'
        BY <2>2, <2>3
  <2> QED BY <2>1, <2>2, <2>3, <2>4
<1>2. ASSUME NEW p \in Names, Delete(p) PROVE CatalogType'
      BY <1>2 DEF Delete
<1>3. ASSUME NEW p, NEW creds \in SUBSET Creds,
             UpdateFallback(p, Marked(p, creds)) \/ UpdateFallback(p, Cleared(p, creds))
      PROVE  CatalogType'
      BY <1>3 DEF UpdateFallback, CanUpdateFallback, Marked, Cleared, Profile
<1>4. ASSUME Load \/ LoadUnreadable PROVE CatalogType'
      BY <1>4 DEF Load, LoadUnreadable, Empty
<1> QED BY <1>1, <1>2, <1>3, <1>4 DEF catalogVars

-----------------------------------------------------------------------------
(* Types and locks.                                                        *)

\* What the steps of a request leave of the parts of TypeOK they do not touch.
LEMMA PartsStay ==
  ASSUME TypeOK
  PROVE  /\ UNCHANGED hostVars => HostType'
         /\ UNCHANGED <<now, planVars>> /\ work' \in 0..MaxWork => PlanType'
         /\ UNCHANGED <<previews, adminVars>> => RequestType'
         /\ UNCHANGED <<lock, writer, adminVars>> => Locks'
BY DEF TypeOK, HostType, PlanType, IsPlan, RequestType, IsInspected, IsRead, IsApplied, IsSaved, Locks,
       hostVars, planVars, adminVars

\* What is counted as work stays within its bound.
LEMMA WorkBounded ==
  ASSUME PlanType
  PROVE  /\ Worked => work' \in 0..MaxWork
         /\ \A what : Fails(what) => work' \in 0..MaxWork
         /\ UNCHANGED work => work' \in 0..MaxWork
BY ProxyPlansAssumption DEF PlanType, Worked, More, Fails

\* A request that changes from or to another step than the save holds no lock before or
\* after.
LEMMA LocksStay ==
  ASSUME TypeOK, NEW a \in Admins, pc[a] # "save", pc'[a] # "save",
         \A b \in Admins \ {a} : pc'[b] = pc[b] /\ loc'[b] = loc[b],
         UNCHANGED <<lock, writer>>
  PROVE  Locks'
BY DEF TypeOK, Locks

\* The request of one admin changes, to one that is as it should be.
LEMMA RequestChanges ==
  ASSUME TypeOK, previews' \in Nat, previews <= previews', NEW a \in Admins,
         pc' = [pc EXCEPT ![a] = pc'[a]], loc' = [loc EXCEPT ![a] = loc'[a]],
         \/ pc'[a] = "idle" /\ loc'[a] = None
         \/ pc'[a] = "inspect" /\ IsInspected(loc[a])'
         \/ pc'[a] = "resolve" /\ IsRead(loc[a])'
         \/ pc'[a] = "apply" /\ IsApplied(loc[a])'
         \/ pc'[a] = "save" /\ IsSaved(loc[a])'
  PROVE  /\ RequestType'
         /\ \A b \in Admins \ {a} : pc'[b] = pc[b] /\ loc'[b] = loc[b]
<1>1. DOMAIN loc' = Admins /\ \A b \in Admins \ {a} : pc'[b] = pc[b] /\ loc'[b] = loc[b]
      BY DEF TypeOK, RequestType
<1>2. pc' \in [Admins -> {"idle", "inspect", "resolve", "apply", "save"}]
      BY DEF TypeOK, RequestType
<1> QED BY <1>1, <1>2, RequestsStay DEF TypeOK, RequestType

\* Preview.
LEMMA PreviewTypes ==
  ASSUME TypeOK, NEW a \in Admins, NEW asked \in Asked, Preview(a, asked)
  PROVE  TypeOK'
<1>1. previews' \in Nat /\ previews <= previews' /\ previews' \in 0..MaxPreviews
      BY ProxyPlansAssumption DEF TypeOK, PlanType, Preview
<1>2. /\ pc[a] = "idle" /\ pc'[a] = "inspect"
      /\ loc'[a] = [id |-> previews', asked |-> asked, left |-> asked.creds, items |-> Empty]
      BY DEF TypeOK, RequestType, Preview
<1>3. IsInspected(loc[a])'
  <2>1. previews' \in 1..previews' /\ DOMAIN Empty = {}
        BY <1>1 DEF Preview, TypeOK, PlanType, Empty
  <2> QED BY <1>2, <2>1 DEF IsInspected
<1>4. RequestType' /\ \A b \in Admins \ {a} : pc'[b] = pc[b] /\ loc'[b] = loc[b]
      BY <1>1, <1>2, <1>3, RequestChanges DEF Preview
<1>5. PlanType'
      BY <1>1 DEF TypeOK, PlanType, Preview, IsPlan
<1>6. Locks'
      BY <1>2, <1>4, LocksStay DEF Preview, hostVars
<1> QED BY <1>4, <1>5, <1>6, CatalogStays, PartsStay DEF TypeOK, Preview

\* A request with one credential less to read.
Less(l, c) == [id |-> l.id, asked |-> l.asked, left |-> l.left \ {c}, items |-> l.items]

\* One credential less is left, and either its document is at hand or nothing else changed.
LEMMA ReadForms ==
  ASSUME TypeOK, NEW a \in Admins, NEW c \in Creds, Read(a, c)
  PROVE  /\ pc[a] = "inspect" /\ IsInspected(loc[a]) /\ c \in loc[a].left
         /\ pc' = [pc EXCEPT ![a] = pc'[a]] /\ loc' = [loc EXCEPT ![a] = loc'[a]]
         /\ \A b \in Admins \ {a} : pc'[b] = pc[b] /\ loc'[b] = loc[b]
         /\ \/ /\ pc'[a] = "resolve"
               /\ loc'[a] = [l |-> Less(loc[a], c), cred |-> c, read |-> cred[c]]
            \/ pc'[a] = "inspect" /\ loc'[a] = Less(loc[a], c)
<1>1. pc[a] = "inspect" /\ IsInspected(loc[a]) /\ c \in loc[a].left
      BY DEF Read, TypeOK, RequestType
<1>2. [loc[a] EXCEPT !.left = @ \ {c}] = Less(loc[a], c)
      BY <1>1 DEF IsInspected, Less
<1>3. \/ /\ pc' = [pc EXCEPT ![a] = "resolve"]
         /\ loc' = [loc EXCEPT ![a] = [l |-> Less(loc[a], c), cred |-> c, read |-> cred[c]]]
      \/ UNCHANGED pc /\ loc' = [loc EXCEPT ![a] = Less(loc[a], c)]
      BY <1>2 DEF Read
<1> QED BY <1>1, <1>3 DEF TypeOK, RequestType

\* Read.
LEMMA ReadTypes ==
  ASSUME TypeOK, NEW a \in Admins, NEW c \in Creds, Read(a, c)
  PROVE  TypeOK'
<1>1. /\ pc[a] = "inspect" /\ IsInspected(loc[a]) /\ c \in loc[a].left
      /\ pc' = [pc EXCEPT ![a] = pc'[a]] /\ loc' = [loc EXCEPT ![a] = loc'[a]]
      BY ReadForms
<1>2. work' \in 0..MaxWork /\ UNCHANGED previews
      BY WorkBounded DEF TypeOK, Read, planVars
<1>3. /\ IsInspected(Less(loc[a], c)) /\ Less(loc[a], c).asked = loc[a].asked
      /\ c \in loc[a].asked.creds \ Less(loc[a], c).left
      BY <1>1 DEF IsInspected, Less
<1>4. \/ pc'[a] = "inspect" /\ IsInspected(loc[a])'
      \/ pc'[a] = "resolve" /\ IsRead(loc[a])'
  <2>1. CASE pc'[a] = "resolve" /\ loc'[a] = [l |-> Less(loc[a], c), cred |-> c, read |-> cred[c]]
    <3>1. cred[c] \in Doc
          BY DEF TypeOK, HostType
    <3> QED BY <1>2, <1>3, <2>1, <3>1 DEF IsRead, IsInspected
  <2>2. CASE pc'[a] = "inspect" /\ loc'[a] = Less(loc[a], c)
        BY <1>2, <1>3, <2>2 DEF IsInspected
  <2> QED BY <2>1, <2>2, ReadForms
<1>5. RequestType' /\ \A b \in Admins \ {a} : pc'[b] = pc[b] /\ loc'[b] = loc[b]
      BY <1>1, <1>2, <1>4, RequestChanges DEF TypeOK, PlanType
<1>6. Locks'
      BY <1>1, <1>4, <1>5, LocksStay DEF Read, hostVars
<1> QED BY <1>2, <1>5, <1>6, CatalogStays, PartsStay DEF TypeOK, Read

\* What the source of a credential in a preview is, and what it moves to.
From(a) == IF loc[a].l.asked.fallback = None THEN {None} ELSE Matches(loc[a].read.url)

Target(a) == loc[a].l.asked.target

Seen(a, p) ==
  [from |-> p, url |-> IF Target(a) = None THEN None ELSE catalog[Target(a)].url, rev |-> loc[a].read.rev]

\* What was read is among the items, or nothing else changed.
LEMMA InspectForms ==
  ASSUME TypeOK, NEW a \in Admins, Inspect(a)
  PROVE  /\ pc[a] = "resolve" /\ IsRead(loc[a]) /\ pc'[a] = "inspect"
         /\ pc' = [pc EXCEPT ![a] = pc'[a]] /\ loc' = [loc EXCEPT ![a] = loc'[a]]
         /\ \A b \in Admins \ {a} : pc'[b] = pc[b] /\ loc'[b] = loc[b]
         /\ loc'[a] = [id |-> loc[a].l.id, asked |-> loc[a].l.asked, left |-> loc[a].l.left,
                       items |-> loc'[a].items]
         /\ \/ loc'[a].items = loc[a].l.items
            \/ \E p \in From(a) : /\ Target(a) \in DOMAIN catalog \cup {None}
                                  /\ loc'[a].items = Extended(loc[a].l.items, loc[a].cred, Seen(a, p))
<1> DEFINE l == loc[a].l
<1>1. pc[a] = "resolve" /\ IsRead(loc[a]) /\ pc' = [pc EXCEPT ![a] = "inspect"]
      BY DEF Inspect, TypeOK, RequestType
<1>2. \/ \E p \in From(a) :
           /\ Target(a) \in DOMAIN catalog \cup {None}
           /\ loc' = [loc EXCEPT ![a] = [l EXCEPT !.items = Extended(l.items, loc[a].cred, Seen(a, p))]]
      \/ loc' = [loc EXCEPT ![a] = l]
      BY DEF Inspect, From, Target, Seen
<1>3. \A i : [l EXCEPT !.items = i] = [id |-> l.id, asked |-> l.asked, left |-> l.left, items |-> i]
      BY <1>1 DEF IsRead, IsInspected
<1>4. l = [id |-> l.id, asked |-> l.asked, left |-> l.left, items |-> l.items]
      BY <1>1 DEF IsRead, IsInspected
<1>5. loc' = [loc EXCEPT ![a] = loc'[a]] /\ \A b \in Admins \ {a} : loc'[b] = loc[b]
      BY <1>2 DEF TypeOK, RequestType
<1>6. \/ \E p \in From(a) :
           /\ Target(a) \in DOMAIN catalog \cup {None}
           /\ loc'[a] = [l EXCEPT !.items = Extended(l.items, loc[a].cred, Seen(a, p))]
      \/ loc'[a] = l
      BY <1>2 DEF TypeOK, RequestType
<1>7. /\ loc'[a] = [id |-> l.id, asked |-> l.asked, left |-> l.left, items |-> loc'[a].items]
      /\ \/ loc'[a].items = l.items
         \/ \E p \in From(a) : /\ Target(a) \in DOMAIN catalog \cup {None}
                               /\ loc'[a].items = Extended(l.items, loc[a].cred, Seen(a, p))
  <2> HIDE DEF l
  <2> QED BY <1>3, <1>4, <1>6
<1> QED BY <1>1, <1>5, <1>7 DEF TypeOK, RequestType

\* Inspect.
LEMMA InspectTypes ==
  ASSUME TypeOK, NEW a \in Admins, Inspect(a)
  PROVE  TypeOK'
<1> DEFINE l == loc[a].l
           c == loc[a].cred
<1>1. /\ pc[a] = "resolve" /\ IsRead(loc[a]) /\ pc'[a] = "inspect"
      /\ pc' = [pc EXCEPT ![a] = pc'[a]] /\ loc' = [loc EXCEPT ![a] = loc'[a]]
      /\ loc'[a] = [id |-> l.id, asked |-> l.asked, left |-> l.left, items |-> loc'[a].items]
      BY InspectForms
<1>2. IsInspected(l) /\ c \in l.asked.creds \ l.left /\ loc[a].read \in Doc
      BY <1>1 DEF IsRead
<1>3. UNCHANGED <<work, previews>>
      BY DEF Inspect, planVars
<1>4. ASSUME NEW p \in From(a), Target(a) \in DOMAIN catalog \cup {None},
             loc'[a].items = Extended(l.items, c, Seen(a, p))
      PROVE  IsInspected(loc[a])'
  <2>1. p \in Names \cup {None}
        BY DEF From, Matches, TypeOK, CatalogType, Spent
  <2>2. Seen(a, p) \in [from : Names \cup {None}, url : Urls \cup {None}, rev : Nat]
        BY <1>2, <1>4, <2>1 DEF Seen, TypeOK, Doc, CatalogType, Profile
  <2>3. /\ DOMAIN loc'[a].items = DOMAIN l.items \cup {c}
        /\ \A d \in DOMAIN loc'[a].items :
             loc'[a].items[d] = IF d = c THEN Seen(a, p) ELSE l.items[d]
        BY <1>4 DEF Extended
  <2> HIDE DEF l, c
  <2> QED BY <1>1, <1>2, <1>3, <2>2, <2>3 DEF IsInspected
<1>5. loc'[a].items = l.items => IsInspected(loc[a])'
  <2> HIDE DEF l
  <2> QED BY <1>1, <1>2, <1>3 DEF IsInspected
<1>6. IsInspected(loc[a])'
      BY <1>4, <1>5, InspectForms
<1>7. RequestType' /\ \A b \in Admins \ {a} : pc'[b] = pc[b] /\ loc'[b] = loc[b]
      BY <1>1, <1>3, <1>6, RequestChanges DEF TypeOK, PlanType
<1>8. Locks'
      BY <1>1, <1>7, LocksStay DEF Inspect, hostVars
<1>9. work' \in 0..MaxWork
      BY <1>3 DEF TypeOK, PlanType
<1> QED BY <1>7, <1>8, <1>9, CatalogStays, PartsStay DEF TypeOK, Inspect

\* What a request sees of the types of other requests does not change with the plans that
\* are kept.
LEMMA PlanTypeStays ==
  ASSUME PlanType, UNCHANGED <<now, previews>>, work' \in 0..MaxWork,
         DOMAIN plans' \subseteq 1..previews, \A i \in DOMAIN plans' : IsPlan(plans'[i])
  PROVE  PlanType'
BY DEF PlanType, IsPlan

\* MakePlan.
LEMMA MakePlanTypes ==
  ASSUME TypeOK, NEW a \in Admins, MakePlan(a)
  PROVE  TypeOK'
<1> DEFINE id == loc[a].id
           items == loc[a].items
           ofPlan == [c \in DOMAIN items |-> [url |-> items[c].url, rev |-> items[c].rev]]
           plan == [expires |-> now + Lifetime, fallback |-> loc[a].asked.fallback, items |-> ofPlan]
<1>1. pc[a] = "inspect" /\ IsInspected(loc[a]) /\ PlanType
      BY DEF MakePlan, TypeOK, RequestType
<1>2. IsPlan(plan)
  <2>1. DOMAIN items \subseteq Creds /\ loc[a].asked.fallback \in Fallbacks \cup {None}
        BY <1>1 DEF IsInspected, Asked
  <2>2. ofPlan \in [DOMAIN items -> Item]
        BY <1>1 DEF IsInspected, Item
  <2>3. Items(ofPlan)
        BY <2>1, <2>2 DEF Items
  <2>4. now + Lifetime \in Nat
        BY <1>1, ProxyPlansAssumption DEF PlanType
  <2> HIDE DEF ofPlan
  <2> QED BY <2>1, <2>3, <2>4 DEF IsPlan
<1>3. DOMAIN plans' \subseteq 1..previews /\ \A i \in DOMAIN plans' : IsPlan(plans'[i])
  <2>1. CASE UNCHANGED plans
        BY <1>1, <2>1 DEF PlanType
  <2>2. CASE \E kept \in Prunings : plans' = [i \in kept \cup {id} |-> IF i = id THEN plan ELSE plans[i]]
    <3>1. \A kept \in Prunings : kept \subseteq DOMAIN plans
          BY DEF Prunings
    <3>2. id \in 1..previews
          BY <1>1 DEF IsInspected
    <3> HIDE DEF plan, id
    <3> QED BY <1>1, <1>2, <2>2, <3>1, <3>2 DEF PlanType
  <2> QED BY <2>1, <2>2 DEF MakePlan
<1>4. PlanType'
      BY <1>1, <1>3, PlanTypeStays DEF MakePlan, PlanType
<1>5. /\ pc' = [pc EXCEPT ![a] = pc'[a]] /\ pc'[a] = "idle"
      /\ loc' = [loc EXCEPT ![a] = loc'[a]] /\ loc'[a] = None
      BY DEF MakePlan, Idle, TypeOK, RequestType
<1>6. RequestType' /\ \A b \in Admins \ {a} : pc'[b] = pc[b] /\ loc'[b] = loc[b]
      BY <1>1, <1>5, RequestChanges DEF MakePlan, PlanType
<1>7. Locks'
      BY <1>1, <1>5, <1>6, LocksStay DEF MakePlan, hostVars
<1> QED BY <1>4, <1>6, <1>7, CatalogStays, PartsStay DEF TypeOK, MakePlan

\* Apply.
LEMMA ApplyTypes ==
  ASSUME TypeOK, NEW a \in Admins, NEW id \in 1..MaxPreviews, Apply(a, id)
  PROVE  TypeOK'
<1>1. PICK kept \in Prunings :
        /\ plans' = [i \in kept \ {id} |-> plans[i]]
        /\ \/ id \in kept /\ pc' = [pc EXCEPT ![a] = "apply"] /\ loc' = [loc EXCEPT ![a] = Taken(id)]
           \/ UNCHANGED adminVars
      BY DEF Apply
<1>2. kept \subseteq DOMAIN plans /\ PlanType /\ pc[a] = "idle"
      BY DEF Prunings, Apply, TypeOK
<1>3. PlanType'
      BY <1>1, <1>2, PlanTypeStays DEF Apply, PlanType
<1>4. CASE UNCHANGED adminVars
      BY <1>3, <1>4, CatalogStays, PartsStay DEF TypeOK, Apply, hostVars
<1>5. CASE id \in kept /\ pc' = [pc EXCEPT ![a] = "apply"] /\ loc' = [loc EXCEPT ![a] = Taken(id)]
  <2>1. /\ pc' = [pc EXCEPT ![a] = pc'[a]] /\ pc'[a] = "apply"
        /\ loc' = [loc EXCEPT ![a] = loc'[a]]
        /\ loc'[a] = [id |-> id, fallback |-> plans[id].fallback, items |-> plans[id].items, done |-> {}]
        BY <1>5 DEF TypeOK, RequestType, Taken
  <2>2. IsApplied(loc[a])'
        BY <1>2, <1>5, <2>1 DEF IsApplied, PlanType, IsPlan, Apply
  <2>3. RequestType' /\ \A b \in Admins \ {a} : pc'[b] = pc[b] /\ loc'[b] = loc[b]
        BY <1>2, <2>1, <2>2, RequestChanges DEF Apply, PlanType
  <2>4. Locks'
        BY <1>2, <2>1, <2>3, LocksStay DEF Apply, hostVars
  <2> QED BY <1>3, <2>3, <2>4, CatalogStays, PartsStay DEF TypeOK, Apply
<1> QED BY <1>1, <1>4, <1>5

\* Get.
LEMMA GetTypes ==
  ASSUME TypeOK, NEW a \in Admins, NEW c \in Creds, Get(a, c)
  PROVE  TypeOK'
<1>1. /\ pc[a] = "apply" /\ IsApplied(loc[a]) /\ c \in DOMAIN loc[a].items
      /\ UNCHANGED previews /\ previews \in Nat /\ work' \in 0..MaxWork
      BY WorkBounded DEF Get, TypeOK, RequestType, PlanType, planVars
<1>2. PlanType'
      BY <1>1, PlanTypeStays DEF Get, TypeOK, PlanType, planVars
<1>3. CASE lock' = [lock EXCEPT ![c] = a] /\ pc' = [pc EXCEPT ![a] = "save"]
           /\ loc' = [loc EXCEPT ![a] = [l |-> loc[a], cred |-> c, read |-> cred[c]]]
  <2>1. /\ pc' = [pc EXCEPT ![a] = pc'[a]] /\ pc'[a] = "save"
        /\ loc' = [loc EXCEPT ![a] = loc'[a]]
        /\ loc'[a] = [l |-> loc[a], cred |-> c, read |-> cred[c]]
        BY <1>3 DEF TypeOK, RequestType
  <2>2. IsSaved(loc[a])'
        BY <1>1, <2>1 DEF IsSaved, IsApplied, TypeOK, HostType
  <2>3. RequestType' /\ \A b \in Admins \ {a} : pc'[b] = pc[b] /\ loc'[b] = loc[b]
        BY <1>1, <2>1, <2>2, RequestChanges
  <2>4. Locks'
        BY <1>1, <1>3, <2>1, <2>3, Apart DEF Get, TypeOK, Locks, HostType
  <2>5. HostType'
        BY <1>3 DEF Get, TypeOK, HostType
  <2> QED BY <1>2, <2>3, <2>4, <2>5, CatalogStays DEF TypeOK, Get
<1>4. CASE loc' = [loc EXCEPT ![a] = Without(@, c)] /\ UNCHANGED <<lock, pc>>
  <2>1. /\ pc' = [pc EXCEPT ![a] = pc'[a]] /\ pc'[a] = "apply"
        /\ loc' = [loc EXCEPT ![a] = loc'[a]] /\ loc'[a] = Without(loc[a], c)
        BY <1>1, <1>4 DEF TypeOK, RequestType
  <2>2. IsApplied(loc[a])'
    <3>1. IsApplied(Without(loc[a], c))
          BY <1>1, WithoutIsApplied
    <3> QED BY <1>1, <2>1, <3>1 DEF IsApplied
  <2>3. RequestType' /\ \A b \in Admins \ {a} : pc'[b] = pc[b] /\ loc'[b] = loc[b]
        BY <1>1, <2>1, <2>2, RequestChanges
  <2>4. Locks'
        BY <1>1, <1>4, <2>1, <2>3, LocksStay DEF Get
  <2> QED BY <1>2, <1>4, <2>3, <2>4, CatalogStays, PartsStay DEF TypeOK, Get, hostVars
<1> QED BY <1>3, <1>4 DEF Get

\* Put.
LEMMA PutTypes ==
  ASSUME TypeOK, NEW a \in Admins, Put(a)
  PROVE  TypeOK'
<1> DEFINE c == loc[a].cred
           l == loc[a].l
           url == l.items[c].url
           done == [Without(l, c) EXCEPT !.done = @ \cup {c}]
<1>1. pc[a] = "save" /\ IsSaved(loc[a]) /\ c \in Creds /\ url \in Urls \cup {None}
  <2>1. pc[a] = "save" /\ IsSaved(loc[a])
        BY DEF Put, TypeOK, RequestType
  <2>2. IsApplied(l) /\ c \in DOMAIN l.items
        BY <2>1 DEF IsSaved
  <2> QED BY <2>1, <2>2, ItemsOfApplied
<1>2. /\ lock' = [lock EXCEPT ![c] = None] /\ pc' = [pc EXCEPT ![a] = "apply"]
      /\ UNCHANGED <<previews, writer>> /\ previews \in Nat /\ work' \in 0..MaxWork
  <2>1. /\ lock' = [lock EXCEPT ![c] = None] /\ pc' = [pc EXCEPT ![a] = "apply"]
        /\ UNCHANGED <<previews, writer>>
        BY DEF Put, planVars
  <2>2. UNCHANGED work \/ Fails("reply") \/ Fails("item")
        BY DEF Put
  <2> QED BY <2>1, <2>2, WorkBounded DEF TypeOK, PlanType
<1>3. loc' = [loc EXCEPT ![a] = done] \/ loc' = [loc EXCEPT ![a] = Without(l, c)]
      BY DEF Put
<1>4. /\ pc' = [pc EXCEPT ![a] = pc'[a]] /\ pc'[a] = "apply"
      /\ loc' = [loc EXCEPT ![a] = loc'[a]]
      /\ loc'[a] = done \/ loc'[a] = Without(l, c)
  <2> HIDE DEF done
  <2> QED BY <1>2, <1>3 DEF TypeOK, RequestType
<1>5. IsApplied(loc[a])'
  <2>1. IsApplied(done) /\ IsApplied(Without(l, c))
        BY <1>1, WithoutIsApplied DEF IsSaved
  <2> HIDE DEF done
  <2> QED BY <1>2, <1>4, <2>1 DEF IsApplied
<1>6. RequestType' /\ \A b \in Admins \ {a} : pc'[b] = pc[b] /\ loc'[b] = loc[b]
  <2>1. previews' \in Nat /\ previews <= previews'
        BY <1>2
  <2>2. pc' = [pc EXCEPT ![a] = pc'[a]] /\ loc' = [loc EXCEPT ![a] = loc'[a]] /\ pc'[a] = "apply"
        BY <1>4
  <2> QED BY <1>5, <2>1, <2>2, RequestChanges
<1>7. PlanType'
      BY <1>2, PlanTypeStays DEF Put, TypeOK, PlanType, planVars
<1>8. cred' \in [Creds -> Doc]
  <2>1. CASE UNCHANGED cred
        BY <2>1 DEF TypeOK, HostType
  <2>2. CASE Write(c, [loc[a].read EXCEPT !.url = url])
    <3>1. [[loc[a].read EXCEPT !.url = url] EXCEPT !.rev = cred[c].rev + 1] \in Doc
      <4>1. cred[c].rev + 1 \in Nat /\ loc[a].read \in Doc
            BY <1>1 DEF IsSaved, Doc, TypeOK, HostType
      <4> QED BY <1>1, <4>1, DocStays
    <3> QED BY <1>1, <2>2, <3>1 DEF Write, TypeOK, HostType
  <2> QED BY <2>1, <2>2 DEF Put
<1>9. moved' \subseteq [profile : Names, cred : Creds, left : Urls \cup {None}]
  <2>1. loc[a].read.url \in Urls \cup {None} /\ l.fallback \in Fallbacks \cup {None}
        BY <1>1 DEF IsSaved, IsApplied, Doc
  <2>2. UNCHANGED moved \/ Moves(l, c, loc[a].read.url)
        BY DEF Put
  <2> QED BY <1>1, <2>1, <2>2 DEF Moves, Fallbacks, TypeOK, HostType
<1>10. HostType'
      BY <1>1, <1>2, <1>8, <1>9, Apart DEF Put, TypeOK, HostType
<1>11. Locks'
  <2>1. lock[c] = a
        BY <1>1 DEF TypeOK, Locks
  <2> QED BY <1>1, <1>2, <1>4, <1>6, <2>1, Apart DEF TypeOK, HostType, Locks
<1> QED BY <1>6, <1>7, <1>10, <1>11, CatalogStays DEF TypeOK, Put

\* Finish.
LEMMA FinishTypes ==
  ASSUME TypeOK, NEW a \in Admins, Finish(a)
  PROVE  TypeOK'
<1>1. /\ pc[a] = "apply" /\ IsApplied(loc[a]) /\ UNCHANGED previews /\ previews \in Nat
      /\ work' \in 0..MaxWork
      BY WorkBounded DEF Finish, TypeOK, RequestType, PlanType, planVars
<1>2. /\ pc' = [pc EXCEPT ![a] = pc'[a]] /\ pc'[a] = "idle"
      /\ loc' = [loc EXCEPT ![a] = loc'[a]] /\ loc'[a] = None
      BY DEF Finish, Idle, TypeOK, RequestType
<1>3. RequestType' /\ \A b \in Admins \ {a} : pc'[b] = pc[b] /\ loc'[b] = loc[b]
      BY <1>1, <1>2, RequestChanges
<1>4. Locks'
      BY <1>1, <1>2, <1>3, LocksStay DEF Finish, hostVars
<1>5. CatalogType'
  <2>1. loc[a].done \in SUBSET Creds
        BY <1>1 DEF IsApplied
  <2>2. UNCHANGED catalogVars \/ Record(loc[a])
        BY DEF Finish
  <2>3. Record(loc[a]) => \E p : \/ UpdateFallback(p, Marked(p, loc[a].done))
                                 \/ UpdateFallback(p, Cleared(p, loc[a].done))
        BY DEF Record
  <2> QED BY <2>1, <2>2, <2>3, CatalogStays DEF TypeOK
<1> QED BY <1>1, <1>3, <1>4, <1>5, PartsStay DEF TypeOK, Finish

\* The steps of everybody but the admins.
LEMMA OthersTypes ==
  ASSUME TypeOK,
         \/ EditCatalog \/ \E c \in Creds : WriterRead(c)
         \/ WriterWrite \/ \E c \in Creds, url \in Urls \cup {None} : EditByHand(c, url)
         \/ Tick \/ Crash
  PROVE  TypeOK'
<1>1. CASE EditCatalog
  <2>1. CatalogType'
        BY <1>1, CatalogStays DEF EditCatalog, TypeOK
  <2> QED BY <1>1, <2>1, PartsStay, WorkBounded DEF EditCatalog, TypeOK, planVars, hostVars
<1>2. ASSUME NEW c \in Creds, WriterRead(c) PROVE TypeOK'
  <2>1. HostType'
        BY <1>2 DEF WriterRead, TypeOK, HostType
  <2>2. Locks'
        BY <1>2, Apart DEF WriterRead, TypeOK, HostType, Locks, adminVars
  <2> QED BY <1>2, <2>1, <2>2, CatalogStays, PartsStay, WorkBounded DEF WriterRead, TypeOK, planVars
<1>3. CASE WriterWrite
  <2>1. /\ writer \in [cred : Creds, read : Doc] /\ lock' = [lock EXCEPT ![writer.cred] = None]
        /\ writer' = None
        BY <1>3 DEF WriterWrite, TypeOK, HostType
  <2>2. [[writer.read EXCEPT !.disabled = ~@] EXCEPT !.rev = cred[writer.cred].rev + 1] \in Doc
    <3>1. writer.read \in Doc /\ cred[writer.cred].rev + 1 \in Nat
          BY <2>1 DEF TypeOK, HostType, Doc
    <3> QED BY <3>1, DocStays
  <2>3. HostType'
        BY <1>3, <2>1, <2>2 DEF WriterWrite, Write, TypeOK, HostType
  <2>4. Locks'
    <3>1. lock[writer.cred] = Writer
          BY <2>1, <1>3 DEF WriterWrite, TypeOK, Locks
    <3> QED BY <1>3, <2>1, <3>1, Apart DEF WriterWrite, TypeOK, HostType, Locks, adminVars
  <2> QED BY <1>3, <2>3, <2>4, CatalogStays, PartsStay, WorkBounded DEF WriterWrite, TypeOK, planVars
<1>4. ASSUME NEW c \in Creds, NEW url \in Urls \cup {None}, EditByHand(c, url) PROVE TypeOK'
  <2>1. HostType'
        BY <1>4 DEF EditByHand, TypeOK, HostType, Doc
  <2> QED BY <1>4, <2>1, CatalogStays, PartsStay, WorkBounded DEF EditByHand, TypeOK, planVars
<1>5. CASE Tick
  <2>1. PlanType'
        BY <1>5, ProxyPlansAssumption DEF Tick, TypeOK, PlanType, IsPlan, planVars
  <2> QED BY <1>5, <2>1, CatalogStays, PartsStay DEF Tick, TypeOK, planVars, hostVars
<1>6. CASE Crash
  <2>1. HostType' /\ Locks' /\ RequestType'
        BY <1>6, Apart DEF Crash, TypeOK, HostType, Locks, RequestType
  <2>2. PlanType'
        BY <1>6, PlanTypeStays, WorkBounded DEF Crash, TypeOK, PlanType
  <2> QED BY <1>6, <2>1, <2>2, CatalogStays DEF Crash, TypeOK
<1> QED BY <1>1, <1>2, <1>3, <1>4, <1>5, <1>6

\* The initial states are as they should be.
LEMMA InitTypes == Init => TypeOK
<1> SUFFICES ASSUME Init PROVE TypeOK
    OBVIOUS
<1>1. PICK names \in SUBSET Names : catalog \in [names -> Profile]
      BY ProxyPlansAssumption DEF Init
<1>2. CatalogType
  <2>1. \A p \in DOMAIN catalog : <<p, catalog[p].url>>[1] = p /\ <<p, catalog[p].url>> \in Names \X Urls
        BY <1>1 DEF Profile
  <2>2. had = {<<p, catalog[p].url>> : p \in DOMAIN catalog}
        BY DEF Init
  <2>3. DOMAIN catalog \subseteq Spent /\ had \subseteq Names \X Urls
        BY <2>1, <2>2 DEF Spent
  <2> QED BY <1>1, <2>3 DEF CatalogType
<1>3. HostType
      BY ProxyPlansAssumption DEF Init, HostType, Doc
<1>4. PlanType /\ RequestType /\ Locks
      BY ProxyPlansAssumption, Apart DEF Init, PlanType, RequestType, Locks
<1> QED BY <1>2, <1>3, <1>4 DEF TypeOK

\* Every step keeps the types and the locks.
LEMMA TypeStep == TypeOK /\ [Next]_vars => TypeOK'
<1> SUFFICES ASSUME TypeOK, [Next]_vars PROVE TypeOK'
    OBVIOUS
<1>1. ASSUME NEW a \in Admins, Request(a) PROVE TypeOK'
      BY <1>1, PreviewTypes, ApplyTypes DEF Request
<1>2. ASSUME NEW a \in Admins, Answer(a) PROVE TypeOK'
      BY <1>2, ReadTypes, InspectTypes, GetTypes, MakePlanTypes, PutTypes, FinishTypes DEF Answer
<1>3. CASE UNCHANGED vars
      BY <1>3, CatalogStays, PartsStay DEF TypeOK, PlanType, vars, hostVars, planVars
<1> QED BY <1>1, <1>2, <1>3, OthersTypes DEF Next

\* The variables keep their types; a credential's lock is held by the request that saves
\* it, or by the other writer, and by nobody else.
THEOREM TypeCorrect == Spec => []TypeOK
BY InitTypes, TypeStep, PTL DEF Spec

-----------------------------------------------------------------------------
(* The catalog.                                                            *)

\* The catalog that the plugin starts with was accepted.
LEMMA SettledInit == Init => Settled
<1> SUFFICES ASSUME Init PROVE Settled
    OBVIOUS
<1>1. CatalogType
      BY InitTypes DEF TypeOK
<1>2. IsFiniteSet(DOMAIN catalog) /\ Loadable(catalog)
      BY ProxyPlansAssumption DEF Init
<1> QED BY <1>1, <1>2 DEF Settled, CatalogLoads

LEMMA SettledStep == TypeOK /\ TypeOK' /\ Settled /\ [Next]_vars => Settled'
<1> SUFFICES ASSUME TypeOK, CatalogType', Settled, [Next]_vars PROVE Settled'
    BY DEF TypeOK
<1>1. UNCHANGED catalogVars => Settled'
      BY DEF Settled, CatalogLoads, catalogVars
<1>2. EditCatalog => Settled'
      BY SaveSettles, DeleteSettles DEF EditCatalog
<1>3. ASSUME NEW a \in Admins, Finish(a) PROVE Settled'
  <2>1. ASSUME Record(loc[a]) PROVE Settled'
    <3> DEFINE p == loc[a].fallback.profile
               next == IF loc[a].fallback.action = "activate" THEN Marked(p, loc[a].done)
                       ELSE Cleared(p, loc[a].done)
    <3>1. DOMAIN next = DOMAIN catalog
          BY DEF Marked, Cleared
    <3>2. UpdateFallback(p, next)
          BY <2>1 DEF Record
    <3> HIDE DEF p, next
    <3> QED BY <3>1, <3>2, UpdateSettles
  <2> QED BY <1>1, <1>3, <2>1 DEF Finish, catalogVars
<1>4. Crash => Settled'
      BY LoadSettles DEF Crash
<1>5. ASSUME NEW a \in Admins, Request(a) PROVE UNCHANGED catalogVars
      BY <1>5 DEF Request, Preview, Apply
<1>6. ASSUME NEW a \in Admins, Answer(a), ~Finish(a) PROVE UNCHANGED catalogVars
      BY <1>6 DEF Answer, Read, Inspect, Get, MakePlan, Put
<1>7. \/ \E c \in Creds : WriterRead(c)
      \/ WriterWrite \/ \E c \in Creds, url \in Urls \cup {None} : EditByHand(c, url)
      \/ Tick \/ UNCHANGED vars
      => UNCHANGED catalogVars
      BY DEF WriterRead, WriterWrite, EditByHand, Tick, vars
<1> QED BY <1>1, <1>2, <1>3, <1>4, <1>5, <1>6, <1>7 DEF Next

\* No fallback ever leads nowhere or back to where it came from, and whatever the
\* operations write, the next start accepts: a save and a mark are checked with the whole
\* catalog, a delete is not checked, but takes only what is nobody's backup.
THEOREM CatalogStaysLoadable == Spec => []CatalogLoads
<1>1. Settled => CatalogLoads
      BY DEF Settled
<1> QED BY <1>1, TypeCorrect, SettledInit, SettledStep, PTL DEF Spec

THEOREM FallbacksStayFinite == Spec => []FallbacksEnd
BY SettledEnds, TypeCorrect, SettledInit, SettledStep, PTL DEF Spec

-----------------------------------------------------------------------------
(* A plan is carried out once.                                             *)

\* The plan that a request makes or carries out.
WorksOn(a) == IF pc[a] \in {"resolve", "save"} THEN loc[a].l.id ELSE loc[a].id

\* A plan is in one place: with the request that makes it, in the store, or with the
\* request that carries it out.
OnePlace ==
  \A a \in Admins :
    pc[a] # "idle" =>
      /\ WorksOn(a) \in 1..previews
      /\ WorksOn(a) \notin DOMAIN plans
      /\ \A b \in Admins \ {a} : pc[b] # "idle" => WorksOn(b) # WorksOn(a)

\* Then no plan is carried out twice.
LEMMA OnePlaceEnough == TypeOK /\ OnePlace => TakenOnce
BY DEF OnePlace, TakenOnce, WorksOn, PlanOf, TypeOK, PlanType, RequestType

\* A request that goes on with its plan, or ends, leaves the others' plans alone.
LEMMA GoesOn ==
  ASSUME TypeOK, OnePlace, NEW a \in Admins,
         previews' = previews, DOMAIN plans' \subseteq DOMAIN plans,
         \A b \in Admins \ {a} : pc'[b] = pc[b] /\ loc'[b] = loc[b],
         pc'[a] = "idle" \/ (pc[a] # "idle" /\ WorksOn(a)' = WorksOn(a))
  PROVE  OnePlace'
BY DEF OnePlace, WorksOn

\* Every step keeps the plans in one place.
LEMMA OnePlaceStep == TypeOK /\ OnePlace /\ [Next]_vars => OnePlace'
<1> SUFFICES ASSUME TypeOK, OnePlace, [Next]_vars PROVE OnePlace'
    OBVIOUS
<1>1. previews \in Nat /\ DOMAIN plans \subseteq 1..previews
      BY DEF TypeOK, PlanType
<1>2. \A kept \in Prunings : kept \subseteq DOMAIN plans
      BY DEF Prunings
<1>3. ASSUME NEW a \in Admins, NEW asked \in Asked, Preview(a, asked) PROVE OnePlace'
  <2>1. previews' = previews + 1 /\ UNCHANGED plans /\ pc'[a] = "inspect" /\ loc'[a].id = previews + 1
        BY <1>3 DEF Preview, TypeOK, RequestType
  <2>2. \A b \in Admins \ {a} : pc'[b] = pc[b] /\ loc'[b] = loc[b]
        BY <1>3 DEF Preview, TypeOK, RequestType
  <2>3. WorksOn(a)' = previews + 1 /\ \A b \in Admins \ {a} : WorksOn(b)' = WorksOn(b)
        BY <2>1, <2>2 DEF WorksOn
  <2> QED BY <1>1, <2>1, <2>2, <2>3 DEF OnePlace
<1>4. ASSUME NEW a \in Admins, NEW c \in Creds, Read(a, c) PROVE OnePlace'
  <2>1. /\ pc[a] = "inspect" /\ UNCHANGED <<plans, previews>>
        /\ \A b \in Admins \ {a} : pc'[b] = pc[b] /\ loc'[b] = loc[b]
        BY <1>4, ReadForms DEF Read, planVars
  <2>2. \/ pc'[a] = "resolve" /\ loc'[a].l.id = loc[a].id
        \/ pc'[a] = "inspect" /\ loc'[a].id = loc[a].id
    <3>1. Less(loc[a], c).id = loc[a].id
          BY DEF Less
    <3>2. \/ pc'[a] = "resolve" /\ loc'[a].l = Less(loc[a], c)
          \/ pc'[a] = "inspect" /\ loc'[a] = Less(loc[a], c)
      <4>1. CASE loc'[a] = [l |-> Less(loc[a], c), cred |-> c, read |-> cred[c]]
            BY <1>4, <4>1, ReadForms
      <4> QED BY <1>4, <4>1, ReadForms
    <3> QED BY <3>1, <3>2
  <2> QED BY <2>1, <2>2, GoesOn DEF WorksOn
<1>12. ASSUME NEW a \in Admins, Inspect(a) PROVE OnePlace'
  <2>1. /\ pc[a] = "resolve" /\ pc'[a] = "inspect" /\ UNCHANGED <<plans, previews>>
        /\ \A b \in Admins \ {a} : pc'[b] = pc[b] /\ loc'[b] = loc[b]
        BY <1>12, InspectForms DEF Inspect, planVars
  <2>2. loc'[a] = [id |-> loc[a].l.id, asked |-> loc[a].l.asked, left |-> loc[a].l.left,
                   items |-> loc'[a].items]
        BY <1>12, InspectForms
  <2>3. loc'[a].id = loc[a].l.id
        BY <2>2
  <2> QED BY <2>1, <2>3, GoesOn DEF WorksOn
<1>5. ASSUME NEW a \in Admins, MakePlan(a) PROVE OnePlace'
  <2>1. /\ pc[a] = "inspect" /\ pc'[a] = "idle" /\ UNCHANGED previews
        /\ \A b \in Admins \ {a} : pc'[b] = pc[b] /\ loc'[b] = loc[b]
        BY <1>5 DEF MakePlan, Idle, TypeOK, RequestType
  <2>2. DOMAIN plans' \subseteq DOMAIN plans \cup {WorksOn(a)}
        BY <1>2, <1>5, <2>1 DEF MakePlan, WorksOn
  <2>3. \A b \in Admins \ {a} : WorksOn(b)' = WorksOn(b)
        BY <2>1 DEF WorksOn
  <2> QED BY <2>1, <2>2, <2>3 DEF OnePlace
<1>6. ASSUME NEW a \in Admins, NEW id \in 1..MaxPreviews, Apply(a, id) PROVE OnePlace'
  <2>1. PICK kept \in Prunings :
          /\ plans' = [i \in kept \ {id} |-> plans[i]]
          /\ \/ id \in kept /\ pc' = [pc EXCEPT ![a] = "apply"] /\ loc' = [loc EXCEPT ![a] = Taken(id)]
             \/ UNCHANGED adminVars
        BY <1>6 DEF Apply
  <2>2. UNCHANGED previews /\ DOMAIN plans' = kept \ {id} /\ kept \subseteq DOMAIN plans /\ pc[a] = "idle"
        BY <1>2, <1>6, <2>1 DEF Apply
  <2>3. CASE UNCHANGED adminVars
        BY <2>2, <2>3 DEF OnePlace, WorksOn, adminVars
  <2>4. CASE id \in kept /\ pc' = [pc EXCEPT ![a] = "apply"] /\ loc' = [loc EXCEPT ![a] = Taken(id)]
    <3>1. /\ pc'[a] = "apply" /\ loc'[a].id = id
          /\ \A b \in Admins \ {a} : pc'[b] = pc[b] /\ loc'[b] = loc[b]
          BY <2>4 DEF TypeOK, RequestType, Taken
    <3>2. WorksOn(a)' = id /\ \A b \in Admins \ {a} : WorksOn(b)' = WorksOn(b)
          BY <3>1 DEF WorksOn
    <3> QED BY <1>1, <2>2, <2>4, <3>1, <3>2 DEF OnePlace
  <2> QED BY <2>1, <2>3, <2>4
<1>7. ASSUME NEW a \in Admins, NEW c \in Creds, Get(a, c) PROVE OnePlace'
  <2>1. /\ pc[a] = "apply" /\ UNCHANGED <<plans, previews>> /\ IsApplied(loc[a])
        /\ \A b \in Admins \ {a} : pc'[b] = pc[b] /\ loc'[b] = loc[b]
        BY <1>7 DEF Get, TypeOK, RequestType, planVars
  <2>2. Without(loc[a], c).id = loc[a].id
        BY <2>1, WithoutIsApplied
  <2>3. \/ pc'[a] = "save" /\ loc'[a].l = loc[a]
        \/ pc'[a] = "apply" /\ loc'[a] = Without(loc[a], c)
        BY <1>7 DEF Get, TypeOK, RequestType
  <2> QED BY <2>1, <2>2, <2>3, GoesOn DEF WorksOn
<1>8. ASSUME NEW a \in Admins, Put(a) PROVE OnePlace'
  <2> DEFINE less == Without(loc[a].l, loc[a].cred)
  <2>1. /\ pc[a] = "save" /\ pc'[a] = "apply" /\ UNCHANGED <<plans, previews>> /\ IsApplied(loc[a].l)
        /\ \A b \in Admins \ {a} : pc'[b] = pc[b] /\ loc'[b] = loc[b]
        BY <1>8 DEF Put, TypeOK, RequestType, IsSaved, planVars
  <2>2. less.id = loc[a].l.id /\ [less EXCEPT !.done = @ \cup {loc[a].cred}].id = less.id
    <3>1. IsApplied(less) /\ less.id = loc[a].l.id
          BY <2>1, WithoutIsApplied
    <3> HIDE DEF less
    <3> QED BY <3>1 DEF IsApplied
  <2>3. loc'[a] = less \/ loc'[a] = [less EXCEPT !.done = @ \cup {loc[a].cred}]
    <3> HIDE DEF less
    <3> QED BY <1>8 DEF less, Put, TypeOK, RequestType
  <2> HIDE DEF less
  <2> QED BY <2>1, <2>2, <2>3, GoesOn DEF WorksOn
<1>9. ASSUME NEW a \in Admins, Finish(a) PROVE OnePlace'
  <2>1. /\ pc'[a] = "idle" /\ UNCHANGED <<plans, previews>>
        /\ \A b \in Admins \ {a} : pc'[b] = pc[b] /\ loc'[b] = loc[b]
        BY <1>9 DEF Finish, Idle, TypeOK, RequestType, planVars
  <2> QED BY <2>1, GoesOn
<1>10. CASE UNCHANGED <<planVars, adminVars>>
       BY <1>10 DEF OnePlace, WorksOn, planVars, adminVars
<1>11. CASE Crash
       BY <1>11 DEF Crash, OnePlace
<1> QED BY <1>3, <1>4, <1>5, <1>6, <1>7, <1>8, <1>9, <1>10, <1>11, <1>12
        DEF Next, Request, Answer, EditCatalog, WriterRead, WriterWrite, EditByHand, Tick, vars

\* No two requests ever carry out the same plan, and a plan that is being carried out, or
\* has been, cannot be taken again.
THEOREM PlansTakenOnce == Spec => []TakenOnce
<1>1. Init => OnePlace
      BY DEF Init, OnePlace
<1> QED BY <1>1, TypeCorrect, OnePlaceStep, OnePlaceEnough, PTL DEF Spec

-----------------------------------------------------------------------------
(* Only edits by hand are lost.                                            *)

\* Whoever holds a credential's lock has seen all that the plugin wrote.
HoldersHaveSeen ==
  /\ \A a \in Admins :
       pc[a] = "save" => Unseen(loc[a].cred, loc[a].l.items[loc[a].cred].rev) \subseteq byHand[loc[a].cred]
  /\ writer # None => Unseen(writer.cred, writer.read.rev) \subseteq byHand[writer.cred]

\* One who reads a credential has seen all of it.
LEMMA JustRead == \A n \in Nat : (n + 1)..n = {}
OBVIOUS

\* After an edit by hand the edit is all that there is to see besides.
LEMMA OneMoreByHand ==
  ASSUME NEW rev \in Nat, NEW n \in Nat, NEW edits, ((rev + 1)..n) \subseteq edits
  PROVE  ((rev + 1)..(n + 1)) \subseteq edits \cup {n + 1}
OBVIOUS

\* Holders that stay, with the credential they have locked unchanged, know what they knew.
LEMMA HoldersStay ==
  ASSUME HoldersHaveSeen, UNCHANGED byHand,
         \A a \in Admins : pc'[a] = "save" =>
           pc[a] = "save" /\ loc'[a] = loc[a] /\ cred'[loc[a].cred] = cred[loc[a].cred],
         writer' # None => writer' = writer /\ cred'[writer.cred] = cred[writer.cred]
  PROVE  HoldersHaveSeen'
BY DEF HoldersHaveSeen, Unseen

\* Steps that touch no credential's document, lock or holder.
LEMMA QuietSteps ==
  ASSUME TypeOK, HoldersHaveSeen, UNCHANGED <<cred, writer, byHand>>, NEW a \in Admins,
         pc'[a] # "save", \A b \in Admins \ {a} : pc'[b] = pc[b] /\ loc'[b] = loc[b]
  PROVE  HoldersHaveSeen'
BY HoldersStay

\* Every step keeps what the holders have seen.
LEMMA HoldersStep == TypeOK /\ HoldersHaveSeen /\ [Next]_vars => HoldersHaveSeen'
<1> SUFFICES ASSUME TypeOK, HoldersHaveSeen, [Next]_vars PROVE HoldersHaveSeen'
    OBVIOUS
<1>1. ASSUME NEW a \in Admins, NEW asked \in Asked, Preview(a, asked) PROVE HoldersHaveSeen'
      BY <1>1, QuietSteps DEF Preview, TypeOK, RequestType, hostVars
<1>2. ASSUME NEW a \in Admins, Inspect(a) \/ \E c \in Creds : Read(a, c) PROVE HoldersHaveSeen'
  <2>1. pc'[a] # "save" /\ \A b \in Admins \ {a} : pc'[b] = pc[b] /\ loc'[b] = loc[b]
        BY <1>2, ReadForms, InspectForms
  <2> QED BY <1>2, <2>1, QuietSteps DEF Read, Inspect, hostVars
<1>3. ASSUME NEW a \in Admins, MakePlan(a) \/ Finish(a) PROVE HoldersHaveSeen'
      BY <1>3, QuietSteps DEF MakePlan, Finish, Idle, TypeOK, RequestType, hostVars
<1>4. ASSUME NEW a \in Admins, NEW id \in 1..MaxPreviews, Apply(a, id) PROVE HoldersHaveSeen'
  <2>1. pc'[a] # "save" /\ \A b \in Admins \ {a} : pc'[b] = pc[b] /\ loc'[b] = loc[b]
        BY <1>4 DEF Apply, TypeOK, RequestType, adminVars
  <2> QED BY <1>4, <2>1, QuietSteps DEF Apply, hostVars
<1>5. ASSUME NEW a \in Admins, NEW c \in Creds, Get(a, c) PROVE HoldersHaveSeen'
  <2>1. UNCHANGED <<cred, writer, byHand>> /\ \A b \in Admins \ {a} : pc'[b] = pc[b] /\ loc'[b] = loc[b]
        BY <1>5 DEF Get, TypeOK, RequestType
  <2>2. CASE cred[c].rev = loc[a].items[c].rev /\ pc' = [pc EXCEPT ![a] = "save"]
             /\ loc' = [loc EXCEPT ![a] = [l |-> loc[a], cred |-> c, read |-> cred[c]]]
    <3>1. loc'[a].cred = c /\ loc'[a].l.items[c].rev = cred[c].rev
          BY <2>2 DEF TypeOK, RequestType
    <3>2. Unseen(c, cred[c].rev)' = {}
          BY <2>1, JustRead DEF Unseen, TypeOK, HostType, Doc
    <3> QED BY <2>1, <3>1, <3>2 DEF HoldersHaveSeen, Unseen
  <2>3. CASE UNCHANGED pc
    <3>1. pc'[a] # "save"
          BY <1>5, <2>3 DEF Get
    <3> QED BY <2>1, <3>1, QuietSteps
  <2> QED BY <1>5, <2>2, <2>3 DEF Get
<1>6. ASSUME NEW a \in Admins, Put(a) PROVE HoldersHaveSeen'
  <2>1. /\ pc[a] = "save" /\ pc'[a] = "apply" /\ UNCHANGED <<writer, byHand>> /\ loc[a].cred \in Creds
        /\ \A b \in Admins \ {a} : pc'[b] = pc[b] /\ loc'[b] = loc[b]
        BY <1>6, ItemsOfApplied DEF Put, TypeOK, RequestType, IsSaved
  <2>2. \A d \in Creds \ {loc[a].cred} : cred'[d] = cred[d]
        BY <1>6 DEF Put, Write, TypeOK, HostType
  <2>3. lock[loc[a].cred] = a
        BY <2>1 DEF TypeOK, Locks
  <2>4. \A b \in Admins \ {a} : pc[b] = "save" => loc[b].cred \in Creds \ {loc[a].cred}
        BY <2>1, <2>3, ItemsOfApplied DEF TypeOK, Locks, RequestType, IsSaved
  <2>5. writer # None => writer.cred \in Creds \ {loc[a].cred}
        BY <2>1, <2>3, Apart DEF TypeOK, HostType, Locks
  <2> QED BY <2>1, <2>2, <2>4, <2>5, HoldersStay
<1>7. ASSUME NEW c \in Creds, WriterRead(c) PROVE HoldersHaveSeen'
  <2>1. UNCHANGED <<cred, byHand, adminVars>> /\ writer' = [cred |-> c, read |-> cred[c]]
        BY <1>7 DEF WriterRead
  <2>2. Unseen(c, cred[c].rev)' = {}
        BY <2>1, JustRead DEF Unseen, TypeOK, HostType, Doc
  <2> QED BY <2>1, <2>2 DEF HoldersHaveSeen, Unseen, adminVars
<1>8. CASE WriterWrite
  <2>1. /\ writer # None /\ writer' = None /\ writer.cred \in Creds
        /\ UNCHANGED <<pc, loc, byHand>> /\ \A d \in Creds \ {writer.cred} : cred'[d] = cred[d]
        BY <1>8 DEF WriterWrite, Write, TypeOK, HostType, adminVars
  <2>2. \A b \in Admins : pc[b] = "save" => loc[b].cred \in Creds \ {writer.cred}
        BY <2>1, Apart, ItemsOfApplied DEF TypeOK, Locks, RequestType, IsSaved
  <2> QED BY <2>1, <2>2, HoldersStay
<1>9. ASSUME NEW c \in Creds, NEW url \in Urls \cup {None}, EditByHand(c, url) PROVE HoldersHaveSeen'
  <2>1. /\ UNCHANGED <<writer, pc, loc>> /\ cred'[c].rev = cred[c].rev + 1 /\ cred[c].rev \in Nat
        /\ byHand'[c] = byHand[c] \cup {cred[c].rev + 1}
        /\ \A d \in Creds \ {c} : cred'[d] = cred[d] /\ byHand'[d] = byHand[d]
        BY <1>9 DEF EditByHand, TypeOK, HostType, Doc, adminVars
  <2>2. ASSUME NEW d \in Creds, NEW rev \in Nat, Unseen(d, rev) \subseteq byHand[d]
        PROVE  ((rev + 1)..cred'[d].rev) \subseteq byHand'[d]
        BY <2>1, <2>2, OneMoreByHand DEF Unseen
  <2>3. \A a \in Admins : pc[a] = "save" =>
          loc[a].cred \in Creds /\ loc[a].l.items[loc[a].cred].rev \in Nat
        BY ItemsOfApplied DEF TypeOK, RequestType, IsSaved
  <2>4. writer # None => writer.cred \in Creds /\ writer.read.rev \in Nat
        BY DEF TypeOK, HostType, Doc
  <2> QED BY <2>1, <2>2, <2>3, <2>4 DEF HoldersHaveSeen, Unseen
<1>10. CASE UNCHANGED <<cred, writer, byHand, adminVars>>
       BY <1>10, HoldersStay DEF adminVars
<1>11. CASE Crash
       BY <1>11, HoldersStay DEF Crash
<1> QED BY <1>1, <1>2, <1>3, <1>4, <1>5, <1>6, <1>7, <1>8, <1>9, <1>10, <1>11
        DEF Next, Request, Answer, EditCatalog, Tick, vars, hostVars

\* Who writes documents, and who the catalog's history.
LEMMA WhoWrites ==
  ASSUME [Next]_vars
  PROVE  \/ \E a \in Admins : Put(a)
         \/ WriterWrite
         \/ \E c \in Creds, url \in Urls \cup {None} : EditByHand(c, url)
         \/ EditCatalog
         \/ UNCHANGED <<cred, moved, had>>
<1> USE DEF hostVars, catalogVars
<1>1. \A a \in Admins, asked \in Asked : Preview(a, asked) => UNCHANGED <<cred, moved, had>>
      BY DEF Preview
<1>2. \A a \in Admins : Inspect(a) \/ (\E c \in Creds : Read(a, c)) => UNCHANGED <<cred, moved, had>>
      BY DEF Read, Inspect
<1>3. \A a \in Admins : MakePlan(a) => UNCHANGED <<cred, moved, had>>
      BY DEF MakePlan
<1>4. \A a \in Admins, id \in 1..MaxPreviews : Apply(a, id) => UNCHANGED <<cred, moved, had>>
      BY DEF Apply
<1>5. \A a \in Admins, c \in Creds : Get(a, c) => UNCHANGED <<cred, moved, had>>
      BY DEF Get
<1>6. \A a \in Admins : Finish(a) => UNCHANGED <<cred, moved, had>>
      BY DEF Finish, Record, UpdateFallback
<1>7. \A c \in Creds : WriterRead(c) => UNCHANGED <<cred, moved, had>>
      BY DEF WriterRead
<1>8. Tick \/ UNCHANGED vars => UNCHANGED <<cred, moved, had>>
      BY DEF Tick, vars
<1>9. Crash => UNCHANGED <<cred, moved, had>>
      BY DEF Crash, Load, LoadUnreadable
<1> QED BY <1>1, <1>2, <1>3, <1>4, <1>5, <1>6, <1>7, <1>8, <1>9 DEF Next, Request, Answer

\* What a save loses is what its holder has not seen.
LEMMA LostByHand ==
  ASSUME TypeOK, HoldersHaveSeen, [Next]_vars, NEW c \in Creds, cred'[c] # cred[c]
  PROVE  /\ \A a \in Admins : pc[a] = "save" /\ pc'[a] = "apply" =>
              Unseen(c, loc[a].l.items[c].rev) \subseteq byHand[c]
         /\ writer # None /\ writer' = None => Unseen(c, writer.read.rev) \subseteq byHand[c]
<1>1. ASSUME NEW a \in Admins, Put(a)
      PROVE  /\ pc[a] = "save" /\ c = loc[a].cred /\ UNCHANGED writer
             /\ \A b \in Admins \ {a} : pc'[b] = pc[b]
      BY <1>1 DEF Put, Write, TypeOK, HostType, RequestType
<1>2. WriterWrite => UNCHANGED pc /\ writer # None /\ c = writer.cred
      BY DEF WriterWrite, Write, adminVars, TypeOK, HostType
<1>3. \A d \in Creds, url \in Urls \cup {None} : EditByHand(d, url) => UNCHANGED <<pc, writer>>
      BY DEF EditByHand, adminVars
<1>4. EditCatalog => UNCHANGED cred
      BY DEF EditCatalog, hostVars
<1> QED BY <1>1, <1>2, <1>3, <1>4, WhoWrites DEF HoldersHaveSeen

\* Whatever a save of the plugin replaces without having seen it, whether it carries out
\* a plan or disables a credential, was written by hand: no two writers of the plugin
\* overwrite each other, and none overwrites with a plan older than a write.
THEOREM PluginLosesNothing == Spec => OnlyEditsByHandAreLost
<1>1. Init => HoldersHaveSeen
      BY DEF Init, HoldersHaveSeen
<1>2. TypeOK /\ HoldersHaveSeen /\ [Next]_vars =>
        [\A c \in Creds : cred'[c] # cred[c] =>
           /\ \A a \in Admins : pc[a] = "save" /\ pc'[a] = "apply" =>
                Unseen(c, loc[a].l.items[c].rev) \subseteq byHand[c]
           /\ writer # None /\ writer' = None => Unseen(c, writer.read.rev) \subseteq byHand[c]]_vars
      BY LostByHand
<1> QED BY <1>1, <1>2, TypeCorrect, HoldersStep, PTL DEF Spec, OnlyEditsByHandAreLost

-----------------------------------------------------------------------------
(* What is marked was moved.                                               *)

\* A request or a plan that moves credentials away from a profile.
Leaves(fallback) == fallback # None /\ fallback.action = "activate"

\* A credential that still is what an item of a plan saw has an URL of the profile.
FromProfile(p, items) ==
  \A c \in DOMAIN items :
    /\ items[c].rev <= cred[c].rev
    /\ items[c].rev = cred[c].rev => <<p, cred[c].url>> \in had

WasMoved(p, c) == \E m \in moved : m.profile = p /\ m.cred = c /\ <<p, m.left>> \in had

\* What a request that carries out a plan knows of it.
Carries(l) ==
  Leaves(l.fallback) => /\ FromProfile(l.fallback.profile, l.items)
                        /\ \A c \in l.done : WasMoved(l.fallback.profile, c)

\* What a request that makes a plan has found out.
Found(items) ==
  \A c \in DOMAIN items :
    /\ items[c].rev <= cred[c].rev
    /\ items[c].from # None /\ items[c].rev = cred[c].rev => <<items[c].from, cred[c].url>> \in had

RequestKnows(a) ==
  /\ pc[a] = "inspect" => Found(loc[a].items)
  /\ pc[a] = "resolve" =>
       /\ Found(loc[a].l.items) /\ loc[a].read.rev <= cred[loc[a].cred].rev
       /\ loc[a].read.rev = cred[loc[a].cred].rev => loc[a].read.url = cred[loc[a].cred].url
  /\ pc[a] = "apply" => Carries(loc[a])
  /\ pc[a] = "save" =>
       /\ Carries(loc[a].l)
       /\ Leaves(loc[a].l.fallback) => <<loc[a].l.fallback.profile, loc[a].read.url>> \in had

PlanKnows(i) == Leaves(plans[i].fallback) => FromProfile(plans[i].fallback.profile, plans[i].items)

\* From the URL a preview saw to the mark in the catalog: whoever carries the profile's
\* name on knows that the credential had an URL of that profile.
Provenance ==
  /\ \A p \in DOMAIN catalog : <<p, catalog[p].url>> \in had
  /\ \A i \in DOMAIN plans : PlanKnows(i)
  /\ \A a \in Admins : RequestKnows(a)
  /\ MarkedWasMoved

\* The histories only grow, and a document that changes gets a new revision.
Grows ==
  /\ had \subseteq had' /\ moved \subseteq moved'
  /\ \A c \in Creds : cred'[c] = cred[c] \/ cred'[c].rev > cred[c].rev

LEMMA EveryStepGrows == TypeOK /\ [Next]_vars => Grows
<1> SUFFICES ASSUME TypeOK, [Next]_vars PROVE Grows
    OBVIOUS
<1>1. /\ cred \in [Creds -> Doc] /\ \A c \in Creds : cred[c].rev \in Nat
      BY DEF TypeOK, HostType, Doc
<1>2. \A c \in Creds, doc \in Doc : Write(c, doc) =>
        \A d \in Creds : cred'[d] = cred[d] \/ cred'[d].rev > cred[d].rev
      BY <1>1 DEF Write, Doc
<1>3. ASSUME NEW a \in Admins, Put(a) PROVE Grows
  <2>1. IsSaved(loc[a]) /\ loc[a].cred \in Creds /\ loc[a].l.items[loc[a].cred].url \in Urls \cup {None}
        BY <1>3, ItemsOfApplied DEF Put, TypeOK, RequestType, IsSaved
  <2>2. [loc[a].read EXCEPT !.url = loc[a].l.items[loc[a].cred].url] \in Doc
        BY <2>1 DEF IsSaved, Doc
  <2>3. UNCHANGED had /\ moved \subseteq moved'
        BY <1>3 DEF Put, Moves, catalogVars
  <2> QED BY <1>2, <1>3, <2>1, <2>2, <2>3 DEF Put, Grows
<1>4. ASSUME WriterWrite PROVE Grows
  <2>1. writer.cred \in Creds /\ [writer.read EXCEPT !.disabled = ~@] \in Doc
        BY <1>4 DEF WriterWrite, TypeOK, HostType, Doc
  <2> QED BY <1>2, <1>4, <2>1 DEF WriterWrite, Grows, catalogVars
<1>5. ASSUME NEW c \in Creds, NEW url \in Urls \cup {None}, EditByHand(c, url) PROVE Grows
      BY <1>1, <1>5 DEF EditByHand, Grows, catalogVars
<1>6. EditCatalog => Grows
      BY DEF EditCatalog, Save, Delete, hostVars, Grows
<1>7. UNCHANGED <<cred, moved, had>> => Grows
      BY DEF Grows
<1> QED BY <1>3, <1>4, <1>5, <1>6, <1>7, WhoWrites

\* What is known of an item is not forgotten.
LEMMA ItemStays ==
  ASSUME TypeOK, TypeOK', Grows, NEW p, NEW c \in Creds, NEW rev \in Nat, rev <= cred[c].rev
  PROVE  /\ rev <= cred'[c].rev
         /\ (rev = cred[c].rev => <<p, cred[c].url>> \in had)
            => (rev = cred'[c].rev => <<p, cred'[c].url>> \in had')
<1>1. cred[c].rev \in Nat /\ cred'[c].rev \in Nat
      BY DEF TypeOK, HostType, Doc
<1>2. cred'[c] = cred[c] \/ cred'[c].rev > cred[c].rev
      BY DEF Grows
<1>3. cred[c].rev <= cred'[c].rev /\ (cred'[c].rev = cred[c].rev => cred'[c] = cred[c])
  <2>1. CASE cred'[c] = cred[c]
        BY <1>1, <2>1
  <2>2. CASE cred'[c].rev > cred[c].rev
        BY <1>1, <2>2
  <2> QED BY <1>2, <2>1, <2>2
<1>4. rev <= cred'[c].rev /\ (rev = cred'[c].rev => rev = cred[c].rev)
      BY <1>1, <1>3
<1>5. rev = cred'[c].rev => cred'[c] = cred[c]
      BY <1>3, <1>4
<1>6. <<p, cred[c].url>> \in had => <<p, cred[c].url>> \in had'
      BY DEF Grows
<1> QED BY <1>4, <1>5, <1>6

\* What is known is not forgotten.
LEMMA KnowledgeStays ==
  ASSUME TypeOK, TypeOK', Provenance, Grows
  PROVE  /\ \A a \in Admins : pc'[a] = pc[a] /\ loc'[a] = loc[a] => RequestKnows(a)'
         /\ \A i \in DOMAIN plans : plans'[i] = plans[i] => PlanKnows(i)'
         /\ \A p, c : WasMoved(p, c) => WasMoved(p, c)'
<1>1. \A p, c : WasMoved(p, c) => WasMoved(p, c)'
      BY DEF WasMoved, Grows
<1>2. ASSUME NEW i \in DOMAIN plans, plans'[i] = plans[i] PROVE PlanKnows(i)'
  <2>1. PlanKnows(i) /\ \A c \in DOMAIN plans[i].items : c \in Creds /\ plans[i].items[c].rev \in Nat
        BY DEF Provenance, TypeOK, PlanType, IsPlan, Items, Item
  <2> QED BY <1>2, <2>1, ItemStays DEF PlanKnows, Leaves, FromProfile
<1>3. ASSUME NEW a \in Admins, pc'[a] = pc[a], loc'[a] = loc[a] PROVE RequestKnows(a)'
  <2>1. RequestKnows(a)
        BY DEF Provenance
  <2>2. CASE pc[a] = "inspect"
    <3>1. \A c \in DOMAIN loc[a].items : c \in Creds /\ loc[a].items[c].rev \in Nat
          BY <2>2 DEF TypeOK, RequestType, IsInspected, Asked
    <3> QED BY <1>3, <2>1, <2>2, <3>1, ItemStays DEF RequestKnows, Found
  <2>3. CASE pc[a] = "apply"
    <3>1. \A c \in DOMAIN loc[a].items : c \in Creds /\ loc[a].items[c].rev \in Nat
          BY <2>3, ItemsOfApplied DEF TypeOK, RequestType
    <3> QED BY <1>1, <1>3, <2>1, <2>3, <3>1, ItemStays DEF RequestKnows, Carries, Leaves, FromProfile
  <2>4. CASE pc[a] = "save"
    <3>1. \A c \in DOMAIN loc[a].l.items : c \in Creds /\ loc[a].l.items[c].rev \in Nat
          BY <2>4, ItemsOfApplied DEF TypeOK, RequestType, IsSaved
    <3> QED BY <1>1, <1>3, <2>1, <2>4, <3>1, ItemStays
            DEF RequestKnows, Carries, Leaves, FromProfile, Grows
  <2>5. CASE pc[a] = "resolve"
    <3>1. /\ \A c \in DOMAIN loc[a].l.items : c \in Creds /\ loc[a].l.items[c].rev \in Nat
          /\ loc[a].cred \in Creds /\ loc[a].read.rev \in Nat
          BY <2>5 DEF TypeOK, RequestType, IsRead, IsInspected, Asked, Doc
    <3>2. Found(loc[a].l.items) => Found(loc[a].l.items)'
          BY <1>3, <3>1, ItemStays DEF Found
    <3>3. \A c \in Creds : /\ cred[c].rev \in Nat /\ cred'[c].rev \in Nat
                           /\ cred'[c] = cred[c] \/ cred'[c].rev > cred[c].rev
          BY DEF TypeOK, HostType, Doc, Grows
    <3> QED BY <1>3, <2>1, <2>5, <3>1, <3>2, <3>3 DEF RequestKnows
  <2> QED BY <1>3, <2>2, <2>3, <2>4, <2>5 DEF RequestKnows, TypeOK, RequestType
<1> QED BY <1>1, <1>2, <1>3

\* What is known is passed on from the preview to the plan, to the request that carries it
\* out, and to the mark.
LEMMA ProvenanceStep == TypeOK /\ TypeOK' /\ Provenance /\ Grows /\ [Next]_vars => Provenance'
<1> SUFFICES ASSUME TypeOK, TypeOK', Provenance, Grows, [Next]_vars PROVE Provenance'
    OBVIOUS
<1> DEFINE Plans == \A i \in DOMAIN plans' : i \in DOMAIN plans /\ plans'[i] = plans[i]
           Urls1 == \A p \in DOMAIN catalog : <<p, catalog[p].url>> \in had
           Others(a) == \A b \in Admins \ {a} : pc'[b] = pc[b] /\ loc'[b] = loc[b]
<1>1. ASSUME UNCHANGED catalogVars PROVE Urls1' /\ MarkedWasMoved'
  <2>1. \A p \in DOMAIN catalog : \A c : c \in catalog[p].active => WasMoved(p, c)
        BY DEF Provenance, MarkedWasMoved, WasMoved
  <2>2. \A p \in DOMAIN catalog : \A c : c \in catalog[p].active => WasMoved(p, c)'
        BY <2>1, KnowledgeStays
  <2> QED BY <1>1, <2>2 DEF catalogVars, Provenance, MarkedWasMoved, WasMoved
<1>2. ASSUME NEW a \in Admins, UNCHANGED catalogVars, Plans, Others(a), RequestKnows(a)'
      PROVE  Provenance'
      BY <1>1, <1>2, KnowledgeStays DEF Provenance
<1>3. ASSUME NEW a \in Admins, NEW asked \in Asked, Preview(a, asked) PROVE Provenance'
  <2>1. pc'[a] = "inspect" /\ loc'[a].items = Empty /\ Others(a) /\ UNCHANGED <<catalogVars, plans>>
        BY <1>3 DEF Preview, TypeOK, RequestType
  <2>2. RequestKnows(a)'
        BY <2>1 DEF RequestKnows, Found, Empty
  <2> QED BY <1>2, <2>1, <2>2
<1>4. ASSUME NEW a \in Admins, NEW c \in Creds, Read(a, c) PROVE Provenance'
  <2>1. /\ pc[a] = "inspect" /\ Others(a) /\ UNCHANGED <<catalogVars, plans, cred>>
        /\ Found(loc[a].items) /\ cred[c].rev \in Nat
        BY <1>4, ReadForms DEF Read, TypeOK, HostType, Doc, hostVars, planVars, Provenance, RequestKnows
  <2>2. \/ pc'[a] = "resolve" /\ loc'[a].l.items = loc[a].items /\ loc'[a].cred = c /\ loc'[a].read = cred[c]
        \/ pc'[a] = "inspect" /\ loc'[a].items = loc[a].items
    <3>1. Less(loc[a], c).items = loc[a].items
          BY DEF Less
    <3>2. \/ /\ pc'[a] = "resolve" /\ loc'[a].l = Less(loc[a], c)
             /\ loc'[a].cred = c /\ loc'[a].read = cred[c]
          \/ pc'[a] = "inspect" /\ loc'[a] = Less(loc[a], c)
      <4>1. CASE loc'[a] = [l |-> Less(loc[a], c), cred |-> c, read |-> cred[c]]
            BY <1>4, <4>1, ReadForms
      <4> QED BY <1>4, <4>1, ReadForms
    <3> QED BY <3>1, <3>2
  <2>3. RequestKnows(a)'
        BY <2>1, <2>2 DEF RequestKnows, Found, catalogVars
  <2> QED BY <1>2, <2>1, <2>3
<1>14. ASSUME NEW a \in Admins, Inspect(a) PROVE Provenance'
  <2> DEFINE c == loc[a].cred
             read == loc[a].read
             items == loc[a].l.items
  <2>1. /\ pc'[a] = "inspect" /\ Others(a) /\ UNCHANGED <<catalogVars, plans, cred>>
        /\ Found(items) /\ read.rev <= cred[c].rev
        /\ read.rev = cred[c].rev => read.url = cred[c].url
        BY <1>14, InspectForms DEF Inspect, hostVars, planVars, Provenance, RequestKnows
  <2>2. ASSUME NEW p \in From(a), loc'[a].items = Extended(items, c, Seen(a, p))
        PROVE  Found(loc[a].items)'
    <3>1. p # None => <<p, read.url>> \in had
          BY DEF From, Matches, Provenance
    <3>2. /\ DOMAIN loc'[a].items = DOMAIN items \cup {c}
          /\ \A d \in DOMAIN loc'[a].items : loc'[a].items[d] = IF d = c THEN Seen(a, p) ELSE items[d]
          BY <2>2 DEF Extended
    <3>3. Seen(a, p).from = p /\ Seen(a, p).rev = read.rev
          BY DEF Seen
    <3>4. ASSUME NEW d \in DOMAIN loc'[a].items
          PROVE  /\ loc'[a].items[d].rev <= cred'[d].rev
                 /\ loc'[a].items[d].from # None /\ loc'[a].items[d].rev = cred'[d].rev
                      => <<loc'[a].items[d].from, cred'[d].url>> \in had'
      <4>1. cred'[d] = cred[d] /\ had' = had
            BY <2>1 DEF catalogVars
      <4>2. CASE d = c
        <5>1. loc'[a].items[d] = Seen(a, p)
              BY <3>2, <4>2
        <5> HIDE DEF c, read, items
        <5> QED BY <2>1, <3>1, <3>3, <4>1, <4>2, <5>1
      <4>3. CASE d # c
        <5>1. d \in DOMAIN items /\ loc'[a].items[d] = items[d]
              BY <3>2, <4>3
        <5> HIDE DEF c, read, items
        <5> QED BY <2>1, <4>1, <5>1 DEF Found
      <4> QED BY <4>2, <4>3
    <3> QED BY <3>4 DEF Found
  <2>3. loc'[a].items = items => Found(loc[a].items)'
    <3> HIDE DEF items
    <3> QED BY <2>1 DEF Found, catalogVars
  <2>4. RequestKnows(a)'
        BY <1>14, <2>1, <2>2, <2>3, InspectForms DEF RequestKnows
  <2> QED BY <1>2, <2>1, <2>4
<1>5. ASSUME NEW a \in Admins, MakePlan(a) PROVE Provenance'
  <2> DEFINE id == loc[a].id
             asked == loc[a].asked
             items == loc[a].items
             ofPlan == [c \in DOMAIN items |-> [url |-> items[c].url, rev |-> items[c].rev]]
             plan == [expires |-> now + Lifetime, fallback |-> asked.fallback, items |-> ofPlan]
  <2>1. /\ pc'[a] = "idle" /\ Others(a) /\ UNCHANGED <<catalogVars, cred>> /\ Found(items)
        /\ asked.fallback \in Fallbacks \cup {None}
        BY <1>5 DEF MakePlan, Idle, TypeOK, RequestType, IsInspected, Asked, Provenance, RequestKnows,
                    hostVars
  <2>2. RequestKnows(a)'
        BY <2>1 DEF RequestKnows
  <2>3. CASE UNCHANGED plans
        BY <1>2, <2>1, <2>2, <2>3
  <2>4. CASE \E kept \in Prunings : /\ Makes(asked, items)
                                    /\ plans' = [i \in kept \cup {id} |-> IF i = id THEN plan ELSE plans[i]]
    <3>1. PICK kept \in Prunings :
            /\ Makes(asked, items)
            /\ plans' = [i \in kept \cup {id} |-> IF i = id THEN plan ELSE plans[i]]
          BY <2>4
    <3>2. \A i \in DOMAIN plans' \ {id} : i \in DOMAIN plans /\ plans'[i] = plans[i]
          BY <3>1 DEF Prunings
    <3>3. Leaves(asked.fallback) => /\ asked.fallback.profile # None
                                    /\ \A c \in DOMAIN items : items[c].from = asked.fallback.profile
          BY <2>1, <3>1, Apart DEF Leaves, Makes, FitsFallback, Fallbacks
    <3>4. Leaves(asked.fallback) => FromProfile(asked.fallback.profile, ofPlan)
          BY <2>1, <3>3 DEF Found, FromProfile
    <3>5. ASSUME NEW i \in DOMAIN plans', i = id PROVE PlanKnows(i)'
      <4>1. plans'[i].fallback = asked.fallback /\ plans'[i].items = ofPlan
            BY <3>1, <3>5
      <4> HIDE DEF ofPlan, asked
      <4> QED BY <2>1, <3>4, <4>1 DEF PlanKnows, Leaves, FromProfile, catalogVars
    <3>6. \A i \in DOMAIN plans' : i # id => PlanKnows(i)'
          BY <3>2, KnowledgeStays
    <3>7. \A i \in DOMAIN plans' : PlanKnows(i)'
          BY <3>5, <3>6
    <3> QED BY <1>1, <2>1, <2>2, <3>7, KnowledgeStays DEF Provenance
  <2> QED BY <1>5, <2>3, <2>4 DEF MakePlan
<1>6. ASSUME NEW a \in Admins, NEW id \in 1..MaxPreviews, Apply(a, id) PROVE Provenance'
  <2>1. PICK kept \in Prunings :
          /\ plans' = [i \in kept \ {id} |-> plans[i]]
          /\ \/ id \in kept /\ pc' = [pc EXCEPT ![a] = "apply"] /\ loc' = [loc EXCEPT ![a] = Taken(id)]
             \/ UNCHANGED adminVars
        BY <1>6 DEF Apply
  <2>2. kept \subseteq DOMAIN plans /\ UNCHANGED <<catalogVars, cred>> /\ Others(a)
        BY <1>6, <2>1 DEF Apply, Prunings, hostVars, adminVars, TypeOK, RequestType
  <2>3. Plans
        BY <2>1, <2>2
  <2>4. CASE UNCHANGED adminVars
        BY <1>2, <2>2, <2>3, <2>4, KnowledgeStays DEF adminVars
  <2>5. CASE id \in kept /\ pc' = [pc EXCEPT ![a] = "apply"] /\ loc' = [loc EXCEPT ![a] = Taken(id)]
    <3>1. /\ pc'[a] = "apply" /\ loc'[a].fallback = plans[id].fallback
          /\ loc'[a].items = plans[id].items /\ loc'[a].done = {}
          BY <2>5 DEF TypeOK, RequestType, Taken
    <3>2. PlanKnows(id)
          BY <2>2, <2>5 DEF Provenance
    <3>3. RequestKnows(a)'
          BY <2>2, <3>1, <3>2 DEF RequestKnows, Carries, PlanKnows, Leaves, FromProfile, catalogVars
    <3> QED BY <1>2, <2>2, <2>3, <3>3
  <2> QED BY <2>1, <2>4, <2>5
<1>7. ASSUME NEW a \in Admins, NEW c \in Creds, Get(a, c) PROVE Provenance'
  <2>1. /\ pc[a] = "apply" /\ Others(a) /\ UNCHANGED <<catalogVars, plans, cred, moved>>
        /\ IsApplied(loc[a]) /\ Carries(loc[a]) /\ c \in DOMAIN loc[a].items
        BY <1>7 DEF Get, TypeOK, RequestType, planVars, Provenance, RequestKnows
  <2>2. CASE /\ cred[c].rev = loc[a].items[c].rev /\ pc' = [pc EXCEPT ![a] = "save"]
             /\ loc' = [loc EXCEPT ![a] = [l |-> loc[a], cred |-> c, read |-> cred[c]]]
    <3>1. pc'[a] = "save" /\ loc'[a].l = loc[a] /\ loc'[a].read = cred[c]
          BY <2>2 DEF TypeOK, RequestType
    <3>2. Carries(loc[a].l)'
      <4>1. \A p : FromProfile(p, loc[a].items) => FromProfile(p, loc[a].l.items)'
            BY <2>1, <3>1 DEF FromProfile, catalogVars
      <4>2. \A p, d : WasMoved(p, d) => WasMoved(p, d)'
            BY KnowledgeStays
      <4>3. loc'[a].l.fallback = loc[a].fallback /\ loc'[a].l.done = loc[a].done
            BY <3>1
      <4> QED BY <2>1, <4>1, <4>2, <4>3 DEF Carries, Leaves
    <3>3. Leaves(loc[a].fallback) => <<loc[a].fallback.profile, cred[c].url>> \in had
          BY <2>1, <2>2 DEF Carries, FromProfile
    <3>4. RequestKnows(a)'
          BY <2>1, <3>1, <3>2, <3>3 DEF RequestKnows, Leaves, catalogVars
    <3> QED BY <1>2, <2>1, <3>4
  <2>3. CASE loc' = [loc EXCEPT ![a] = Without(@, c)] /\ UNCHANGED pc
    <3>1. /\ pc'[a] = "apply" /\ loc'[a].fallback = loc[a].fallback /\ loc'[a].done = loc[a].done
          /\ loc'[a].items = [d \in DOMAIN loc[a].items \ {c} |-> loc[a].items[d]]
      <4>1. pc'[a] = "apply" /\ loc'[a] = Without(loc[a], c)
            BY <2>1, <2>3 DEF TypeOK, RequestType
      <4>2. Without(loc[a], c) = [id |-> loc[a].id, fallback |-> loc[a].fallback, done |-> loc[a].done,
                                  items |-> [d \in DOMAIN loc[a].items \ {c} |-> loc[a].items[d]]]
            BY <2>1, WithoutIsApplied
      <4> QED BY <4>1, <4>2
    <3>2. RequestKnows(a)'
          BY <2>1, <3>1 DEF RequestKnows, Carries, Leaves, FromProfile, WasMoved, catalogVars
    <3> QED BY <1>2, <2>1, <3>2
  <2> QED BY <1>7, <2>2, <2>3 DEF Get
<1>8. ASSUME NEW a \in Admins, Put(a) PROVE Provenance'
  <2> DEFINE c == loc[a].cred
             l == loc[a].l
             less == Without(l, c)
  <2>1. /\ pc[a] = "save" /\ pc'[a] = "apply" /\ Others(a) /\ UNCHANGED <<catalogVars, plans>>
        /\ IsApplied(l) /\ c \in DOMAIN l.items /\ Carries(l)
        /\ Leaves(l.fallback) => <<l.fallback.profile, loc[a].read.url>> \in had
        BY <1>8 DEF Put, TypeOK, RequestType, IsSaved, planVars, Provenance, RequestKnows
  <2>2. less = [id |-> l.id, fallback |-> l.fallback, done |-> l.done,
                items |-> [d \in DOMAIN l.items \ {c} |-> l.items[d]]]
        BY <2>1, WithoutIsApplied
  <2>3. /\ loc'[a].fallback = l.fallback
        /\ loc'[a].items = [d \in DOMAIN l.items \ {c} |-> l.items[d]]
        /\ \/ loc'[a].done = l.done
           \/ loc'[a].done = l.done \cup {c} /\ Moves(l, c, loc[a].read.url)
    <3>1. \/ loc'[a] = less
          \/ loc'[a] = [less EXCEPT !.done = @ \cup {c}] /\ Moves(l, c, loc[a].read.url)
      <4> HIDE DEF less
      <4> QED BY <1>8 DEF less, Put, TypeOK, RequestType
    <3> HIDE DEF less, l, c
    <3> QED BY <2>2, <3>1
  <2>4. ASSUME Leaves(l.fallback), Moves(l, c, loc[a].read.url), NEW p, p = l.fallback.profile, NEW d, d = c
        PROVE  WasMoved(p, d)'
    <3> DEFINE m == [profile |-> p, cred |-> d, left |-> loc[a].read.url]
    <3>1. m \in moved'
          BY <2>4 DEF Moves, Leaves
    <3>2. m.profile = p /\ m.cred = d /\ <<p, m.left>> \in had'
          BY <2>1, <2>4 DEF catalogVars
    <3> QED BY <3>1, <3>2 DEF WasMoved
  <2>5. \A d \in DOMAIN l.items : d \in Creds /\ l.items[d].rev \in Nat
        BY <2>1, ItemsOfApplied
  <2>6. ASSUME Leaves(l.fallback)
        PROVE  /\ FromProfile(loc[a].fallback.profile, loc[a].items)'
               /\ \A d \in loc'[a].done : WasMoved(loc[a].fallback.profile, d)'
    <3>1. FromProfile(l.fallback.profile, l.items) /\ \A d \in l.done : WasMoved(l.fallback.profile, d)
          BY <2>1, <2>6 DEF Carries
    <3>2. PICK p, d : p = l.fallback.profile /\ d = c
          OBVIOUS
    <3>3. FromProfile(loc[a].fallback.profile, loc[a].items)'
      <4> HIDE DEF l, c
      <4> QED BY <2>3, <2>5, <3>1, ItemStays DEF FromProfile
    <3>4. \A e \in loc'[a].done : WasMoved(p, e)'
      <4>1. \A e \in l.done : WasMoved(p, e)
            BY <3>1, <3>2
      <4>2. \A e \in l.done : WasMoved(p, e)'
            BY <4>1, KnowledgeStays
      <4>3. Moves(l, c, loc[a].read.url) => WasMoved(p, d)'
            BY <2>4, <2>6, <3>2
      <4> HIDE DEF l, c
      <4> QED BY <2>3, <3>2, <4>2, <4>3
    <3>5. loc'[a].fallback.profile = p
          BY <2>3, <3>2
    <3> QED BY <3>3, <3>4, <3>5 DEF WasMoved
  <2>7. RequestKnows(a)'
        BY <2>1, <2>3, <2>6 DEF RequestKnows, Carries, Leaves
  <2> QED BY <1>2, <2>1, <2>7
<1>9. ASSUME NEW a \in Admins, Finish(a) PROVE Provenance'
  <2>1. /\ pc[a] = "apply" /\ pc'[a] = "idle" /\ Others(a) /\ UNCHANGED <<plans, moved>>
        /\ loc[a].fallback \in Fallbacks \cup {None} /\ Carries(loc[a])
        BY <1>9 DEF Finish, Idle, TypeOK, RequestType, IsApplied, planVars, hostVars, Provenance,
                    RequestKnows
  <2>2. RequestKnows(a)'
        BY <2>1 DEF RequestKnows
  <2>3. CASE UNCHANGED catalogVars
        BY <1>2, <2>1, <2>2, <2>3
  <2>4. CASE Record(loc[a]) /\ loc[a].fallback # None
    <3>1. UNCHANGED had
          BY <2>4 DEF Record, UpdateFallback
    <3>2. CASE UNCHANGED catalog
          BY <1>2, <2>1, <2>2, <3>1, <3>2 DEF catalogVars
    <3>3. ASSUME NEW p, p = loc[a].fallback.profile, p \in DOMAIN catalog,
                 \/ catalog' = Marked(p, loc[a].done) /\ Leaves(loc[a].fallback)
                 \/ catalog' = Cleared(p, loc[a].done)
          PROVE  Provenance'
      <4>1. \A q \in DOMAIN catalog : \A c \in catalog[q].active : WasMoved(q, c)
            BY DEF Provenance, MarkedWasMoved, WasMoved
      <4>2. Leaves(loc[a].fallback) => \A c \in loc[a].done : WasMoved(p, c)
            BY <2>1, <3>3 DEF Carries
      <4>3. \A q \in DOMAIN catalog' : /\ q \in DOMAIN catalog /\ catalog'[q].url = catalog[q].url
                                       /\ \A c \in catalog'[q].active : WasMoved(q, c)
        <5>1. CASE catalog' = Marked(p, loc[a].done) /\ Leaves(loc[a].fallback)
              BY <3>3, <4>1, <4>2, <5>1 DEF Marked, TypeOK, CatalogType, Profile
        <5>2. CASE catalog' = Cleared(p, loc[a].done)
              BY <3>3, <4>1, <5>2 DEF Cleared, TypeOK, CatalogType, Profile
        <5> QED BY <3>3, <5>1, <5>2
      <4>4. \A q \in DOMAIN catalog' : \A c \in catalog'[q].active : WasMoved(q, c)'
            BY <4>3, KnowledgeStays
      <4>5. Urls1' /\ MarkedWasMoved'
            BY <3>1, <4>3, <4>4 DEF Provenance, MarkedWasMoved, WasMoved
      <4> QED BY <2>1, <2>2, <4>5, KnowledgeStays DEF Provenance
    <3> QED BY <2>4, <3>2, <3>3 DEF Record, UpdateFallback, CanUpdateFallback, Leaves
  <2> QED BY <1>9, <2>3, <2>4 DEF Finish
<1>10. ASSUME UNCHANGED adminVars, Plans, Urls1', MarkedWasMoved' PROVE Provenance'
       BY <1>10, KnowledgeStays DEF Provenance, adminVars
<1>11. CASE EditCatalog
  <2>1. \A q \in DOMAIN catalog : \A c \in catalog[q].active : WasMoved(q, c)
        BY DEF Provenance, MarkedWasMoved, WasMoved
  <2>2. \A q \in DOMAIN catalog' : /\ <<q, catalog'[q].url>> \in had'
                                   /\ \A c \in catalog'[q].active : q \in DOMAIN catalog /\ c \in catalog[q].active
    <3>1. ASSUME NEW p \in Names, NEW url \in Urls, NEW mode \in ModesOfFallback,
                 NEW backup \in Names \cup {None}, Save(p, url, mode, backup)
          PROVE  \A q \in DOMAIN catalog' : /\ <<q, catalog'[q].url>> \in had'
                                            /\ \A c \in catalog'[q].active : q \in DOMAIN catalog /\ c \in catalog[q].active
          BY <3>1 DEF Save, With, Extended, Provenance
    <3>2. ASSUME NEW p \in Names, Delete(p)
          PROVE  \A q \in DOMAIN catalog' : /\ <<q, catalog'[q].url>> \in had'
                                            /\ \A c \in catalog'[q].active : q \in DOMAIN catalog /\ c \in catalog[q].active
          BY <3>2 DEF Delete, Provenance
    <3> QED BY <1>11, <3>1, <3>2 DEF EditCatalog
  <2>3. \A q \in DOMAIN catalog' : \A c \in catalog'[q].active : WasMoved(q, c)'
        BY <2>1, <2>2, KnowledgeStays
  <2>4. Urls1' /\ MarkedWasMoved'
        BY <2>2, <2>3 DEF MarkedWasMoved, WasMoved
  <2> QED BY <1>10, <1>11, <2>4 DEF EditCatalog, planVars
<1>12. CASE UNCHANGED <<catalogVars, plans, adminVars>>
       BY <1>1, <1>10, <1>12
<1>13. CASE Crash
  <2>1. catalog' = catalog \/ DOMAIN catalog' = {}
        BY <1>13 DEF Crash, Load, LoadUnreadable, Empty
  <2>2. UNCHANGED <<had, cred, moved>> /\ DOMAIN plans' = {} /\ \A a \in Admins : pc'[a] = "idle"
        BY <1>13 DEF Crash, Load, LoadUnreadable
  <2>3. Urls1' /\ MarkedWasMoved'
        BY <2>1, <2>2 DEF Provenance, MarkedWasMoved
  <2> QED BY <2>2, <2>3 DEF Provenance, RequestKnows
<1> QED BY <1>3, <1>4, <1>5, <1>6, <1>7, <1>8, <1>9, <1>11, <1>12, <1>13, <1>14
        DEF Next, Request, Answer, WriterRead, WriterWrite, EditByHand, Tick, vars, planVars

\* A credential is marked as away from a profile only after a fallback of that profile
\* has moved it from an URL the profile had.
THEOREM MarksAreTrue == Spec => []MarkedWasMoved
<1>1. Init => Provenance
  <2> SUFFICES ASSUME Init PROVE Provenance
      OBVIOUS
  <2>1. \A p \in DOMAIN catalog : catalog[p].active = {}
        BY ProxyPlansAssumption DEF Init
  <2> QED BY <2>1 DEF Init, Provenance, MarkedWasMoved, PlanKnows, RequestKnows
<1>2. TypeOK /\ TypeOK' /\ Provenance /\ [Next]_vars => Provenance'
      BY EveryStepGrows, ProvenanceStep
<1>3. Provenance => MarkedWasMoved
      BY DEF Provenance
<1> QED BY <1>1, <1>2, <1>3, TypeCorrect, PTL DEF Spec

=============================================================================
