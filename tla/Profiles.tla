------------------------------- MODULE Profiles -------------------------------
(***************************************************************************)
(* The catalog of proxy profiles: what a profile may be, how a profile is  *)
(* saved and deleted, how a fallback is marked and cleared, and what is    *)
(* loaded when the plugin starts.                                          *)
(*                                                                         *)
(* Every operation holds the store's mutex from its checks to the end of   *)
(* its write, and a write is all or nothing (the write is that of          *)
(* StateStore), so an operation is one step; one that is refused, or whose *)
(* write fails, changes nothing.                                           *)
(***************************************************************************)
EXTENDS Naturals, FiniteSets

CONSTANTS
  Names,        \* the profiles' identifiers
  Urls,         \* canonical proxy URLs
  Creds,        \* the credentials' indexes
  None,
  MaxProfiles   \* bound of the code: the profiles of a catalog, and a profile's active credentials

ASSUME ProfilesAssumption ==
  /\ None \notin Names \cup Urls \cup Creds
  /\ MaxProfiles \in Nat \ {0}

VARIABLES
  catalog,   \* a function from the names in use to profiles
  had        \* history: the URLs that the profiles have ever had

ModesOfFallback == {"none", "direct", "profile"}

\* The credentials of an active fallback; a fallback is active when there are any.
Profile == [url : Urls, mode : ModesOfFallback, backup : Names \cup {None}, active : SUBSET Creds]

Empty == [p \in {} |-> None]

\* A map after m[k] = v.
Extended(m, k, v) == [x \in DOMAIN m \cup {k} |-> IF x = k THEN v ELSE m[x]]

-----------------------------------------------------------------------------
(* What a catalog must satisfy: validateFallbackFields and the graph.      *)

ValidFields(p, profile) ==
  /\ IF profile.mode = "profile" THEN profile.backup \in Names \ {p} ELSE profile.backup = None
  /\ profile.active # {} => profile.mode # "none"
  /\ Cardinality(profile.active) <= MaxProfiles

\* The depth first search of the code: from p, along the backups, for at most as many
\* steps as there are profiles.
Next1(cat, p) == IF p # None /\ cat[p].mode = "profile" THEN cat[p].backup ELSE None

Walk(cat, p) ==
  LET at[n \in 0..Cardinality(DOMAIN cat)] == IF n = 0 THEN p ELSE Next1(cat, at[n - 1])
  IN  at

After(cat, p) == Walk(cat, p)[Cardinality(DOMAIN cat)]

\* Mutant: cycles of fallbacks are not looked for.
ValidGraphShallow(cat) ==
  \A p \in DOMAIN cat :
    /\ ValidFields(p, cat[p])
    /\ cat[p].mode = "profile" => cat[p].backup \in DOMAIN cat

ValidGraph(cat) ==
  /\ \A p \in DOMAIN cat :
       /\ ValidFields(p, cat[p])
       /\ cat[p].mode = "profile" => cat[p].backup \in DOMAIN cat
  /\ \A p \in DOMAIN cat : After(cat, p) = None

\* What load accepts.
Loadable(cat) == Cardinality(DOMAIN cat) <= MaxProfiles /\ ValidGraph(cat)

-----------------------------------------------------------------------------
(* The operations.                                                         *)

\* A new profile gets a name of its own: none that was ever used.
Spent == {h[1] : h \in had}

With(p, profile) == Extended(catalog, p, profile)

\* A URL that is left out is kept, and so are the fallback fields.
Save(p, url, mode, backup) ==
  LET new == p \notin DOMAIN catalog
      profile == [url |-> url, mode |-> mode, backup |-> backup,
                  active |-> IF new THEN {} ELSE catalog[p].active]
  IN  /\ IF new THEN p \notin Spent /\ Cardinality(DOMAIN catalog) < MaxProfiles
         ELSE catalog[p].active # {} => mode = catalog[p].mode /\ backup = catalog[p].backup
      /\ ValidGraph(With(p, profile))
      /\ catalog' = With(p, profile)
      /\ had' = had \cup {<<p, url>>}

Delete(p) ==
  /\ p \in DOMAIN catalog
  /\ catalog[p].active = {}
  /\ \A q \in DOMAIN catalog \ {p} : catalog[q].mode = "profile" => catalog[q].backup # p
  /\ catalog' = [q \in DOMAIN catalog \ {p} |-> catalog[q]]
  /\ UNCHANGED had

\* MarkFallback and ClearFallback; what they refuse leaves the catalog as it is.
Marked(p, creds)  == [catalog EXCEPT ![p].active = @ \cup creds]
Cleared(p, creds) == [catalog EXCEPT ![p].active = @ \ creds]

\* Mutant: what the profile has become since the preview is not looked at.
CanUpdateFallbackStill(p, next) == p \in DOMAIN catalog

CanUpdateFallback(p, next) ==
  p \in DOMAIN catalog /\ catalog[p].mode # "none" /\ ValidGraph(next)

UpdateFallback(p, next) ==
  /\ catalog' = IF CanUpdateFallback(p, next) THEN next ELSE catalog
  /\ UNCHANGED had

\* A catalog that cannot be read, or does not satisfy the checks, is set aside and an
\* empty one takes its place.
Load ==
  /\ catalog' = IF Loadable(catalog) THEN catalog ELSE Empty
  /\ UNCHANGED had

LoadUnreadable == catalog' = Empty /\ UNCHANGED had

\* The profiles a proxy URL may be taken for: with several, the order of a map decides.
Matches(url) ==
  LET same == {p \in DOMAIN catalog : catalog[p].url = url}
  IN  IF same = {} THEN {None} ELSE same

-----------------------------------------------------------------------------
(* What must hold of a catalog.                                            *)

CatalogType ==
  /\ DOMAIN catalog \subseteq Spent /\ had \subseteq Names \X Urls
  /\ \A p \in DOMAIN catalog : catalog[p] \in Profile

\* No fallback leads back to where it came from, and none leads nowhere: in every set of
\* profiles there is one whose fallback, if it is a profile, is outside the set but in
\* the catalog.
FallbacksEnd ==
  /\ \A p \in DOMAIN catalog : catalog[p].mode = "profile" => catalog[p].backup \in DOMAIN catalog
  /\ \A S \in SUBSET DOMAIN catalog :
       S # {} => \E p \in S : catalog[p].mode # "profile" \/ catalog[p].backup \notin S

\* Whatever the operations write, the next start accepts: no catalog of the plugin's own
\* making is set aside.
CatalogLoads == Loadable(catalog)

=============================================================================
