----------------------------- MODULE QuotaProofs -----------------------------
(***************************************************************************)
(* Proofs about Quota, for every answer: any number of calls, any numbers  *)
(* and times in them, and any bounds.                                      *)
(*                                                                         *)
(* An outcome is one of what Classify or ParseResponse returns for the     *)
(* call; what the properties say of an outcome is a fact about these       *)
(* operators, which the lemmas below build up from the times, the windows  *)
(* of an answer, and the inventory.                                        *)
(***************************************************************************)
EXTENDS Quota, FiniteSetTheorems, TLAPS

-----------------------------------------------------------------------------
(* Times.                                                                  *)

\* A set of times that are not too far away has a latest one.
LEMMA SomeIsLatest ==
  ASSUME NEW ts \in SUBSET (1..MaxFuture), ts # {}
  PROVE  \E t \in ts : \A u \in ts : u <= t
<1> DEFINE less == OpToRel(<, Nat)
           Ahead == {MaxFuture - t : t \in ts}
<1>1. MaxFuture \in Nat
      BY QuotaAssumption
<1>2. Ahead \subseteq Nat /\ Ahead # {}
  <2>1. \A t \in ts : t \in 1..MaxFuture /\ MaxFuture - t \in Nat
        BY <1>1
  <2> QED BY <2>1
<1>3. \E x \in Ahead : \A y \in Ahead : <<y, x>> \notin less
  <2> HIDE DEF less, Ahead
  <2>1. IsWellFoundedOn(less, Nat)
        BY NatLessThanWellFounded DEF less
  <2> QED BY <1>2, <2>1, WFMin
<1>4. \A x, y \in Nat : y < x => <<y, x>> \in less
      BY DEF OpToRel
<1> HIDE DEF less
<1>5. PICK x \in Ahead : \A y \in Ahead : ~(y < x)
      BY <1>2, <1>3, <1>4
<1>6. PICK t \in ts : x = MaxFuture - t
      BY <1>5
<1>7. \A u \in ts : ~(MaxFuture - u < MaxFuture - t)
      BY <1>5, <1>6
<1> QED BY <1>1, <1>7

\* What is usable of some times, and the latest of it.
LEMMA LatestUsable ==
  ASSUME NEW ts \in SUBSET Times
  PROVE  /\ Usable(ts) \subseteq 1..MaxFuture /\ Usable(ts) \subseteq ts \ {None}
         /\ Usable(ts) = {} => Latest(Usable(ts)) = None
         /\ Usable(ts) # {} => /\ Latest(Usable(ts)) \in Usable(ts)
                               /\ \A u \in Usable(ts) : u <= Latest(Usable(ts))
         /\ Latest(Usable(ts)) # None => Usable(ts) # {}
         /\ Latest(Usable(ts)) \in Resets
<1>1. /\ Usable(ts) \subseteq 1..MaxFuture /\ Usable(ts) \subseteq ts \ {None}
  <2>1. MaxFuture \in Nat
        BY QuotaAssumption
  <2>2. \A t \in ts \ {None} : t \in Int
        BY DEF Times
  <2> QED BY <2>1, <2>2 DEF Usable, ValidReset
<1>2. Usable(ts) = {} => Latest(Usable(ts)) = None
      BY DEF Latest
<1>3. ASSUME Usable(ts) # {}
      PROVE  /\ Latest(Usable(ts)) \in Usable(ts)
             /\ \A u \in Usable(ts) : u <= Latest(Usable(ts))
  <2>1. \E t \in Usable(ts) : \A u \in Usable(ts) : u <= t
        BY <1>1, <1>3, SomeIsLatest
  <2> QED BY <1>3, <2>1 DEF Latest
<1> QED BY <1>1, <1>2, <1>3 DEF Resets

\* One time is usable when it is ahead, and not too far.
LEMMA OneUsable ==
  ASSUME NEW t \in Times
  PROVE  /\ Usable({t}) # {} <=> t # None /\ ValidReset(t)
         /\ Usable({t}) # {} => Usable({t}) = {t} /\ t \in 1..MaxFuture
         /\ Latest(Usable({t})) = IF Usable({t}) # {} THEN t ELSE None
         /\ Latest(Usable({t})) \in {t, None} \cap Resets
<1>1. Usable({t}) = IF t # None /\ ValidReset(t) THEN {t} ELSE {}
      BY DEF Usable
<1>2. {t} \in SUBSET Times
      OBVIOUS
<1>3. /\ Latest(Usable({t})) \in Resets /\ Usable({t}) \subseteq 1..MaxFuture
      /\ Usable({t}) = {} => Latest(Usable({t})) = None
      /\ Usable({t}) # {} => Latest(Usable({t})) \in Usable({t})
      BY <1>2, LatestUsable
<1> QED BY <1>1, <1>3

-----------------------------------------------------------------------------
(* The calls.                                                              *)

\* A document is a tree of objects.
IsDoc(doc) ==
  \A n \in DOMAIN doc : doc[n] \in Objects /\ n \in Paths /\ (n # "root" => Parent[n] \in DOMAIN doc)

LEMMA Calls ==
  ASSUME NEW in \in Inputs
  PROVE  /\ in.doc # None => IsDoc(in.doc)
         /\ DOMAIN in.families \subseteq Families
         /\ \A f \in DOMAIN in.families : in.families[f] \in OfHeaders
         /\ in.more \subseteq Int /\ in.retry \subseteq Int
BY QuotaAssumption DEF IsDoc

\* The places above a place.
LEMMA Tree ==
  /\ Paths = {"root", "error", "rate_limit", "primary_window", "secondary_window"}
  /\ Parent["error"] = "root" /\ Parent["rate_limit"] = "root"
  /\ Parent["primary_window"] = "rate_limit" /\ Parent["secondary_window"] = "rate_limit"
  /\ Above["root"] = {"root"} /\ Above["error"] = {"root", "error"}
  /\ Above["rate_limit"] = {"root", "rate_limit"}
  /\ Above["primary_window"] = {"root", "rate_limit", "primary_window"}
  /\ Above["secondary_window"] = {"root", "rate_limit", "secondary_window"}
BY DEF Paths, Parent, Above

\* What a place says holds for the places below it.
LEMMA LimitHolds ==
  ASSUME NEW doc, NEW n \in Paths
  PROVE  Limit(doc)[n] = \E m \in Above[n] : m \in DOMAIN doc /\ doc[m].limit = TRUE
<1> DEFINE Says(m) == m \in DOMAIN doc /\ doc[m].limit = TRUE
           IsLimit(f) == f = [m \in Paths |-> \/ m \in DOMAIN doc /\ doc[m].limit = TRUE
                                              \/ m # "root" /\ f[Parent[m]]]
           g == [m \in Paths |-> \E k \in Above[m] : Says(k)]
<1>1. IsLimit(g)
      BY Tree
<1>2. IsLimit(Limit(doc))
      BY <1>1 DEF Limit
<1> QED BY <1>2, Tree

LEMMA BlockedHolds ==
  ASSUME NEW doc, NEW n \in Paths
  PROVE  Blocked(doc)[n] = \E m \in Above[n] : m \in DOMAIN doc /\ doc[m].allowed = FALSE
<1> DEFINE Says(m) == m \in DOMAIN doc /\ doc[m].allowed = FALSE
           IsBlocked(f) == f = [m \in Paths |-> \/ m \in DOMAIN doc /\ doc[m].allowed = FALSE
                                                \/ m # "root" /\ f[Parent[m]]]
           g == [m \in Paths |-> \E k \in Above[m] : Says(k)]
<1>1. IsBlocked(g)
      BY Tree
<1>2. IsBlocked(Blocked(doc))
      BY <1>1 DEF Blocked
<1> QED BY <1>2, Tree

-----------------------------------------------------------------------------
(* Windows.                                                                *)

AWindow == [family : Families, used : Times, reset : Times, limit : BOOLEAN, allowed : Flags]

\* An object's own reset is what it says, if that is usable.
LEMMA OwnResets ==
  ASSUME NEW o \in Objects
  PROVE  /\ OwnReset(o) \in {o.at, o.resetTime, o.after, None} \cap Resets
         /\ Usable({o.at}) # {} => OwnReset(o) = o.at /\ o.at # None
         /\ Usable({o.at}) = {} /\ Usable({o.resetTime}) # {}
              => OwnReset(o) = o.resetTime /\ o.resetTime # None
         /\ Usable({o.after}) # {} => OwnReset(o) # None
<1>1. o.at \in Times /\ o.resetTime \in Times /\ o.after \in Times
      BY DEF Objects
<1>2. /\ Usable({o.at}) # {} => o.at # None /\ o.at \in 1..MaxFuture
      /\ Usable({o.resetTime}) # {} => o.resetTime # None /\ o.resetTime \in 1..MaxFuture
      BY <1>1, OneUsable
<1>3. /\ Latest(Usable({o.after})) \in {o.after, None} \cap Resets
      /\ Latest(Usable({o.after})) = IF Usable({o.after}) # {} THEN o.after ELSE None
      /\ Usable({o.after}) # {} => o.after # None
      BY <1>1, OneUsable
<1> QED BY <1>2, <1>3 DEF OwnReset, Resets

\* A window of a document: it is exhausted exactly when its object, or one above it, says
\* so, or its use is up.
LEMMA WindowOfDoc ==
  ASSUME NEW doc, IsDoc(doc), NEW n \in DOMAIN doc \cap Windows
  PROVE  /\ WindowAt(doc, n) \in AWindow
         /\ WindowAt(doc, n).family = FamilyOf[n]
         /\ WindowAt(doc, n).reset = OwnReset(doc[n])
         /\ WindowAt(doc, n).used = doc[n].used
         /\ WindowAt(doc, n).limit \/ WindowAt(doc, n).allowed = FALSE <=> Barred(doc, n)
         /\ Exhausted(WindowAt(doc, n)) <=> Shut(doc, n)
<1>1. n \in Paths /\ doc[n] \in Objects /\ FamilyOf[n] \in Families
      BY DEF IsDoc, Windows, FamilyOf, Families
<1>2. \A m \in Above[n] : m \in DOMAIN doc
      BY Tree DEF IsDoc, Windows
<1>3. /\ Limit(doc)[n] = \E m \in Above[n] : doc[m].limit = TRUE
      /\ Blocked(doc)[n] = \E m \in Above[n] : doc[m].allowed = FALSE
      BY <1>1, <1>2, LimitHolds, BlockedHolds
<1>4. doc[n].allowed = FALSE => Blocked(doc)[n]
      BY <1>3, Tree DEF Windows
<1>5. OwnReset(doc[n]) \in Resets
      BY <1>1, OwnResets
<1>6. doc[n].used \in Times /\ doc[n].allowed \in Flags
      BY <1>1 DEF Objects
<1>7. /\ Limit(doc)[n] \in BOOLEAN
      /\ (IF Blocked(doc)[n] THEN FALSE ELSE doc[n].allowed) \in Flags
      /\ (IF Blocked(doc)[n] THEN FALSE ELSE doc[n].allowed) = FALSE <=> Blocked(doc)[n]
      BY <1>3, <1>4, <1>6 DEF Flags
<1>8. OwnReset(doc[n]) \in Times
      BY <1>5, QuotaAssumption DEF Resets, Times
<1>9. /\ WindowAt(doc, n) \in AWindow
      /\ WindowAt(doc, n).family = FamilyOf[n]
      /\ WindowAt(doc, n).reset = OwnReset(doc[n])
      /\ WindowAt(doc, n).used = doc[n].used
      BY <1>1, <1>6, <1>7, <1>8 DEF WindowAt, AWindow
<1>10. WindowAt(doc, n).limit \/ WindowAt(doc, n).allowed = FALSE <=> Barred(doc, n)
  <2>1. /\ WindowAt(doc, n).limit = Limit(doc)[n]
        /\ WindowAt(doc, n).allowed = IF Blocked(doc)[n] THEN FALSE ELSE doc[n].allowed
        BY DEF WindowAt
  <2> QED BY <1>3, <1>7, <2>1 DEF Barred
<1> QED BY <1>9, <1>10 DEF Exhausted, Shut

\* A window is seen to be exhausted when its use can be believed; that is what is left of
\* it when the windows have been made safe.
Seen(w) == w.limit \/ w.allowed = FALSE \/ w.used \in 100..MaxPercent

LEMMA SafeIs ==
  ASSUME NEW w \in AWindow
  PROVE  /\ Safe(w) \in AWindow /\ Safe(w).reset = w.reset
         /\ Exhausted(Safe(w)) <=> Seen(w)
         /\ Seen(w) => Exhausted(w)
<1>1. Safe(w) = [family |-> w.family, reset |-> w.reset, limit |-> w.limit, allowed |-> w.allowed,
                 used |-> IF w.used \in 0..MaxPercent THEN w.used ELSE None]
      BY DEF Safe, AWindow
<1>2. w.used \in Times /\ None \notin Int
      BY QuotaAssumption DEF AWindow
<1>3. /\ (Safe(w).used # None /\ Safe(w).used >= 100) <=> w.used \in 100..MaxPercent
      /\ w.used \in 100..MaxPercent => w.used # None /\ w.used >= 100
      /\ Safe(w).used \in Times
      BY <1>1, <1>2 DEF Times, MaxPercent
<1>4. Safe(w) \in AWindow /\ Safe(w).reset = w.reset
      BY <1>1, <1>3 DEF AWindow
<1>5. Safe(w).limit = w.limit /\ Safe(w).allowed = w.allowed
      BY <1>1
<1> QED BY <1>3, <1>4, <1>5 DEF Exhausted, Seen

LEMMA SeenIsShut ==
  ASSUME NEW doc, NEW n \in DOMAIN doc, IsDoc(doc), SeenShut(doc, n)
  PROVE  Shut(doc, n)
<1>1. doc[n].used \in 100..MaxPercent => doc[n].used # None /\ doc[n].used >= 100
      BY QuotaAssumption DEF MaxPercent
<1> QED BY <1>1 DEF Shut, SeenShut

\* The times of the headers.
HeaderTimes(in) == CodexTimes(in) \cup in.retry

\* A window that may be made of the headers of a family.
LEMMA WindowOfHeaders ==
  ASSUME NEW in \in Inputs, NEW f \in DOMAIN in.families, NEW h \in HeaderWindow(in.families, f)
  PROVE  /\ h \in AWindow /\ h.family = f
         /\ h.reset \in HeaderTimes(in) \cup {None}
         /\ Exhausted(h) <=> Seen(h)
         /\ Exhausted(h) => f \in Heard(in.families)
<1> DEFINE of == in.families[f]
           times == of.at \cup of.after
<1>1. of \in OfHeaders /\ f \in Families
      BY Calls
<1>2. PICK u \in Last(Believed(of.used)), t \in Last(Usable(times)),
           l \in Last(of.limit), a \in Last(of.allowed) :
             h = [family |-> f, used |-> u, reset |-> t, limit |-> l = TRUE, allowed |-> a]
  <2> DEFINE Of(v, s, k, b) == [family |-> f, used |-> v, reset |-> s, limit |-> k = TRUE, allowed |-> b]
  <2>1. HeaderWindow(in.families, f) =
          {Of(v, s, k, b) : v \in Last(Believed(of.used)), s \in Last(Usable(times)),
                            k \in Last(of.limit), b \in Last(of.allowed)}
        BY DEF HeaderWindow
  <2> HIDE DEF Of, of, times
  <2>2. PICK u \in Last(Believed(of.used)), t \in Last(Usable(times)),
             l \in Last(of.limit), a \in Last(of.allowed) : h = Of(u, t, l, a)
        BY <2>1
  <2> QED BY <2>2 DEF Of
<1>3. times \subseteq Int /\ times \subseteq HeaderTimes(in)
      BY <1>1 DEF OfHeaders, HeaderTimes, CodexTimes
<1>4. t \in times \cup {None}
      BY <1>2 DEF Last, Usable
<1>5. /\ u = None \/ (u \in 0..MaxPercent /\ u \in Believed(of.used))
      /\ u # None => Believed(of.used) # {}
      BY <1>2 DEF Last, Believed
<1>6. a \in Flags /\ (a = FALSE => of.allowed # {}) /\ (l = TRUE => of.limit # {})
      BY <1>1, <1>2, QuotaAssumption DEF Last, OfHeaders, Flags
<1>7. u \in Times /\ ((u # None /\ u >= 100) <=> u \in 100..MaxPercent)
      BY <1>5, QuotaAssumption DEF Times, MaxPercent
<1>8. h.used = u /\ h.limit = (l = TRUE) /\ h.allowed = a /\ h.reset = t /\ h.family = f
      BY <1>2
<1>9. h \in AWindow
      BY <1>1, <1>2, <1>3, <1>4, <1>6, <1>7 DEF AWindow, Times
<1>10. Exhausted(h) <=> Seen(h)
      BY <1>7, <1>8 DEF Exhausted, Seen
<1>11. ASSUME Exhausted(h) PROVE f \in Heard(in.families)
      BY <1>5, <1>6, <1>8, <1>11 DEF Exhausted, Heard
<1> QED BY <1>3, <1>4, <1>8, <1>9, <1>10, <1>11

\* There is always one.
LEMMA HeaderWindowsAre ==
  ASSUME NEW families, NEW f
  PROVE  \E h : h \in HeaderWindow(families, f)
<1>1. \A values : Last(values) # {}
      BY DEF Last
<1>2. PICK u, t, l, a : /\ u \in Last(Believed(families[f].used))
                        /\ t \in Last(Usable(families[f].at \cup families[f].after))
                        /\ l \in Last(families[f].limit) /\ a \in Last(families[f].allowed)
      BY <1>1
<1> DEFINE Of(v, s, k, b) == [family |-> f, used |-> v, reset |-> s, limit |-> k = TRUE, allowed |-> b]
<1>3. HeaderWindow(families, f) =
        {Of(v, s, k, b) : v \in Last(Believed(families[f].used)),
                          s \in Last(Usable(families[f].at \cup families[f].after)),
                          k \in Last(families[f].limit), b \in Last(families[f].allowed)}
      BY DEF HeaderWindow
<1> HIDE DEF Of
<1>4. Of(u, t, l, a) \in HeaderWindow(families, f)
      BY <1>2, <1>3
<1> QED BY <1>4

\* The windows of the headers are one choice for each family of which something is known.
LEMMA HeaderChoice ==
  ASSUME NEW families, NEW hs \in HeaderWindows(families)
  PROVE  \E c : /\ hs = {c[f] : f \in Heard(families)}
                /\ \A f \in Heard(families) : c[f] \in HeaderWindow(families, f)
BY DEF HeaderWindows

LEMMA HeaderOfFamily ==
  ASSUME NEW in \in Inputs, NEW hs \in HeaderWindows(in.families), NEW h \in hs
  PROVE  /\ h.family \in Heard(in.families) /\ h.family \in DOMAIN in.families
         /\ h \in HeaderWindow(in.families, h.family)
<1>1. PICK c : /\ hs = {c[f] : f \in Heard(in.families)}
               /\ \A f \in Heard(in.families) : c[f] \in HeaderWindow(in.families, f)
      BY HeaderChoice
<1>2. PICK f \in Heard(in.families) : h = c[f]
      BY <1>1
<1>3. f \in DOMAIN in.families
      BY DEF Heard
<1> QED BY <1>1, <1>2, <1>3, WindowOfHeaders

-----------------------------------------------------------------------------
(* The inventory.                                                          *)

LEMMA HeaderResets ==
  ASSUME NEW in \in Inputs
  PROVE  /\ HeaderReset(in) \in (HeaderTimes(in) \cup {None}) \cap Resets
         /\ Resets \subseteq Times
<1>1. CodexTimes(in) \in SUBSET Times /\ in.retry \in SUBSET Times
  <2>1. \A f \in DOMAIN in.families : in.families[f].at \cup in.families[f].after \subseteq Int
        BY Calls DEF OfHeaders
  <2> QED BY <2>1, Calls DEF CodexTimes, Times
<1>2. /\ Latest(Usable(CodexTimes(in))) \in Resets /\ Latest(Usable(in.retry)) \in Resets
      /\ Latest(Usable(CodexTimes(in))) \in CodexTimes(in) \cup {None}
      /\ Latest(Usable(in.retry)) \in in.retry \cup {None}
      BY <1>1, LatestUsable
<1>3. HeaderReset(in) \in {Latest(Usable(CodexTimes(in))), Latest(Usable(in.retry))}
      BY DEF HeaderReset
<1>4. Resets \subseteq Times
      BY QuotaAssumption DEF Resets, Times
<1> QED BY <1>2, <1>3, <1>4 DEF HeaderTimes

\* A window of the document keeps what it says, and takes the rest from the headers.
LEMMA MergedIs ==
  ASSUME NEW w \in AWindow, NEW hs \in SUBSET AWindow
  PROVE  \/ Merged(w, hs) = w
         \/ \E h \in hs : /\ h.family = w.family
                          /\ Merged(w, hs) =
                               [family  |-> w.family,
                                used    |-> IF w.used = None THEN h.used ELSE w.used,
                                reset   |-> IF w.reset = None THEN h.reset ELSE w.reset,
                                limit   |-> w.limit \/ h.limit,
                                allowed |-> IF w.allowed = None THEN h.allowed ELSE w.allowed]
<1> DEFINE of == {h \in hs : h.family = w.family}
<1>1. CASE of = {}
      BY <1>1 DEF Merged
<1>2. CASE of # {}
  <2>1. PICK h \in of : h = CHOOSE x \in of : TRUE
        BY <1>2
  <2>2. Merged(w, hs) =
          [[[[w EXCEPT !.used = IF @ = None THEN h.used ELSE @]
                EXCEPT !.limit = @ \/ h.limit]
                EXCEPT !.allowed = IF @ = None THEN h.allowed ELSE @]
                EXCEPT !.reset = IF @ = None THEN h.reset ELSE @]
        BY <1>2, <2>1 DEF Merged
  <2> QED BY <2>1, <2>2 DEF AWindow
<1> QED BY <1>1, <1>2

\* An exhausted window that does not tell when it opens is as exhausted with the time.
LEMMA TimedIs ==
  ASSUME NEW in \in Inputs, NEW w \in AWindow
  PROVE  /\ Timed(in, w) = [family |-> w.family, used |-> w.used, limit |-> w.limit,
                            allowed |-> w.allowed,
                            reset |-> IF w.reset = None /\ Exhausted(w) THEN HeaderReset(in)
                                      ELSE w.reset]
         /\ Timed(in, w) \in AWindow
         /\ Timed(in, w).reset \in {w.reset} \cup HeaderTimes(in) \cup {None}
         /\ Exhausted(Timed(in, w)) <=> Exhausted(w)
         /\ Seen(Timed(in, w)) <=> Seen(w)
<1>1. Timed(in, w) = [family |-> w.family, used |-> w.used, limit |-> w.limit,
                      allowed |-> w.allowed,
                      reset |-> IF w.reset = None /\ Exhausted(w) THEN HeaderReset(in)
                                ELSE w.reset]
      BY DEF Timed, AWindow
<1>2. HeaderReset(in) \in (HeaderTimes(in) \cup {None}) \cap Resets /\ Resets \subseteq Times
      BY HeaderResets
<1> QED BY <1>1, <1>2 DEF AWindow, Exhausted, Seen

\* A window of the document in the inventory.
LEMMA WindowInInventory ==
  ASSUME NEW in \in Inputs, in.doc # None, NEW hs \in HeaderWindows(in.families),
         NEW n \in Described(in.doc),
         NEW w, w = Timed(in, Merged(WindowAt(in.doc, n), hs))
  PROVE  /\ n \in DOMAIN in.doc \cap Windows
         /\ w \in AWindow
         /\ w.reset \in {OwnReset(in.doc[n]), None} \cup HeaderTimes(in)
         /\ OwnReset(in.doc[n]) # None => w.reset = OwnReset(in.doc[n])
         /\ SeenShut(in.doc, n) => Seen(w)
         /\ Seen(w) => SeenShut(in.doc, n) \/ MayBeShut(in.families, FamilyOf[n])
<1> DEFINE own == WindowAt(in.doc, n)
           merged == Merged(own, hs)
<1>1. IsDoc(in.doc) /\ n \in DOMAIN in.doc \cap Windows
      BY Calls DEF Described, IsWindow
<1>2. /\ own \in AWindow /\ own.family = FamilyOf[n] /\ own.reset = OwnReset(in.doc[n])
      /\ Seen(own) <=> SeenShut(in.doc, n)
      BY <1>1, WindowOfDoc DEF Seen, SeenShut
<1> HIDE DEF own
<1>3. \A h \in hs : /\ h \in AWindow /\ h.family \in DOMAIN in.families
                    /\ h \in HeaderWindow(in.families, h.family)
                    /\ h.reset \in HeaderTimes(in) \cup {None} /\ (Seen(h) => Exhausted(h))
      BY HeaderOfFamily, WindowOfHeaders
<1>4. /\ merged \in AWindow
      /\ merged.reset \in {own.reset, None} \cup HeaderTimes(in)
      /\ own.reset # None => merged.reset = own.reset
      /\ Seen(own) => Seen(merged)
      /\ Seen(merged) => Seen(own) \/ MayBeShut(in.families, FamilyOf[n])
  <2>1. CASE merged = own
        BY <1>2, <2>1
  <2>2. ASSUME NEW h \in hs, h.family = own.family,
               merged = [family  |-> own.family,
                         used    |-> IF own.used = None THEN h.used ELSE own.used,
                         reset   |-> IF own.reset = None THEN h.reset ELSE own.reset,
                         limit   |-> own.limit \/ h.limit,
                         allowed |-> IF own.allowed = None THEN h.allowed ELSE own.allowed]
        PROVE  <1>4!:
    <3>1. merged \in AWindow
          BY <1>2, <1>3, <2>2 DEF AWindow
    <3>2. None \notin 100..MaxPercent /\ None # FALSE
      <4>1. None # FALSE
            BY QuotaAssumption
      <4>2. None \notin 100..MaxPercent
            BY QuotaAssumption DEF MaxPercent
      <4> QED BY <4>1, <4>2
    <3>3. /\ merged.limit = (own.limit \/ h.limit)
          /\ merged.used = IF own.used = None THEN h.used ELSE own.used
          /\ merged.allowed = IF own.allowed = None THEN h.allowed ELSE own.allowed
          /\ merged.reset = IF own.reset = None THEN h.reset ELSE own.reset
          BY <2>2
    <3> HIDE DEF merged
    <3>4. Seen(own) => Seen(merged)
      <4>1. own.limit => merged.limit
            BY <3>3
      <4>2. own.allowed = FALSE => merged.allowed = FALSE
            BY <3>2, <3>3
      <4>3. own.used \in 100..MaxPercent => merged.used = own.used
            BY <3>2, <3>3
      <4> QED BY <4>1, <4>2, <4>3 DEF Seen
    <3>5. Seen(merged) => Seen(own) \/ Seen(h)
      <4>1. merged.limit => own.limit \/ h.limit
            BY <3>3
      <4>2. merged.allowed \in {own.allowed, h.allowed} /\ merged.used \in {own.used, h.used}
            BY <3>3
      <4> QED BY <4>1, <4>2 DEF Seen
    <3>6. Seen(h) => MayBeShut(in.families, FamilyOf[n])
          BY <1>2, <1>3, <2>2 DEF MayBeShut
    <3>7. merged.reset \in {own.reset, None} \cup HeaderTimes(in)
          BY <1>3, <3>3
    <3> QED BY <3>1, <3>3, <3>4, <3>5, <3>6, <3>7
  <2>3. hs \in SUBSET AWindow
        BY <1>3
  <2> QED BY <1>2, <2>1, <2>2, <2>3, MergedIs
<1>5. w = Timed(in, merged)
      BY DEF own
<1> HIDE DEF merged
<1>6. /\ w.reset = IF merged.reset = None /\ Exhausted(merged) THEN HeaderReset(in)
                   ELSE merged.reset
      /\ w \in AWindow /\ w.reset \in {merged.reset} \cup HeaderTimes(in) \cup {None}
      /\ Seen(w) <=> Seen(merged)
      BY <1>4, <1>5, TimedIs
<1>7. w.reset \in {own.reset, None} \cup HeaderTimes(in)
      BY <1>4, <1>6
<1>8. own.reset # None => w.reset = own.reset
      BY <1>4, <1>6
<1> QED BY <1>1, <1>2, <1>4, <1>6, <1>7, <1>8

\* A window is exhausted because the headers say so of its family, or because the document
\* says so of its place; and it opens when one of them says.
Founded(in, w) ==
  /\ w \in AWindow
  /\ \/ /\ w.reset \in HeaderTimes(in) \cup {None}
        /\ Exhausted(w) => \E f \in DOMAIN in.families : MayBeShut(in.families, f)
     \/ /\ in.doc # None
        /\ \E n \in DOMAIN in.doc \cap Windows :
             /\ w.reset \in {OwnReset(in.doc[n]), None} \cup HeaderTimes(in)
             /\ Exhausted(w) => SeenShut(in.doc, n) \/ MayBeShut(in.families, FamilyOf[n])

LEMMA HeadersAreFounded ==
  ASSUME NEW in \in Inputs, NEW hs \in HeaderWindows(in.families), NEW h \in hs
  PROVE  Founded(in, h) /\ Founded(in, Safe(Timed(in, h)))
<1>1. /\ h \in AWindow /\ h.family \in DOMAIN in.families
      /\ h \in HeaderWindow(in.families, h.family)
      /\ h.reset \in HeaderTimes(in) \cup {None} /\ (Exhausted(h) <=> Seen(h))
      BY HeaderOfFamily, WindowOfHeaders
<1>2. Exhausted(h) => \E f \in DOMAIN in.families : MayBeShut(in.families, f)
      BY <1>1 DEF MayBeShut
<1>3. /\ Timed(in, h) \in AWindow /\ (Seen(Timed(in, h)) <=> Seen(h))
      /\ Timed(in, h).reset \in {h.reset} \cup HeaderTimes(in) \cup {None}
      BY <1>1, TimedIs
<1>4. /\ Safe(Timed(in, h)) \in AWindow /\ Safe(Timed(in, h)).reset = Timed(in, h).reset
      /\ Exhausted(Safe(Timed(in, h))) <=> Seen(h)
      BY <1>3, SafeIs
<1>5. Founded(in, h)
      BY <1>1, <1>2 DEF Founded
<1>6. /\ Safe(Timed(in, h)).reset \in HeaderTimes(in) \cup {None}
      /\ Exhausted(Safe(Timed(in, h))) => \E g \in DOMAIN in.families : MayBeShut(in.families, g)
      BY <1>1, <1>2, <1>3, <1>4
<1> QED BY <1>4, <1>5, <1>6 DEF Founded

\* What is kept of an inventory was in it, and there is one only of a document that is
\* recognized.
LEMMA KeptIsFounded ==
  ASSUME NEW in \in Inputs, NEW ws \in ParseInventory(in), NEW e \in ws
  PROVE  Recognized(in.doc) /\ in.doc # None /\ Founded(in, e.w)
<1>1. PICK hs \in HeaderWindows(in.families) : ws \in Kept(Inventory(in, hs))
      BY DEF ParseInventory
<1>2. PICK s \in FirstOf(Inventory(in, hs)) : ws = {[d EXCEPT !.w = Safe(@)] : d \in s}
      BY <1>1 DEF Kept
<1>3. PICK d \in s : e = [d EXCEPT !.w = Safe(@)]
      BY <1>2
<1>4. d \in Inventory(in, hs).body \cup Inventory(in, hs).alone
      BY DEF FirstOf
<1>5. Recognized(in.doc) /\ in.doc # None
      BY <1>4 DEF Inventory, Recognized
<1>6. d \in OfDocument(in, hs) \cup OnlyInHeaders(in, hs)
      BY <1>4, <1>5 DEF Inventory
<1>7. CASE d \in OfDocument(in, hs)
  <2>1. PICK n \in Described(in.doc) :
          d = [path |-> n, w |-> Timed(in, Merged(WindowAt(in.doc, n), hs))]
        BY <1>7 DEF OfDocument
  <2>2. e.w = Safe(d.w) /\ d.w = Timed(in, Merged(WindowAt(in.doc, n), hs))
        BY <1>3, <2>1
  <2>3. /\ n \in DOMAIN in.doc \cap Windows /\ d.w \in AWindow
        /\ d.w.reset \in {OwnReset(in.doc[n]), None} \cup HeaderTimes(in)
        /\ Seen(d.w) => SeenShut(in.doc, n) \/ MayBeShut(in.families, FamilyOf[n])
        BY <1>5, <2>2, WindowInInventory
  <2>4. /\ e.w \in AWindow /\ e.w.reset = d.w.reset /\ (Exhausted(e.w) <=> Seen(d.w))
        BY <2>2, <2>3, SafeIs
  <2> QED BY <1>5, <2>3, <2>4 DEF Founded
<1>8. CASE d \in OnlyInHeaders(in, hs)
  <2>1. PICK h \in hs : d = [path |-> h.family, w |-> Timed(in, h)]
        BY <1>8 DEF OnlyInHeaders
  <2>2. e.w = Safe(Timed(in, h))
        BY <1>3, <2>1
  <2> QED BY <1>5, <2>2, HeadersAreFounded
<1> QED BY <1>6, <1>7, <1>8

LEMMA EventWindowsAreFounded ==
  ASSUME NEW in \in Inputs, NEW ws \in EventWindows(in), NEW e \in ws
  PROVE  Founded(in, e.w)
<1> DEFINE OfHeader(hs) == {[path |-> h.family, w |-> h] : h \in hs}
<1>1. PICK kept \in ParseInventory(in) :
        ws \in IF kept # {} THEN {kept} ELSE {OfHeader(hs) : hs \in HeaderWindows(in.families)}
      BY DEF EventWindows
<1>2. CASE ws = kept
      BY <1>2, KeptIsFounded
<1>3. CASE \E hs \in HeaderWindows(in.families) : ws = OfHeader(hs)
  <2>1. PICK hs \in HeaderWindows(in.families) : ws = OfHeader(hs)
        BY <1>3
  <2>2. PICK h \in hs : e.w = h
        BY <2>1
  <2> QED BY <2>2, HeadersAreFounded
<1> QED BY <1>1, <1>2, <1>3

-----------------------------------------------------------------------------
(* Nothing is left out of an inventory that is within the bound.           *)

\* The names of windows and families are few.
LEMMA FewNames ==
  /\ IsFiniteSet(Windows) /\ Cardinality(Windows) \in Nat
  /\ IsFiniteSet(Families) /\ Cardinality(Families) \in Nat \ {0}
<1>1. \A x, y, z : IsFiniteSet({x, y, z})
  <2> TAKE x, y, z
  <2>1. IsFiniteSet({x} \cup {y})
        BY FS_Singleton, FS_AddElement
  <2>2. IsFiniteSet(({x} \cup {y}) \cup {z})
        BY <2>1, FS_AddElement
  <2>3. ({x} \cup {y}) \cup {z} = {x, y, z}
        OBVIOUS
  <2> QED BY <2>2, <2>3
<1>2. IsFiniteSet(Windows) /\ IsFiniteSet(Families) /\ Families # {}
  <2>1. IsFiniteSet({"primary", "secondary", "additional"} \cup {"code_review"})
        BY <1>1, FS_AddElement
  <2>2. {"primary", "secondary", "additional"} \cup {"code_review"} = Families
        BY DEF Families
  <2> QED BY <1>1, <2>1, <2>2 DEF Windows
<1> QED BY <1>2, FS_CardinalityType, FS_EmptySet

\* What is made of each member of a finite set is no more than the set has.
LEMMA NoMoreThanNames ==
  ASSUME NEW S, IsFiniteSet(S), NEW T, NEW f, T \subseteq {f[x] : x \in S}
  PROVE  IsFiniteSet(T) /\ Cardinality(T) \in Nat /\ Cardinality(T) <= Cardinality(S)
<1> DEFINE U == {x \in S : f[x] \in T}
           g == [x \in U |-> f[x]]
<1>1. IsFiniteSet(U) /\ Cardinality(U) <= Cardinality(S)
      BY FS_Subset
<1>2. g \in [U -> T] /\ \A t \in T : \E x \in U : g[x] = t
      OBVIOUS
<1>3. g \in Surjection(U, T)
      BY <1>2 DEF Surjection
<1> HIDE DEF U, g
<1>4. IsFiniteSet(T) /\ Cardinality(T) <= Cardinality(U)
      BY <1>1, <1>3, FS_Surjection
<1> QED BY <1>1, <1>4, FS_CardinalityType

\* Each window of the document is one entry, and so is each family that only the headers
\* have.
LEMMA FewEntries ==
  ASSUME NEW in \in Inputs, in.doc # None, NEW hs \in HeaderWindows(in.families)
  PROVE  /\ IsFiniteSet(OfDocument(in, hs)) /\ Cardinality(OfDocument(in, hs)) \in Nat
         /\ Cardinality(OfDocument(in, hs)) <= Cardinality(Windows)
         /\ IsFiniteSet(OnlyInHeaders(in, hs)) /\ Cardinality(OnlyInHeaders(in, hs)) \in Nat
         /\ Cardinality(OnlyInHeaders(in, hs)) <= Cardinality(Families)
<1>1. PICK c : /\ hs = {c[f] : f \in Heard(in.families)}
               /\ \A f \in Heard(in.families) : c[f] \in HeaderWindow(in.families, f)
      BY HeaderChoice
<1> DEFINE ofPath == [n \in Windows |->
             [path |-> n, w |-> Timed(in, Merged(WindowAt(in.doc, n), hs))]]
           ofFamily == [f \in Families |-> [path |-> c[f].family, w |-> Timed(in, c[f])]]
<1>2. OfDocument(in, hs) \subseteq {ofPath[n] : n \in Windows}
      BY DEF OfDocument, Described
<1>3. OnlyInHeaders(in, hs) \subseteq {ofFamily[f] : f \in Families}
  <2> SUFFICES ASSUME NEW e \in OnlyInHeaders(in, hs) PROVE \E f \in Families : e = ofFamily[f]
      OBVIOUS
  <2>1. PICK h \in hs : e = [path |-> h.family, w |-> Timed(in, h)]
        BY DEF OnlyInHeaders
  <2>2. PICK f \in Heard(in.families) : h = c[f]
        BY <1>1
  <2>3. f \in Families
        BY Calls DEF Heard
  <2> QED BY <2>1, <2>2, <2>3
<1> HIDE DEF ofPath, ofFamily
<1> QED BY <1>2, <1>3, FewNames, NoMoreThanNames

\* The whole of a finite set is its only part of its size.
LEMMA OnlyTheWhole ==
  ASSUME NEW S, IsFiniteSet(S)
  PROVE  {s \in SUBSET S : Cardinality(s) = Cardinality(S)} = {S}
BY FS_Subset

\* The entries of an inventory when none is left out, made safe.
AllOf(in, hs) == {[e EXCEPT !.w = Safe(@)] : e \in OfDocument(in, hs) \cup OnlyInHeaders(in, hs)}

LEMMA AllIsKept ==
  ASSUME NEW in \in Inputs, Recognized(in.doc), Within, NEW hs \in HeaderWindows(in.families)
  PROVE  Kept(Inventory(in, hs)) = {AllOf(in, hs)}
<1> DEFINE n == Cardinality(OfDocument(in, hs))
           m == Cardinality(OnlyInHeaders(in, hs))
<1>1. /\ Inventory(in, hs).body = OfDocument(in, hs)
      /\ Inventory(in, hs).alone = OnlyInHeaders(in, hs)
      BY DEF Inventory
<1>2. /\ IsFiniteSet(OnlyInHeaders(in, hs)) /\ n \in Nat /\ m \in Nat
      /\ n <= Cardinality(Windows) /\ m <= Cardinality(Families)
      BY FewEntries DEF Recognized
<1>3. /\ MaxWindows \in Nat /\ Cardinality(Windows) \in Nat /\ Cardinality(Families) \in Nat \ {0}
      /\ Cardinality(Windows) + Cardinality(Families) <= MaxWindows
      BY FewNames, QuotaAssumption DEF Within
<1>4. ~(n >= MaxWindows) /\ n + m <= MaxWindows
  <2> HIDE DEF n, m
  <2> QED BY <1>2, <1>3
<1>5. {s \in SUBSET OnlyInHeaders(in, hs) : Cardinality(s) = m} = {OnlyInHeaders(in, hs)}
      BY <1>2, OnlyTheWhole
<1>6. FirstOf(Inventory(in, hs)) = {OfDocument(in, hs) \cup s : s \in {OnlyInHeaders(in, hs)}}
      BY <1>1, <1>4, <1>5 DEF FirstOf
<1> QED BY <1>6 DEF Kept, AllOf

\* A window of the document that is seen to be exhausted is among the windows that a
\* failure is judged by, with its own reset.
LEMMA ShutIsKept ==
  ASSUME NEW in \in Inputs, Recognized(in.doc), Within, NEW n \in Described(in.doc),
         SeenShut(in.doc, n), OwnReset(in.doc[n]) # None, NEW ws \in EventWindows(in)
  PROVE  \E e \in ws : Exhausted(e.w) /\ e.w.reset = OwnReset(in.doc[n])
<1>1. PICK kept \in ParseInventory(in) : kept # {} => ws = kept
      BY DEF EventWindows
<1>2. PICK hs \in HeaderWindows(in.families) : kept \in Kept(Inventory(in, hs))
      BY DEF ParseInventory
<1>3. kept = AllOf(in, hs)
      BY <1>2, AllIsKept
<1> DEFINE w == Timed(in, Merged(WindowAt(in.doc, n), hs))
           entry == [path |-> n, w |-> w]
<1>4. entry \in OfDocument(in, hs)
      BY DEF OfDocument
<1>5. w \in AWindow /\ Seen(w) /\ w.reset = OwnReset(in.doc[n])
  <2> HIDE DEF w
  <2> SUFFICES ASSUME w = Timed(in, Merged(WindowAt(in.doc, n), hs))
               PROVE  w \in AWindow /\ Seen(w) /\ w.reset = OwnReset(in.doc[n])
      BY DEF w
  <2> QED BY WindowInInventory DEF Recognized
<1> HIDE DEF w
<1>6. [path |-> n, w |-> Safe(w)] \in kept
  <2>1. [entry EXCEPT !.w = Safe(@)] \in AllOf(in, hs)
        BY <1>4 DEF AllOf
  <2> QED BY <1>3, <2>1
<1>7. Exhausted(Safe(w)) /\ Safe(w).reset = OwnReset(in.doc[n])
      BY <1>5, SafeIs
<1> QED BY <1>1, <1>6, <1>7

-----------------------------------------------------------------------------
(* The time at which the quota is said to come back.                       *)

\* That of the windows is the time of one that is exhausted, and no earlier than that of
\* any that is.
LEMMA ResetOfWindows ==
  ASSUME NEW ws, \A e \in ws : e.w \in AWindow
  PROVE  /\ LatestFutureReset(ws) \in Resets
         /\ LatestFutureReset(ws) # None =>
              \E e \in ws : Exhausted(e.w) /\ LatestFutureReset(ws) = e.w.reset
         /\ \A e \in ws : Exhausted(e.w) /\ Usable({e.w.reset}) # {} =>
              LatestFutureReset(ws) # None /\ LatestFutureReset(ws) >= e.w.reset
<1> DEFINE ts == {e.w.reset : e \in {f \in ws : Exhausted(f.w)}}
<1>1. ts \in SUBSET Times
      BY DEF AWindow
<1>2. \A t \in ts : \E e \in ws : Exhausted(e.w) /\ t = e.w.reset
      OBVIOUS
<1>3. LatestFutureReset(ws) = Latest(Usable(ts))
      BY DEF LatestFutureReset
<1>4. \A e \in ws : Exhausted(e.w) /\ Usable({e.w.reset}) # {} => e.w.reset \in Usable(ts)
      BY DEF Usable
<1> HIDE DEF ts
<1>5. /\ Latest(Usable(ts)) \in Resets
      /\ Latest(Usable(ts)) # None => Latest(Usable(ts)) \in ts
      /\ Usable(ts) # {} => Latest(Usable(ts)) # None /\ Latest(Usable(ts)) \in 1..MaxFuture
      /\ Usable(ts) \subseteq 1..MaxFuture
      /\ \A u \in Usable(ts) : u <= Latest(Usable(ts))
      BY <1>1, LatestUsable
<1>6. \A e \in ws : Exhausted(e.w) /\ Usable({e.w.reset}) # {} =>
        LatestFutureReset(ws) # None /\ LatestFutureReset(ws) >= e.w.reset
  <2> TAKE e \in ws
  <2> HAVE Exhausted(e.w) /\ Usable({e.w.reset}) # {}
  <2>1. e.w.reset \in Usable(ts)
        BY <1>4
  <2>2. e.w.reset \in 1..MaxFuture /\ Latest(Usable(ts)) \in 1..MaxFuture
        /\ e.w.reset <= Latest(Usable(ts)) /\ Latest(Usable(ts)) # None
        BY <1>5, <2>1
  <2> QED BY <1>3, <2>2
<1> QED BY <1>2, <1>3, <1>5, <1>6

\* That of the document is a time of an object that may speak of one, and no earlier than
\* the absolute time of any that may, or, without one in the document, the relative one.
LEMMA ResetOfDocument ==
  ASSUME NEW doc, doc # None => IsDoc(doc)
  PROVE  /\ StructuredReset(doc) \in Resets
         /\ StructuredReset(doc) # None =>
              /\ doc # None
              /\ \E n \in DOMAIN doc : /\ SpeaksOfReset(doc, n)
                                       /\ \/ StructuredReset(doc) = doc[n].at
                                          \/ StructuredReset(doc) = doc[n].after
         /\ doc # None => \A n \in DOMAIN doc :
              SpeaksOfReset(doc, n) =>
                /\ Usable({doc[n].at}) # {} =>
                     StructuredReset(doc) # None /\ StructuredReset(doc) >= doc[n].at
                /\ Usable({doc[n].after}) # {} /\ Usable({doc[m].at : m \in DOMAIN doc}) = {} =>
                     StructuredReset(doc) # None /\ StructuredReset(doc) >= doc[n].after
<1> DEFINE speak == IF doc = None THEN {} ELSE {n \in DOMAIN doc : SpeaksOfReset(doc, n)}
           ats == {doc[n].at : n \in speak}
           afters == {doc[n].after : n \in speak}
<1>1. \A n \in speak : /\ doc # None /\ n \in DOMAIN doc /\ SpeaksOfReset(doc, n)
                       /\ doc[n].at \in Times /\ doc[n].after \in Times
  <2> TAKE n \in speak
  <2>1. doc # None /\ n \in DOMAIN doc /\ SpeaksOfReset(doc, n)
        BY DEF IsDoc
  <2>2. doc[n] \in Objects
        BY <2>1 DEF IsDoc
  <2> QED BY <2>1, <2>2 DEF Objects
<1>2. StructuredReset(doc) = IF Usable(ats) # {} THEN Latest(Usable(ats)) ELSE Latest(Usable(afters))
      BY DEF StructuredReset
<1>3. \A t \in ats : \E n \in speak : t = doc[n].at
      OBVIOUS
<1>4. \A t \in afters : \E n \in speak : t = doc[n].after
      OBVIOUS
<1>5. doc # None => \A n \in DOMAIN doc :
        SpeaksOfReset(doc, n) => n \in speak /\ doc[n].at \in ats /\ doc[n].after \in afters
      OBVIOUS
<1>6. ats \in SUBSET Times /\ afters \in SUBSET Times
      BY <1>1
<1>7. Usable({doc[m].at : m \in DOMAIN doc}) = {} => Usable(ats) = {}
      BY DEF Usable
<1> HIDE DEF speak, ats, afters
<1>8. /\ Latest(Usable(ats)) \in Resets /\ Latest(Usable(afters)) \in Resets
      /\ Usable(ats) # {} => /\ Latest(Usable(ats)) \in ats \ {None}
                             /\ \A u \in Usable(ats) : u <= Latest(Usable(ats))
      /\ Usable(afters) # {} => /\ Latest(Usable(afters)) \in afters \ {None}
                                /\ \A u \in Usable(afters) : u <= Latest(Usable(afters))
      /\ Latest(Usable(afters)) # None => Latest(Usable(afters)) \in afters
      /\ Usable(ats) \subseteq 1..MaxFuture /\ Usable(afters) \subseteq 1..MaxFuture
      BY <1>6, LatestUsable
<1>9. ASSUME StructuredReset(doc) # None
      PROVE  \E n \in speak : StructuredReset(doc) = doc[n].at \/ StructuredReset(doc) = doc[n].after
      BY <1>2, <1>3, <1>4, <1>8, <1>9
<1>10. ASSUME doc # None, NEW n \in DOMAIN doc, SpeaksOfReset(doc, n), Usable({doc[n].at}) # {}
       PROVE  StructuredReset(doc) # None /\ StructuredReset(doc) >= doc[n].at
  <2>1. doc[n].at \in ats
        BY <1>5, <1>10
  <2>2. doc[n].at \in Usable(ats)
        BY <1>10, <2>1 DEF Usable
  <2> QED BY <1>2, <1>8, <2>2
<1>11. ASSUME doc # None, NEW n \in DOMAIN doc, SpeaksOfReset(doc, n), Usable({doc[n].after}) # {},
              Usable({doc[m].at : m \in DOMAIN doc}) = {}
       PROVE  StructuredReset(doc) # None /\ StructuredReset(doc) >= doc[n].after
  <2>1. doc[n].after \in afters
        BY <1>5, <1>11
  <2>2. doc[n].after \in Usable(afters)
        BY <1>11, <2>1 DEF Usable
  <2> QED BY <1>2, <1>7, <1>8, <1>11, <2>2
<1> QED BY <1>1, <1>2, <1>8, <1>9, <1>10, <1>11

LEMMA ResetOfEvents ==
  ASSUME NEW in \in Inputs, NEW ws \in EventWindows(in)
  PROVE  /\ ResetForEvent(in, ws) \in Resets
         /\ ResetForEvent(in, ws) \in {StructuredReset(in.doc), LatestFutureReset(ws), HeaderReset(in)}
         /\ StructuredReset(in.doc) # None => ResetForEvent(in, ws) = StructuredReset(in.doc)
         /\ StructuredReset(in.doc) = None /\ LatestFutureReset(ws) # None =>
              ResetForEvent(in, ws) = LatestFutureReset(ws)
<1>1. \A e \in ws : e.w \in AWindow
      BY EventWindowsAreFounded DEF Founded
<1>2. LatestFutureReset(ws) \in Resets
      BY <1>1, ResetOfWindows
<1>3. StructuredReset(in.doc) \in Resets
      BY Calls, ResetOfDocument
<1>4. HeaderReset(in) \in Resets
      BY HeaderResets
<1> QED BY <1>2, <1>3, <1>4 DEF ResetForEvent

-----------------------------------------------------------------------------
(* The outcomes.                                                           *)

\* What Classify and ParseResponse return.
Told ==
  /\ input \in Inputs
  /\ outcome = None \/ outcome \in Classify(input) \/ outcome \in ParseResponse(input)

LEMMA AlwaysTold == Spec => []Told
<1>1. Init => Told
      BY DEF Init, Told
<1>2. Told /\ [Next]_vars => Told'
      BY DEF Told, Next, Classified, Probed, vars
<1> QED BY <1>1, <1>2, PTL DEF Spec

\* A decision, and the search results and windows it was made from.
Decided(in, out, usage, rate, limit, allowed, ws) ==
  out = Decide(in, usage = "usage_limit", rate = "rate_limit",
               QuotaEvidence(in.doc, limit, allowed, ws), ws)

LEMMA Decisions ==
  ASSUME NEW in, NEW out \in Classify(in)
  PROVE  \E usage, rate \in Found(in.doc, "kind"), limit \in Found(in.doc, "limit"),
            allowed \in Found(in.doc, "allowed"), ws \in EventWindows(in) :
           Decided(in, out, usage, rate, limit, allowed, ws)
BY DEF Classify, Decided

\* An exhausted quota has the reset that was found for the event.
LEMMA ExhaustedDecision ==
  ASSUME Told, IsExhausted
  PROVE  \E usage, rate \in Found(input.doc, "kind"), limit \in Found(input.doc, "limit"),
            allowed \in Found(input.doc, "allowed"), ws \in EventWindows(input) :
           /\ \/ usage = "usage_limit" \/ QuotaEvidence(input.doc, limit, allowed, ws)
              \/ input.generic /\ rate = "rate_limit"
           /\ outcome.reset = ResetForEvent(input, ws)
<1>1. outcome \notin ParseResponse(input)
      BY DEF IsExhausted, ParseResponse, Read
<1>2. outcome \in Classify(input)
      BY <1>1 DEF Told, IsExhausted
<1>3. PICK usage, rate \in Found(input.doc, "kind"), limit \in Found(input.doc, "limit"),
           allowed \in Found(input.doc, "allowed"), ws \in EventWindows(input) :
             Decided(input, outcome, usage, rate, limit, allowed, ws)
      BY <1>2, Decisions
<1>4. outcome.decision = "exhausted"
      BY DEF IsExhausted
<1>5. /\ \/ usage = "usage_limit" \/ QuotaEvidence(input.doc, limit, allowed, ws)
         \/ input.generic /\ rate = "rate_limit"
      /\ outcome.reset = ResetForEvent(input, ws)
      BY <1>3, <1>4 DEF Decided, Decide, Transient
<1> QED BY <1>5

\* What findValue has found is in an object of the document.
LEMMA FoundIsThere ==
  ASSUME NEW doc, NEW key, NEW x \in Found(doc, key), x # None
  PROVE  doc # None /\ \E n \in DOMAIN doc : x = doc[n][key]
BY DEF Found, Values

\* An outcome is one of the three kinds, and a quota never comes back at a time that is
\* past, or too far away to be believed, whatever times the answer has.
THEOREM TypeCorrect == Spec => []TypeOK
<1>1. Told => TypeOK
  <2> SUFFICES ASSUME Told PROVE TypeOK
      OBVIOUS
  <2>1. input \in Inputs
        BY DEF Told
  <2>2. ASSUME outcome \in Classify(input)
        PROVE  outcome \in [decision : {"exhausted", "transient"}, reset : Resets]
    <3>1. PICK usage, rate \in Found(input.doc, "kind"), limit \in Found(input.doc, "limit"),
               allowed \in Found(input.doc, "allowed"), ws \in EventWindows(input) :
                 Decided(input, outcome, usage, rate, limit, allowed, ws)
          BY <2>2, Decisions
    <3>2. ResetForEvent(input, ws) \in Resets /\ None \in Resets
          BY <2>1, ResetOfEvents DEF Resets
    <3> QED BY <3>1, <3>2 DEF Decided, Decide, Transient
  <2>3. ASSUME outcome \in ParseResponse(input)
        PROVE  outcome \in [status : {"unknown", "available", "exhausted"}, reset : Resets]
    <3>1. PICK ws \in ParseInventory(input) : outcome = Read(input, ws)
          BY <2>3 DEF ParseResponse
    <3>2. \A e \in ws : e.w \in AWindow
          BY <2>1, KeptIsFounded DEF Founded
    <3>3. LatestFutureReset(ws) \in Resets /\ None \in Resets
          BY <3>2, ResetOfWindows DEF Resets
    <3> QED BY <3>1, <3>3 DEF Read
  <2> QED BY <2>1, <2>2, <2>3 DEF Told, TypeOK
<1> QED BY <1>1, AlwaysTold, PTL

\* An object of the document with a reset of its own is a window, if its name is one.
LEMMA ResetMakesWindow ==
  ASSUME NEW in \in Inputs, in.doc # None, NEW n \in DOMAIN in.doc \cap Windows,
         NEW t \in {in.doc[n].at, in.doc[n].resetTime, in.doc[n].after}, Usable({t}) # {}
  PROVE  /\ IsWindow(in.doc, n) /\ n \in Described(in.doc) /\ OwnReset(in.doc[n]) # None
         /\ Recognized(in.doc)
<1>1. IsDoc(in.doc) /\ in.doc[n] \in Objects
      BY Calls DEF IsDoc
<1>2. OwnReset(in.doc[n]) # None
      BY <1>1, OwnResets
<1>3. Recognized(in.doc)
  <2>1. "rate_limit" \in DOMAIN in.doc
        BY <1>1, Tree DEF IsDoc, Windows
  <2> QED BY <2>1 DEF Recognized
<1> QED BY <1>2, <1>3 DEF IsWindow, Described

\* Of the exhausted windows of the document, the last reset of the class that wins is
\* taken: the absolute ones before the relative ones, and these before resetTime, which
\* counts only where a window is read.
THEOREM ResetIsLate == Spec => []ResetOutlastsWindows
<1>1. Told => ResetOutlastsWindows
  <2> DEFINE absolute == Usable({input.doc[m].at : m \in DOMAIN input.doc})
             relative == Usable({input.doc[m].after : m \in DOMAIN input.doc})
             NotBefore(t) == Usable({t}) # {} => outcome.reset # None /\ outcome.reset >= t
  <2> SUFFICES ASSUME Told, IsExhausted, input.doc # None,
                      NEW n \in DOMAIN input.doc \cap Windows
               PROVE  /\ Shut(input.doc, n) => NotBefore(input.doc[n].at)
                      /\ Shut(input.doc, n) /\ absolute = {} => NotBefore(input.doc[n].after)
                      /\ SeenShut(input.doc, n) /\ absolute = {} /\ relative = {} /\ Within
                           => NotBefore(input.doc[n].resetTime)
      BY DEF ResetOutlastsWindows
  <2>1. PICK ws \in EventWindows(input) : outcome.reset = ResetForEvent(input, ws)
        BY ExhaustedDecision
  <2>2. input \in Inputs /\ IsDoc(input.doc) /\ input.doc[n] \in Objects
        BY Calls DEF Told, IsDoc
  <2>3. Shut(input.doc, n) => SpeaksOfReset(input.doc, n)
        BY <2>2, WindowOfDoc DEF SpeaksOfReset
  <2>4. ASSUME Shut(input.doc, n), Usable({input.doc[n].at}) # {}
        PROVE  outcome.reset # None /\ outcome.reset >= input.doc[n].at
    <3>1. StructuredReset(input.doc) # None /\ StructuredReset(input.doc) >= input.doc[n].at
          BY <2>2, <2>3, <2>4, ResetOfDocument
    <3> QED BY <2>1, <2>2, <3>1, ResetOfEvents
  <2>5. ASSUME Shut(input.doc, n), absolute = {}, Usable({input.doc[n].after}) # {}
        PROVE  outcome.reset # None /\ outcome.reset >= input.doc[n].after
    <3>1. StructuredReset(input.doc) # None /\ StructuredReset(input.doc) >= input.doc[n].after
          BY <2>2, <2>3, <2>5, ResetOfDocument
    <3> QED BY <2>1, <2>2, <3>1, ResetOfEvents
  <2>6. ASSUME SeenShut(input.doc, n), absolute = {}, relative = {}, Within,
               Usable({input.doc[n].resetTime}) # {}
        PROVE  outcome.reset # None /\ outcome.reset >= input.doc[n].resetTime
    <3>1. StructuredReset(input.doc) = None
      <4> SUFFICES ASSUME StructuredReset(input.doc) # None PROVE FALSE
          OBVIOUS
      <4>1. PICK m \in DOMAIN input.doc : \/ StructuredReset(input.doc) = input.doc[m].at
                                          \/ StructuredReset(input.doc) = input.doc[m].after
            BY <2>2, ResetOfDocument
      <4>2. StructuredReset(input.doc) \in 1..MaxFuture
            BY <2>2, ResetOfDocument DEF Resets
      <4>3. ValidReset(StructuredReset(input.doc))
            BY <4>2, QuotaAssumption DEF ValidReset
      <4> QED BY <2>6, <4>1, <4>3 DEF Usable
    <3>2. /\ n \in Described(input.doc) /\ Recognized(input.doc)
          /\ OwnReset(input.doc[n]) = input.doc[n].resetTime /\ OwnReset(input.doc[n]) # None
      <4>1. Usable({input.doc[n].at}) = {}
            BY <2>6 DEF Usable
      <4> QED BY <2>2, <2>6, <4>1, ResetMakesWindow, OwnResets
    <3>3. \E e \in ws : Exhausted(e.w) /\ e.w.reset = input.doc[n].resetTime
          BY <2>2, <2>6, <3>2, ShutIsKept
    <3>4. \A e \in ws : e.w \in AWindow
          BY <2>2, EventWindowsAreFounded DEF Founded
    <3>5. LatestFutureReset(ws) # None /\ LatestFutureReset(ws) >= input.doc[n].resetTime
          BY <2>6, <3>3, <3>4, ResetOfWindows
    <3> QED BY <2>1, <2>2, <3>1, <3>5, ResetOfEvents
  <2> QED BY <2>4, <2>5, <2>6
<1> QED BY <1>1, AlwaysTold, PTL

\* A window that is open does not delay the return: the time is one of the headers, or of
\* an object that is no window, or of a window that the document or its headers say is
\* exhausted.
THEOREM ResetIsOfExhausted == Spec => []OpenWindowsDoNotDelay
<1>1. Told => OpenWindowsDoNotDelay
  <2> SUFFICES ASSUME Told, IsExhausted, outcome.reset # None,
                      outcome.reset \notin HeaderTimes(input)
               PROVE  /\ input.doc # None
                      /\ \E n \in DOMAIN input.doc :
                           /\ outcome.reset \in {input.doc[n].at, input.doc[n].resetTime,
                                                 input.doc[n].after}
                           /\ n \in Windows =>
                                Shut(input.doc, n) \/ MayBeShut(input.families, FamilyOf[n])
      BY DEF OpenWindowsDoNotDelay, HeaderTimes
  <2>1. PICK ws \in EventWindows(input) : outcome.reset = ResetForEvent(input, ws)
        BY ExhaustedDecision
  <2>2. input \in Inputs /\ (input.doc # None => IsDoc(input.doc))
        BY Calls DEF Told
  <2>3. outcome.reset \in {StructuredReset(input.doc), LatestFutureReset(ws)}
        BY <2>1, <2>2, ResetOfEvents, HeaderResets
  <2>4. CASE outcome.reset = StructuredReset(input.doc)
    <3>1. /\ input.doc # None
          /\ \E n \in DOMAIN input.doc : SpeaksOfReset(input.doc, n)
               /\ outcome.reset \in {input.doc[n].at, input.doc[n].after}
          BY <2>2, <2>4, ResetOfDocument
    <3>2. PICK n \in DOMAIN input.doc :
            /\ SpeaksOfReset(input.doc, n)
            /\ outcome.reset \in {input.doc[n].at, input.doc[n].after}
          BY <3>1
    <3>3. ASSUME n \in Windows PROVE Shut(input.doc, n)
      <4>1. outcome.reset \in Resets \ {None}
            BY <2>1, <2>2, ResetOfEvents
      <4>2. Usable({outcome.reset}) # {}
        <5>1. outcome.reset \in Times /\ ValidReset(outcome.reset)
              BY <4>1, QuotaAssumption DEF Resets, Times, ValidReset
        <5> QED BY <4>1, <5>1, OneUsable
      <4>3. IsWindow(input.doc, n)
            BY <2>2, <3>1, <3>2, <3>3, <4>2, ResetMakesWindow
      <4> QED BY <2>2, <3>1, <3>2, <3>3, <4>3, WindowOfDoc DEF SpeaksOfReset
    <3> QED BY <3>1, <3>2, <3>3
  <2>5. CASE outcome.reset = LatestFutureReset(ws)
    <3>1. \A e \in ws : Founded(input, e.w)
          BY <2>2, EventWindowsAreFounded
    <3>2. PICK e \in ws : Exhausted(e.w) /\ outcome.reset = e.w.reset
          BY <2>5, <3>1, ResetOfWindows DEF Founded
    <3>3. PICK n \in DOMAIN input.doc \cap Windows :
            /\ input.doc # None /\ outcome.reset = OwnReset(input.doc[n])
            /\ SeenShut(input.doc, n) \/ MayBeShut(input.families, FamilyOf[n])
          BY <3>1, <3>2 DEF Founded
    <3>4. outcome.reset \in {input.doc[n].at, input.doc[n].resetTime, input.doc[n].after}
          BY <2>2, <3>3, OwnResets DEF IsDoc
    <3> QED BY <2>2, <3>3, <3>4, SeenIsShut
  <2> QED BY <2>3, <2>4, <2>5
<1> QED BY <1>1, AlwaysTold, PTL

\* A failure is taken for an exhausted quota only if something in its document or headers
\* says so; its status never does.
THEOREM SilenceIsNoEvidence == Spec => []SilenceIsTransient
<1>1. Told => SilenceIsTransient
  <2> SUFFICES ASSUME Told, IsExhausted, \A f \in DOMAIN input.families : ~MayBeShut(input.families, f)
               PROVE  /\ input.doc # None
                      /\ \E n \in DOMAIN input.doc :
                           \/ input.doc[n].kind \in {"usage_limit", "insufficient"}
                           \/ input.doc[n].kind = "rate_limit" /\ input.generic
                           \/ SeenShut(input.doc, n)
      BY DEF SilenceIsTransient
  <2>1. PICK usage, rate \in Found(input.doc, "kind"), limit \in Found(input.doc, "limit"),
             allowed \in Found(input.doc, "allowed"), ws \in EventWindows(input) :
               \/ usage = "usage_limit" \/ QuotaEvidence(input.doc, limit, allowed, ws)
               \/ input.generic /\ rate = "rate_limit"
        BY ExhaustedDecision
  <2>2. input \in Inputs /\ (input.doc # None => IsDoc(input.doc))
        BY Calls DEF Told
  <2>3. None # TRUE /\ None # FALSE /\ None # "usage_limit" /\ None # "rate_limit"
    <3>1. None # "usage_limit" /\ None # "rate_limit"
          BY QuotaAssumption
    <3>2. None # TRUE /\ None # FALSE
          BY QuotaAssumption
    <3> QED BY <3>1, <3>2
  <2>4. CASE usage = "usage_limit"
    <3>1. input.doc # None /\ \E n \in DOMAIN input.doc : usage = input.doc[n]["kind"]
          BY <2>3, <2>4, FoundIsThere
    <3> QED BY <2>4, <3>1
  <2>5. CASE input.generic /\ rate = "rate_limit"
    <3>1. input.doc # None /\ \E n \in DOMAIN input.doc : rate = input.doc[n]["kind"]
          BY <2>3, <2>5, FoundIsThere
    <3> QED BY <2>5, <3>1
  <2>6. CASE limit = TRUE \/ allowed = FALSE
    <3>1. input.doc # None /\ \E n \in DOMAIN input.doc :
            input.doc[n]["limit"] = TRUE \/ input.doc[n]["allowed"] = FALSE
      <4>1. CASE limit = TRUE
        <5>1. limit # None
              BY <2>3, <4>1
        <5>2. input.doc # None /\ \E n \in DOMAIN input.doc : limit = input.doc[n]["limit"]
              BY <5>1, FoundIsThere
        <5> QED BY <4>1, <5>2
      <4>2. CASE allowed = FALSE
        <5>1. allowed # None
              BY <2>3, <4>2
        <5>2. input.doc # None /\ \E n \in DOMAIN input.doc : allowed = input.doc[n]["allowed"]
              BY <5>1, FoundIsThere
        <5> QED BY <4>2, <5>2
      <4> QED BY <2>6, <4>1, <4>2
    <3>2. \A n \in DOMAIN input.doc : n \in Above[n]
          BY <2>2, <3>1, Tree DEF IsDoc
    <3> QED BY <3>1, <3>2 DEF SeenShut, Barred
  <2>7. CASE \E e \in ws : Exhausted(e.w)
    <3>1. PICK e \in ws : Exhausted(e.w)
          BY <2>7
    <3>2. Founded(input, e.w)
          BY <2>2, EventWindowsAreFounded
    <3> QED BY <3>1, <3>2 DEF Founded, MayBeShut
  <2>8. CASE "insufficient" \in Values(input.doc, "kind")
    <3>1. input.doc # None /\ \E n \in DOMAIN input.doc : "insufficient" = input.doc[n]["kind"]
          BY <2>8 DEF Values
    <3> QED BY <3>1
  <2> QED BY <2>1, <2>4, <2>5, <2>6, <2>7, <2>8 DEF QuotaEvidence
<1> QED BY <1>1, AlwaysTold, PTL

-----------------------------------------------------------------------------
(* What passes for a recovery.                                             *)

\* A health check takes a credential for recovered only if no window of its document is
\* seen to be exhausted, by what is said of it or a use that is believed, and if the
\* headers of every family that the document does not have may be read as saying that it
\* is open; as long as there are no more windows than are kept.
THEOREM RecoveredIsOpen == Spec => []AvailableIsOpen
<1>1. Told => AvailableIsOpen
  <2> SUFFICES ASSUME Told, IsAvailable, Within
               PROVE  /\ \A n \in Described(input.doc) : ~SeenShut(input.doc, n)
                      /\ \A f \in DOMAIN input.families :
                           (\A n \in Described(input.doc) : FamilyOf[n] # f) =>
                             MayBeOpen(input.families, f)
      BY DEF AvailableIsOpen
  <2>1. outcome \notin Classify(input)
    <3>1. \A out \in Classify(input) : DOMAIN out = {"decision", "reset"}
          BY DEF Classify, Decide, Transient
    <3> QED BY <3>1 DEF IsAvailable
  <2>2. outcome \in ParseResponse(input) /\ input \in Inputs
        BY <2>1 DEF Told, IsAvailable
  <2>3. PICK ws \in ParseInventory(input) : outcome = Read(input, ws)
        BY <2>2 DEF ParseResponse
  <2>4. ws # {} /\ \A e \in ws : ~Exhausted(e.w)
        BY <2>3 DEF IsAvailable, Read
  <2>5. Recognized(input.doc) /\ input.doc # None
        BY <2>2, <2>4, KeptIsFounded
  <2>6. PICK hs \in HeaderWindows(input.families) : ws = AllOf(input, hs)
        BY <2>2, <2>5, AllIsKept DEF ParseInventory
  <2>7. ASSUME NEW n \in Described(input.doc) PROVE ~SeenShut(input.doc, n)
    <3> DEFINE w == Timed(input, Merged(WindowAt(input.doc, n), hs))
               entry == [path |-> n, w |-> w]
    <3>1. entry \in OfDocument(input, hs)
          BY DEF OfDocument
    <3>2. w \in AWindow /\ (SeenShut(input.doc, n) => Seen(w))
          BY <2>2, <2>5, WindowInInventory
    <3> HIDE DEF w
    <3>3. [entry EXCEPT !.w = Safe(@)] \in ws
          BY <2>6, <3>1 DEF AllOf
    <3>4. ~Exhausted(Safe(w))
          BY <2>4, <3>3
    <3> QED BY <3>2, <3>4, SafeIs
  <2>8. ASSUME NEW f \in DOMAIN input.families, \A n \in Described(input.doc) : FamilyOf[n] # f
        PROVE  MayBeOpen(input.families, f)
    <3>1. CASE f \in Heard(input.families)
      <4>1. PICK h \in hs : h \in HeaderWindow(input.families, f)
            BY <3>1, HeaderChoice
      <4>2. h \in AWindow /\ h.family = f /\ (Exhausted(h) <=> Seen(h))
            BY <2>2, <4>1, WindowOfHeaders
      <4> DEFINE entry == [path |-> h.family, w |-> Timed(input, h)]
      <4>3. entry \in OnlyInHeaders(input, hs)
            BY <2>8, <4>2 DEF OnlyInHeaders
      <4>4. [entry EXCEPT !.w = Safe(@)] \in ws
            BY <2>6, <4>3 DEF AllOf
      <4>5. ~Exhausted(Safe(Timed(input, h)))
            BY <2>4, <4>4
      <4>6. ~Exhausted(h)
            BY <2>2, <4>2, <4>5, TimedIs, SafeIs
      <4> QED BY <4>1, <4>6 DEF MayBeOpen
    <3>2. CASE f \notin Heard(input.families)
      <4>1. PICK h : h \in HeaderWindow(input.families, f)
            BY HeaderWindowsAre
      <4> QED BY <2>2, <3>2, <4>1, WindowOfHeaders DEF MayBeOpen
    <3> QED BY <3>1, <3>2
  <2> QED BY <2>7, <2>8
<1> QED BY <1>1, AlwaysTold, PTL

-----------------------------------------------------------------------------
(* When a failure has one decision.                                        *)

\* The fields that findValue looks for have one value each, wherever they stand.
SaysOneThing(doc) ==
  \A key \in {"kind", "limit", "allowed"} : \A x, y \in Values(doc, key) : x = y

\* The headers that are taken for one family say one thing of it.
OneHeaderEach(families) ==
  \A f \in DOMAIN families :
    /\ \A x, y \in Believed(families[f].used) : x = y
    /\ \A x, y \in families[f].limit : x = y
    /\ \A x, y \in families[f].allowed : x = y
    /\ \A x, y \in Usable(families[f].at \cup families[f].after) : x = y

\* The windows of the headers are then no choice.
LEMMA OneSetOfHeaders ==
  ASSUME NEW families, OneHeaderEach(families),
         NEW hs \in HeaderWindows(families), NEW gs \in HeaderWindows(families)
  PROVE  hs = gs
<1>1. \A f \in DOMAIN families : \A h, g \in HeaderWindow(families, f) : h = g
  <2> TAKE f \in DOMAIN families
  <2>1. /\ \A x, y \in Last(Believed(families[f].used)) : x = y
        /\ \A x, y \in Last(families[f].limit) : x = y
        /\ \A x, y \in Last(families[f].allowed) : x = y
        /\ \A x, y \in Last(Usable(families[f].at \cup families[f].after)) : x = y
        BY DEF OneHeaderEach, Last
  <2> QED BY <2>1 DEF HeaderWindow
<1>2. PICK c : /\ hs = {c[f] : f \in Heard(families)}
               /\ \A f \in Heard(families) : c[f] \in HeaderWindow(families, f)
      BY HeaderChoice
<1>3. PICK d : /\ gs = {d[f] : f \in Heard(families)}
               /\ \A f \in Heard(families) : d[f] \in HeaderWindow(families, f)
      BY HeaderChoice
<1>4. \A f \in Heard(families) : c[f] = d[f]
      BY <1>1, <1>2, <1>3 DEF Heard
<1> QED BY <1>2, <1>3, <1>4

\* What is kept of the windows, and what a failure is judged by, is then no choice.
LEMMA OneInventory ==
  ASSUME NEW in \in Inputs, Within, OneHeaderEach(in.families),
         NEW ws \in ParseInventory(in), NEW vs \in ParseInventory(in)
  PROVE  ws = vs
<1>1. PICK hs \in HeaderWindows(in.families) : ws \in Kept(Inventory(in, hs))
      BY DEF ParseInventory
<1>2. PICK gs \in HeaderWindows(in.families) : vs \in Kept(Inventory(in, gs))
      BY DEF ParseInventory
<1>3. hs = gs
      BY OneSetOfHeaders
<1>4. CASE Recognized(in.doc)
      BY <1>1, <1>2, <1>3, <1>4, AllIsKept
<1>5. CASE ~Recognized(in.doc)
  <2>1. ASSUME NEW s \in FirstOf(Inventory(in, hs)) PROVE s = {}
    <3>1. Inventory(in, hs).body = {} /\ Inventory(in, hs).alone = {}
          BY <1>5 DEF Inventory
    <3> QED BY <3>1 DEF FirstOf
  <2> QED BY <1>1, <1>2, <1>3, <2>1 DEF Kept
<1> QED BY <1>4, <1>5

\* A failure has one decision, and an answer one reading, where no field has two values,
\* the headers of a family do not contradict each other, and there are no more windows than
\* are kept: the order in which a map is visited matters for nothing else.
THEOREM OneDecision ==
  ASSUME NEW in \in Inputs, SaysOneThing(in.doc), OneHeaderEach(in.families), Within
  PROVE  /\ \A one, other \in Classify(in) : one = other
         /\ \A one, other \in ParseResponse(in) : one = other
<1>1. \A ws, vs \in ParseInventory(in) : ws = vs
      BY OneInventory
<1>2. \A key \in {"kind", "limit", "allowed"} : \A x, y \in Found(in.doc, key) : x = y
      BY DEF SaysOneThing, Found
<1>3. \A x, y \in EventWindows(in) : x = y
  <2> TAKE x, y \in EventWindows(in)
  <2> DEFINE OfHeader(hs) == {[path |-> h.family, w |-> h] : h \in hs}
             Of(kept) == IF kept # {} THEN {kept}
                         ELSE {OfHeader(hs) : hs \in HeaderWindows(in.families)}
  <2>1. (\E kept \in ParseInventory(in) : x \in Of(kept)) /\ (\E kept \in ParseInventory(in) : y \in Of(kept))
        BY DEF EventWindows
  <2>2. PICK kept \in ParseInventory(in) : x \in Of(kept) /\ y \in Of(kept)
    <3> HIDE DEF Of
    <3> QED BY <1>1, <2>1
  <2>3. \A hs, gs \in HeaderWindows(in.families) : hs = gs
        BY OneSetOfHeaders
  <2>4. CASE kept # {}
        BY <2>2, <2>4
  <2>5. CASE kept = {}
    <3>1. PICK hs \in HeaderWindows(in.families) : x = OfHeader(hs)
          BY <2>2, <2>5
    <3>2. PICK gs \in HeaderWindows(in.families) : y = OfHeader(gs)
          BY <2>2, <2>5
    <3> QED BY <2>3, <3>1, <3>2
  <2> QED BY <2>4, <2>5
<1>4. ASSUME NEW one \in Classify(in), NEW other \in Classify(in) PROVE one = other
      BY <1>2, <1>3 DEF Classify
<1>5. ASSUME NEW one \in ParseResponse(in), NEW other \in ParseResponse(in) PROVE one = other
      BY <1>1 DEF ParseResponse
<1> QED BY <1>4, <1>5

=============================================================================
