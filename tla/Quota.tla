-------------------------------- MODULE Quota --------------------------------
(***************************************************************************)
(* What an answer of the upstream says about a credential's quota: how a   *)
(* failed request is classified (quota.Classify), which time the quota is  *)
(* said to come back, and how the answer to a health check is read         *)
(* (codexhealth.ParseResponse).                                            *)
(*                                                                         *)
(* An answer is a status, headers and a document.  A document is a tree of *)
(* objects; the places of the tree are named here by their paths, and an   *)
(* object keeps what the code looks for.  Three things depend on the order *)
(* in which Go visits a map, which is any order: what findValue finds      *)
(* first, which of several headers of one family is read last, and which   *)
(* windows are left when there are too many.  So both functions are sets   *)
(* of outcomes here.  The time of the call is 0.                           *)
(***************************************************************************)
EXTENDS Integers, FiniteSets

CONSTANTS
  None,
  MaxFuture,    \* bound of the code: how far away a reset may be
  MaxWindows,   \* bound of the code: the windows that are kept
  Inputs        \* the calls that are looked at

Parent  == [error |-> "root", rate_limit |-> "root",
            primary_window |-> "rate_limit", secondary_window |-> "rate_limit"]
Paths   == {"root"} \cup DOMAIN Parent
Windows == {"rate_limit", "primary_window", "secondary_window"}   \* by their names

MaxPercent == 1000   \* bound of the code: a use beyond it is not believed

\* "kind" stands for the strings under type, code and reason; "at" for the keys of an
\* absolute reset that both parseWindow and structuredReset know, "resetTime" for the one
\* that structuredReset misses, "after" for those of a relative reset; "length" for
\* limit_window_seconds.
Kinds   == {"usage_limit", "rate_limit", "insufficient", "other", None}
Flags   == BOOLEAN \cup {None}
Times   == Int \cup {None}
Objects == [kind : Kinds, limit : Flags, allowed : Flags, used : Times, length : BOOLEAN,
            at : Times, resetTime : Times, after : Times]

\* safeFamily gives many headers one family; these are the values that they have.
Families  == {"primary", "secondary", "code_review", "additional"}
FamilyOf  == [rate_limit |-> "additional", primary_window |-> "primary",
              secondary_window |-> "secondary"]
OfHeaders == [used : SUBSET Int, limit : SUBSET BOOLEAN, allowed : SUBSET BOOLEAN,
              at : SUBSET Int, after : SUBSET Int]

\* "more" are the resets that only headerReset reads: the further values of a header.
ASSUME QuotaAssumption ==
  /\ None \notin BOOLEAN /\ None \notin {"usage_limit", "rate_limit", "insufficient", "other"}
  /\ None \notin Int
  /\ MaxFuture \in Nat \ {0} /\ MaxWindows \in Nat
  /\ \A in \in Inputs :
       /\ in.status \in Nat /\ in.detect \in BOOLEAN /\ in.generic \in BOOLEAN
       /\ in.doc = None \/ \A n \in DOMAIN in.doc :
            in.doc[n] \in Objects /\ n \in Paths /\ (n # "root" => Parent[n] \in DOMAIN in.doc)
       /\ DOMAIN in.families \subseteq Families
       /\ \A f \in DOMAIN in.families : in.families[f] \in OfHeaders
       /\ in.more \subseteq Int /\ in.retry \subseteq Int

VARIABLES
  input,     \* the call
  outcome    \* what came of it

-----------------------------------------------------------------------------
(* Times.                                                                  *)

\* Mutant: the time of the call itself passes for the future.
ValidResetNow(t) == 0 <= t /\ t <= MaxFuture

ValidReset(t) == 0 < t /\ t <= MaxFuture

Usable(ts) == {t \in ts \ {None} : ValidReset(t)}

Latest(ts) == IF ts = {} THEN None ELSE CHOOSE t \in ts : \A u \in ts : u <= t

-----------------------------------------------------------------------------
(* The windows of an answer.                                               *)

Exhausted(w) == w.limit \/ w.allowed = FALSE \/ (w.used # None /\ w.used >= 100)

\* What an object says holds for everything below it.
Limit(doc) ==
  LET limit[n \in Paths] ==
        \/ n \in DOMAIN doc /\ doc[n].limit = TRUE
        \/ n # "root" /\ limit[Parent[n]]
  IN  limit

Blocked(doc) ==
  LET blocked[n \in Paths] ==
        \/ n \in DOMAIN doc /\ doc[n].allowed = FALSE
        \/ n # "root" /\ blocked[Parent[n]]
  IN  blocked

\* parseWindow takes the first usable key.
OwnReset(o) ==
  IF Usable({o.at}) # {} THEN o.at
  ELSE IF Usable({o.resetTime}) # {} THEN o.resetTime ELSE Latest(Usable({o.after}))

\* parseWindow: an object is a window when it has anything to say about one.
IsWindow(doc, n) ==
  /\ n \in DOMAIN doc \cap Windows
  /\ \/ doc[n].used # None \/ doc[n].limit # None \/ doc[n].allowed # None
     \/ doc[n].length \/ OwnReset(doc[n]) # None

\* Mutant: what the objects above say is not looked at.
WindowAtAlone(doc, n) ==
  [family |-> FamilyOf[n], used |-> doc[n].used, reset |-> OwnReset(doc[n]),
   limit |-> doc[n].limit = TRUE, allowed |-> doc[n].allowed]

WindowAt(doc, n) ==
  [family |-> FamilyOf[n], used |-> doc[n].used, reset |-> OwnReset(doc[n]),
   limit |-> Limit(doc)[n],
   allowed |-> IF Blocked(doc)[n] THEN FALSE ELSE doc[n].allowed]

\* What may be left of several values, when each replaces the one before it.
Last(values) == IF values = {} THEN {None} ELSE values

Believed(values) == {v \in values : v \in 0..MaxPercent}

\* headerWindows: the window of a family is made of the values that were read last; the
\* two kinds of resets replace each other.
HeaderWindow(families, f) ==
  LET h == families[f]
  IN  {[family |-> f, used |-> u, reset |-> t, limit |-> l = TRUE, allowed |-> a] :
         u \in Last(Believed(h.used)), t \in Last(Usable(h.at \cup h.after)),
         l \in Last(h.limit), a \in Last(h.allowed)}

\* A family of which nothing is known is none.
Heard(families) ==
  {f \in DOMAIN families :
     \/ Believed(families[f].used) # {} \/ families[f].limit # {} \/ families[f].allowed # {}
     \/ Usable(families[f].at \cup families[f].after) # {}}

\* One window for each family, in every way the headers may be visited.
HeaderWindows(families) ==
  LET heard == Heard(families)
      Choices == {c \in [heard -> UNION {HeaderWindow(families, f) : f \in heard}] :
                    \A f \in heard : c[f] \in HeaderWindow(families, f)}
  IN  {{c[f] : f \in heard} : c \in Choices}

\* headerReset: a header of the upstream is more specific than Retry-After.
CodexTimes(in) ==
  in.more \cup UNION {in.families[f].at \cup in.families[f].after : f \in DOMAIN in.families}

HeaderReset(in) ==
  LET codex == Usable(CodexTimes(in))
  IN  IF codex # {} THEN Latest(codex) ELSE Latest(Usable(in.retry))

\* mergeHeaderWindows: the headers fill in what the document leaves open.
Merged(w, hs) ==
  LET of == {h \in hs : h.family = w.family}
  IN  IF of = {} THEN w
      ELSE LET h == CHOOSE x \in of : TRUE
           IN  [w EXCEPT !.used = IF @ = None THEN h.used ELSE @,
                         !.limit = @ \/ h.limit,
                         !.allowed = IF @ = None THEN h.allowed ELSE @,
                         !.reset = IF @ = None THEN h.reset ELSE @]

Recognized(doc) == doc # None /\ "rate_limit" \in DOMAIN doc

\* An exhausted window that does not tell when it opens takes the time from the headers.
Timed(in, w) == [w EXCEPT !.reset = IF @ = None /\ Exhausted(w) THEN HeaderReset(in) ELSE @]

Described(doc) == {n \in Windows : IsWindow(doc, n)}

\* parseInventory: windows of the document by their paths, and those of the families that
\* are only in the headers.
OfDocument(in, hs) ==
  {[path |-> n, w |-> Timed(in, Merged(WindowAt(in.doc, n), hs))] : n \in Described(in.doc)}

OnlyInHeaders(in, hs) ==
  {[path |-> h.family, w |-> Timed(in, h)] :
     h \in {x \in hs : \A n \in Described(in.doc) : FamilyOf[n] # x.family}}

Inventory(in, hs) ==
  IF ~Recognized(in.doc) THEN [body |-> {}, alone |-> {}]
  ELSE [body |-> OfDocument(in, hs), alone |-> OnlyInHeaders(in, hs)]

\* SafeQuotaWindows keeps the first MaxWindows; those of the document come first.
FirstOf(inv) ==
  LET n == Cardinality(inv.body)
      Some(ws, k) == {s \in SUBSET ws : Cardinality(s) = k}
  IN  IF n >= MaxWindows THEN Some(inv.body, MaxWindows)
      ELSE {inv.body \cup s : s \in
             Some(inv.alone, IF n + Cardinality(inv.alone) <= MaxWindows
                             THEN Cardinality(inv.alone) ELSE MaxWindows - n)}

\* It forgets a use that is not to be believed, and with it what that said of the window.
Safe(w) == [w EXCEPT !.used = IF @ \in 0..MaxPercent THEN @ ELSE None]

Kept(inv) == {{[e EXCEPT !.w = Safe(@)] : e \in s} : s \in FirstOf(inv)}

ParseInventory(in) == UNION {Kept(Inventory(in, hs)) : hs \in HeaderWindows(in.families)}

-----------------------------------------------------------------------------
(* Classify.                                                               *)

\* findValue returns the first of the values of a key that it comes across.
Values(doc, key) == IF doc = None THEN {} ELSE {doc[n][key] : n \in DOMAIN doc} \ {None}
Found(doc, key)  == IF Values(doc, key) = {} THEN {None} ELSE Values(doc, key)

\* Mutant: the reset of a window that is open counts, too.
SpeaksOfResetAlways(doc, n) == TRUE

\* An object's own reset counts, unless the object is a window that is not exhausted.
SpeaksOfReset(doc, n) == IsWindow(doc, n) => Exhausted(WindowAt(doc, n))

\* structuredReset: absolute times before relative ones; it does not know resetTime.
StructuredReset(doc) ==
  LET speak == IF doc = None THEN {} ELSE {n \in DOMAIN doc : SpeaksOfReset(doc, n)}
      absolute == Usable({doc[n].at : n \in speak})
  IN  IF absolute # {} THEN Latest(absolute) ELSE Latest(Usable({doc[n].after : n \in speak}))

LatestFutureReset(ws) == Latest(Usable({e.w.reset : e \in {f \in ws : Exhausted(f.w)}}))

\* Mutant: the headers come before the document.
ResetForEventHeadersFirst(in, ws) ==
  IF HeaderReset(in) # None THEN HeaderReset(in)
  ELSE IF StructuredReset(in.doc) # None THEN StructuredReset(in.doc) ELSE LatestFutureReset(ws)

ResetForEvent(in, ws) ==
  IF StructuredReset(in.doc) # None THEN StructuredReset(in.doc)
  ELSE IF LatestFutureReset(ws) # None THEN LatestFutureReset(ws) ELSE HeaderReset(in)

Transient == [decision |-> "transient", reset |-> None]

\* Without an inventory the windows are those of the headers, which are visited again.
EventWindows(in) ==
  UNION {IF kept # {} THEN {kept}
         ELSE {{[path |-> h.family, w |-> h] : h \in hs} : hs \in HeaderWindows(in.families)} :
         kept \in ParseInventory(in)}

QuotaEvidence(doc, limit, allowed, ws) ==
  \/ limit = TRUE \/ allowed = FALSE
  \/ \E e \in ws : Exhausted(e.w)
  \/ "insufficient" \in Values(doc, "kind")

\* Mutant: any 429 is an exhausted quota.
DecideAny429(in, usage, rate, evidence, ws) ==
  IF usage \/ evidence \/ in.status = 429 \/ (in.generic /\ rate)
  THEN [decision |-> "exhausted", reset |-> ResetForEvent(in, ws)]
  ELSE Transient

Decide(in, usage, rate, evidence, ws) ==
  IF usage \/ evidence \/ (in.generic /\ rate /\ (in.status = 429 => in.detect))
  THEN [decision |-> "exhausted", reset |-> ResetForEvent(in, ws)]
  ELSE Transient

\* Each of the code's questions is a search of its own.
Classify(in) ==
  {Decide(in, usage = "usage_limit", rate = "rate_limit",
          QuotaEvidence(in.doc, limit, allowed, ws), ws) :
     usage \in Found(in.doc, "kind"), rate \in Found(in.doc, "kind"),
     limit \in Found(in.doc, "limit"), allowed \in Found(in.doc, "allowed"),
     ws \in EventWindows(in)}

-----------------------------------------------------------------------------
(* ParseResponse and QuotaObservationFromProbe.                            *)

Read(in, ws) ==
  LET status == IF in.status \notin 200..299 \/ ws = {} THEN "unknown"
                ELSE IF \E e \in ws : Exhausted(e.w) THEN "exhausted" ELSE "available"
  IN  [status |-> status,
       reset |-> IF in.status \in {401, 403} THEN None ELSE LatestFutureReset(ws)]

ParseResponse(in) == {Read(in, ws) : ws \in ParseInventory(in)}

-----------------------------------------------------------------------------
vars == <<input, outcome>>

Init == input \in Inputs /\ outcome = None

Classified == outcome = None /\ outcome' \in Classify(input) /\ UNCHANGED input
Probed     == outcome = None /\ outcome' \in ParseResponse(input) /\ UNCHANGED input

Next == Classified \/ Probed

Spec == Init /\ [][Next]_vars

-----------------------------------------------------------------------------
(* What must hold of an outcome.                                           *)

\* The types of the variables; a quota never comes back at a time that is past, or too
\* far away to be believed.
Resets == 1..MaxFuture \cup {None}

TypeOK ==
  /\ input \in Inputs
  /\ \/ outcome = None
     \/ outcome \in [decision : {"exhausted", "transient"}, reset : Resets]
     \/ outcome \in [status : {"unknown", "available", "exhausted"}, reset : Resets]

IsExhausted == outcome # None /\ "decision" \in DOMAIN outcome /\ outcome.decision = "exhausted"
IsAvailable == outcome # None /\ "status" \in DOMAIN outcome /\ outcome.status = "available"

\* The places from which nothing says that quota is used up.
Above == [root |-> {"root"}, error |-> {"root", "error"}, rate_limit |-> {"root", "rate_limit"},
          primary_window |-> {"root", "rate_limit", "primary_window"},
          secondary_window |-> {"root", "rate_limit", "secondary_window"}]

Barred(doc, n) == \E m \in Above[n] : doc[m].limit = TRUE \/ doc[m].allowed = FALSE

\* A window is shut when it is barred or its use is up; and it is seen to be when that use
\* can be believed.
Shut(doc, n)     == Barred(doc, n) \/ (doc[n].used # None /\ doc[n].used >= 100)
SeenShut(doc, n) == Barred(doc, n) \/ doc[n].used \in 100..MaxPercent

\* The headers of a family may be read as saying that it is exhausted, or that it is open.
MayBeShut(families, f) ==
  f \in DOMAIN families /\ \E h \in HeaderWindow(families, f) : Exhausted(h)
MayBeOpen(families, f) == \E h \in HeaderWindow(families, f) : ~Exhausted(h)

Within == Cardinality(Windows) + Cardinality(Families) <= MaxWindows

\* Of the exhausted windows of the document, the last reset of the class that wins is
\* taken: no earlier than any absolute one (but resetTime, which loses to the others);
\* if the document has none, than any relative one; and if it has none of these either,
\* than the resetTime of any exhausted window that is kept.  Of two classes the lower one
\* loses, even if it is later.
ResetOutlastsWindows ==
  IsExhausted /\ input.doc # None =>
    LET absolute == Usable({input.doc[m].at : m \in DOMAIN input.doc})
        relative == Usable({input.doc[m].after : m \in DOMAIN input.doc})
        NotBefore(t) == Usable({t}) # {} => outcome.reset # None /\ outcome.reset >= t
    IN  \A n \in DOMAIN input.doc \cap Windows :
          /\ Shut(input.doc, n) => NotBefore(input.doc[n].at)
          /\ Shut(input.doc, n) /\ absolute = {} => NotBefore(input.doc[n].after)
          /\ SeenShut(input.doc, n) /\ absolute = {} /\ relative = {} /\ Within
               => NotBefore(input.doc[n].resetTime)

\* A window of the document that is open does not keep the credential disabled: the
\* reset is that of a header, of an object that is no window, or of a window that is
\* shut, or may be by the headers of its family.
OpenWindowsDoNotDelay ==
  IsExhausted /\ outcome.reset # None =>
    \/ outcome.reset \in CodexTimes(input) \cup input.retry
    \/ /\ input.doc # None
       /\ \E n \in DOMAIN input.doc :
            /\ outcome.reset \in {input.doc[n].at, input.doc[n].resetTime, input.doc[n].after}
            /\ n \in Windows =>
                 Shut(input.doc, n) \/ MayBeShut(input.families, FamilyOf[n])

\* A failure that says nothing of a quota is transient, whatever its status; a use that
\* is not to be believed says nothing.
SilenceIsTransient ==
  IsExhausted =>
    \/ \E f \in DOMAIN input.families : MayBeShut(input.families, f)
    \/ /\ input.doc # None
       /\ \E n \in DOMAIN input.doc :
            \/ input.doc[n].kind \in {"usage_limit", "insufficient"}
            \/ input.doc[n].kind = "rate_limit" /\ input.generic
            \/ SeenShut(input.doc, n)

\* An answer that has one exhausted window, in its document or of a family that is only
\* in its headers, does not pass for a recovery, unless it has more windows than are
\* kept, or the window's use is beyond what is believed, or the headers also say that the
\* family is open.
AvailableIsOpen ==
  IsAvailable /\ Within =>
    /\ \A n \in Described(input.doc) : ~SeenShut(input.doc, n)
    /\ \A f \in DOMAIN input.families :
         (\A n \in Described(input.doc) : FamilyOf[n] # f) => MayBeOpen(input.families, f)

\* The package is a pure classifier: a failure has one decision.
ClassifyIsPure == IsExhausted => \A other \in Classify(input) : other.decision = "exhausted"

=============================================================================
