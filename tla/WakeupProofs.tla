----------------------------- MODULE WakeupProofs -----------------------------
(***************************************************************************)
(* Proofs about Wakeup: what was sent is remembered, and is not repeated   *)
(* before it may be; what was used is not woken; attempts are bounded.     *)
(***************************************************************************)
EXTENDS Wakeup, FiniteSetTheorems, TLAPS

-----------------------------------------------------------------------------
(* The values.                                                             *)

TwoModes == {"initial", "reset"}

\* The bounds are numbers, and a time that is set aside is one.
LEMMA Bounds ==
  /\ MaxAttempts \in 1..3 /\ MaxEvents \in Nat /\ MaxTime \in Nat \ {0}
  /\ Lease \in Nat \ {0}
  /\ MaxBackoff \in Nat \ {0}
  /\ \A t \in 1..MaxTime : t \in Times /\ t + 1 \in Times
  /\ \A t \in Times : t \in Nat
  /\ 0 \in Times /\ 1 \in Times /\ 2 \in Times
BY WakeupAssumption DEF Times

\* A retry waits for no longer than MaxBackoff.
LEMMA BackoffInTime ==
  ASSUME NEW t \in 1..MaxTime, NEW n \in Nat
  PROVE  t + Backoff(n) \in Times
<1>1. Backoff(n) \in 0..MaxBackoff
  <2>1. CASE InitialBackoff >= MaxBackoff \div 2
        BY <2>1, WakeupAssumption DEF Backoff
  <2>2. CASE ~(InitialBackoff >= MaxBackoff \div 2)
    <3>1. MaxBackoff \div 2 \in Nat /\ 2 * (MaxBackoff \div 2) <= MaxBackoff
          BY WakeupAssumption
    <3> QED BY <2>2, <3>1, WakeupAssumption DEF Backoff
  <2> QED BY <2>1, <2>2
<1> QED BY <1>1, WakeupAssumption DEF Times

\* None is not what it stands in for.
LEMMA Apart ==
  /\ None \notin Scanners /\ None \notin Ids /\ None \notin Times
  /\ None \notin Quotas /\ None \notin Wakes
BY WakeupAssumption

\* A wake record remains one as it fails, is capped, succeeds or is damaged.
LEMMA WakesStay ==
  ASSUME NEW w \in Wakes, now \in 1..MaxTime
  PROVE  /\ Capped(w) \in Wakes
         /\ Capped(w) # None /\ Capped(w).key = w.key /\ Capped(w).at = w.at
         /\ Capped(w).status = w.status /\ Capped(w).retry = w.retry
         /\ Failed(w, TRUE) \in Wakes /\ Failed(w, FALSE) \in Wakes
         /\ [w EXCEPT !.status = "success"] \in Wakes
         /\ Damaged(w) \in Wakes
<1>1. Capped(w) \in Wakes
      BY Bounds DEF Capped, Wakes
<1>2. ASSUME NEW retry \in BOOLEAN PROVE Failed(w, retry) \in Wakes
  <2>1. w.count \in Nat /\ now + Backoff(w.count) \in Times
        BY BackoffInTime DEF Wakes
  <2>2. PICK next \in Times :
           Failed(w, retry) = [w EXCEPT !.status = "failed", !.retry = retry, !.next = next]
        BY <2>1, Bounds DEF Failed
  <2> QED BY <2>2 DEF Wakes
<1>3. [w EXCEPT !.status = "success"] \in Wakes
      BY DEF Wakes
<1>4. Damaged(w) \in Wakes
  <2>1. MaxAttempts \in Nat /\ 0 \in Times
        BY Bounds
  <2> QED BY <2>1 DEF Damaged, Wakes
<1>5. /\ Capped(w).key = w.key /\ Capped(w).at = w.at
      /\ Capped(w).status = w.status /\ Capped(w).retry = w.retry
      BY DEF Capped, Wakes
<1> QED BY <1>1, <1>2, <1>3, <1>4, <1>5, Apart

\* What an observation has, and what it has when one part of it is replaced.
LEMMA PartsOfObservations ==
  ASSUME NEW o \in Observations, NEW m \in TwoModes
  PROVE  /\ o.id \in Ids \cup {None} /\ o.quota \in Quotas \cup {None}
         /\ o.usage \in Times \cup {None}
         /\ o[m] \in Wakes \cup {None}
         /\ \A w \in Wakes : [o EXCEPT ![m] = w] \in Observations
         /\ \A q \in Quotas \cup {None} : [o EXCEPT !.quota = q] \in Observations
         /\ \A t \in Times : [o EXCEPT !.usage = t] \in Observations
BY DEF Observations, TwoModes

LEMMA ForIsObservation ==
  ASSUME obs \in Observations, NEW id \in Ids \cup {None}
  PROVE  For(id) \in Observations /\ For(id).id = id
BY DEF For, Fresh, Observations

\* What a scan reads.
LEMMA ObservedIsObservation ==
  ASSUME obs \in Observations, own \in Owned \cup {None}, NEW id \in Ids
  PROVE  /\ Observed(id) \in Observations
         /\ Observed(id).id = id
         /\ Observed(id).usage = For(id).usage
         /\ \A m \in TwoModes : Observed(id)[m] = For(id)[m]
         /\ For(id).quota # None => Observed(id).quota = For(id).quota
<1>1. For(id) \in Observations /\ For(id).id = id
      BY ForIsObservation
<1>2. PersistedResetQuota(id) \in Quotas \cup {None}
      BY DEF PersistedResetQuota, OwnReset, Owned, Quotas
<1>3. PICK q \in Quotas \cup {None} : /\ Observed(id) = [For(id) EXCEPT !.quota = q]
                                      /\ For(id).quota # None => q = For(id).quota
      BY <1>1, <1>2, PartsOfObservations DEF Observed, TwoModes, Observations
<1> QED BY <1>1, <1>3 DEF Observations, TwoModes

\* The record a scan writes: its wake, with the rest as it is stored.
LEMMA SavedIsObservation ==
  ASSUME obs \in Observations, now \in 1..MaxTime, NEW l \in Hands
  PROVE  /\ Saved(l) \in Observations
         /\ Saved(l).id = l.id
         /\ Saved(l).quota = IF For(l.id).quota = None THEN l.o.quota ELSE For(l.id).quota
         /\ Saved(l).usage = IF For(l.id).usage = None THEN l.o.usage ELSE For(l.id).usage
         /\ Saved(l)[l.mode] = Capped(l.wake)
         /\ \A m \in TwoModes : m # l.mode => Saved(l)[m] = For(l.id)[m]
<1>1. l.id \in Ids /\ l.o \in Observations /\ l.mode \in TwoModes /\ l.wake \in Wakes
      BY DEF Hands, TwoModes
<1>2. For(l.id) \in Observations /\ For(l.id).id = l.id
      BY <1>1, ForIsObservation
<1>3. Capped(l.wake) \in Wakes
      BY <1>1, WakesStay
<1> DEFINE cur == For(l.id)
           quota == IF cur.quota = None THEN l.o.quota ELSE cur.quota
           used == IF cur.usage = None THEN l.o.usage ELSE cur.usage
<1>4. quota \in Quotas \cup {None} /\ used \in Times \cup {None}
      BY <1>1, <1>2, PartsOfObservations
<1>5. Saved(l) = [cur EXCEPT !.quota = quota, !.usage = used, ![l.mode] = Capped(l.wake)]
      BY <1>2 DEF Saved, Observations
<1> HIDE DEF quota, used, cur
<1>6. cur \in Observations /\ cur.id = l.id
      BY <1>2 DEF cur
<1>7. /\ Saved(l) \in Observations /\ Saved(l).id = l.id
      /\ Saved(l).quota = quota /\ Saved(l).usage = used
      /\ Saved(l)[l.mode] = Capped(l.wake)
      /\ \A m \in TwoModes : m # l.mode => Saved(l)[m] = cur[m]
  <2>1. CASE l.mode = "initial"
        BY <1>3, <1>4, <1>5, <1>6, <2>1 DEF Observations, TwoModes
  <2>2. CASE l.mode = "reset"
        BY <1>3, <1>4, <1>5, <1>6, <2>2 DEF Observations, TwoModes
  <2> QED BY <1>1, <2>1, <2>2 DEF TwoModes
<1> QED BY <1>7 DEF cur, quota, used

\* A reset wake is due only for a quota whose key is one.
LEMMA ResetHasQuota ==
  ASSUME NEW o \in Observations, EligibleReset(o)
  PROVE  o.quota # None /\ o.quota \in Quotas /\ Key(o.quota) \in Keys
BY DEF EligibleReset, Observations, Quotas, Key, Keys

LEMMA AttemptIsWake ==
  ASSUME NEW o \in Observations, NEW m \in TwoModes, now \in 1..MaxTime,
         m = "reset" => o.quota # None
  PROVE  Attempt(o, m) \in Wakes
<1>1. o[m] # None => o[m].count \in Nat
      BY PartsOfObservations DEF Wakes
<1>2. m = "reset" => Key(o.quota) \in Keys
      BY PartsOfObservations DEF Key, Keys, Quotas
<1>3. None \in Keys
      BY DEF Keys
<1> QED BY <1>1, <1>2, <1>3, Bounds DEF Attempt, Wakes

-----------------------------------------------------------------------------
(* The types.                                                              *)

Stages == {"idle", "save", "send", "wait", "outcome", "refresh", "again"}

Values ==
  /\ now \in 1..MaxTime
  /\ content \in Ids /\ disabled \in BOOLEAN
  /\ own \in Owned \cup {None}
  /\ obs \in Observations

Scans ==
  /\ lock \in Scanners \cup {None}
  /\ pc \in [Scanners -> Stages]
  /\ \A s \in Scanners : pc[s] = "idle" <=> lock # s
  /\ loc \in [Scanners -> Hands \cup {None}]

Histories ==
  /\ requests \in Seq(Requests)
  /\ inflight \subseteq 1..MaxTime /\ uses \subseteq [at : 1..MaxTime, edit : 0..MaxEvents]

Counts ==
  /\ edits \in 0..MaxEvents /\ made \in 0..MaxEvents
  /\ quotas \in 0..MaxEvents /\ faults \in 0..MaxEvents

LEMMA TypeParts ==
  /\ TypeOK <=> Values /\ Scans /\ Histories /\ Counts
  /\ TypeOK' <=> Values' /\ Scans' /\ Histories' /\ Counts'
BY DEF TypeOK, Values, Scans, Histories, Counts, Stages

\* A scan under way has something in hand, and has sent the request it waits for or
\* writes the outcome of.
Busy ==
  \A s \in Scanners : pc[s] # "idle" =>
    /\ loc[s] \in Hands
    /\ pc[s] = "wait" \/ (pc[s] = "outcome" /\ ~loc[s].wiped) => Len(requests) > 0

\* Only the scan that holds the lock is under way.
LEMMA Alone ==
  ASSUME TypeOK, NEW s \in Scanners, pc[s] # "idle" \/ lock = None
  PROVE  \A t \in Scanners : t # s => pc[t] = "idle"
BY Apart DEF TypeOK

\* A step of one scanner: it goes to stage v with h in hand.
Goes(s, v, h) ==
  /\ pc' = [pc EXCEPT ![s] = v]
  /\ loc' = [loc EXCEPT ![s] = h]
  /\ lock' = IF v = "idle" THEN None ELSE s

LEMMA GoesStep ==
  ASSUME TypeOK, Busy, NEW s \in Scanners, pc[s] # "idle" \/ lock = None,
         NEW v \in Stages, NEW h, Goes(s, v, h),
         v = "idle" => h = None,
         v # "idle" => /\ h \in Hands
                       /\ v = "wait" \/ (v = "outcome" /\ ~h.wiped) => Len(requests') > 0
  PROVE  /\ Scans' /\ Busy'
         /\ pc'[s] = v /\ loc'[s] = h
         /\ \A t \in Scanners : t # s => pc[t] = "idle" /\ pc'[t] = "idle"
<1>1. \A t \in Scanners : t # s => pc[t] = "idle"
      BY Alone
<1>2. pc'[s] = v /\ loc'[s] = h /\ \A t \in Scanners : t # s => pc'[t] = "idle" /\ loc'[t] = loc[t]
      BY <1>1 DEF Goes, TypeOK
<1>3. lock' \in Scanners \cup {None} /\ \A t \in Scanners : pc'[t] = "idle" <=> lock' # t
      BY <1>2, Apart DEF Goes
<1>4. pc' \in [Scanners -> Stages] /\ loc' \in [Scanners -> Hands \cup {None}]
      BY DEF Goes, TypeOK, Stages
<1> QED BY <1>1, <1>2, <1>3, <1>4 DEF Scans, Busy

\* What each step of a scanner does, told as where it goes.
NewHand(id, o, mode, wiped, edit) ==
  [id |-> id, o |-> o, mode |-> mode, wiped |-> wiped, edit |-> edit, wake |-> Attempt(o, mode)]

NewRequest(s) ==
  [mode |-> loc[s].mode, key |-> loc[s].wake.key, edit |-> loc[s].edit,
   gen |-> quotas, at |-> loc[s].wake.at, outcome |-> "unrecorded"]

LEMMA NewHandIsHand ==
  ASSUME TypeOK, NEW id \in Ids, NEW o \in Observations, NEW m \in TwoModes,
         NEW wiped \in BOOLEAN, NEW edit \in 0..MaxEvents, m = "reset" => EligibleReset(o)
  PROVE  NewHand(id, o, m, wiped, edit) \in Hands
<1>1. Attempt(o, m) \in Wakes
      BY ResetHasQuota, AttemptIsWake DEF TypeOK
<1> QED BY <1>1 DEF NewHand, Hands, TwoModes

LEMMA ScanForm ==
  ASSUME TypeOK, NEW s \in Scanners, Scan(s)
  PROVE  /\ pc[s] = "idle" /\ lock = None
         /\ Observed(content) \in Observations /\ content \in Ids
         /\ \E m \in TwoModes :
              /\ IF m = "initial" THEN EligibleInitial(Observed(content))
                                  ELSE EligibleReset(Observed(content))
              /\ Goes(s, "save", NewHand(content, Observed(content), m, FALSE, edits))
         /\ UNCHANGED <<now, host, own, obs, quotas, usage, requests, faults>>
<1>1. Observed(content) \in Observations /\ content \in Ids
      BY ObservedIsObservation DEF TypeOK
<1>2. lock' = s
      BY DEF Scan
<1> QED BY <1>1, <1>2 DEF Scan, Begin, NewHand, Goes, TwoModes

LEMMA MoreFaults ==
  ASSUME TypeOK, More
  PROVE  faults + 1 \in 0..MaxEvents
<1>1. MaxEvents \in Nat
      BY Bounds
<1> QED BY <1>1 DEF TypeOK, More

LEMMA SavePendingForm ==
  ASSUME TypeOK, NEW s \in Scanners, SavePending(s)
  PROVE  /\ pc[s] = "save"
         /\ \/ obs' = Saved(loc[s]) /\ Goes(s, "send", loc[s])
            \/ obs' = obs /\ Goes(s, "idle", None)
         /\ UNCHANGED <<now, host, own, quotas, usage, requests>>
         /\ faults' \in 0..MaxEvents
<1>1. lock = s /\ loc = [loc EXCEPT ![s] = loc[s]]
      BY DEF TypeOK, SavePending
<1>2. faults' \in 0..MaxEvents
  <2>1. faults' = faults \/ (More /\ faults' = faults + 1)
        BY DEF SavePending
  <2> QED BY <2>1, MoreFaults DEF TypeOK
<1> QED BY <1>1, <1>2 DEF SavePending, Release, Goes

LEMMA SendForm ==
  ASSUME TypeOK, NEW s \in Scanners, loc[s] \in Hands, Send(s)
  PROVE  /\ pc[s] = "send"
         /\ \/ /\ ~loc[s].wiped /\ requests' = Append(requests, NewRequest(s))
               /\ NewRequest(s) \in Requests
               /\ Goes(s, "wait", loc[s])
            \/ /\ loc[s].wiped /\ requests' = requests
               /\ Goes(s, "outcome", [loc[s] EXCEPT !.wake = Failed(loc[s].wake, FALSE)])
         /\ UNCHANGED <<now, host, own, obs, quotas, usage, faults>>
<1>1. lock = s /\ loc = [loc EXCEPT ![s] = loc[s]]
      BY DEF TypeOK, Send
<1>2. NewRequest(s) \in Requests
      BY DEF NewRequest, Requests, Hands, Wakes, TypeOK
<1> QED BY <1>1, <1>2 DEF Send, Goes, NewRequest, TypeOK

Answered(wake) ==
  {[wake EXCEPT !.status = "success"], Failed(wake, TRUE), Failed(wake, FALSE)}

LEMMA ReplyForm ==
  ASSUME TypeOK, NEW s \in Scanners, Reply(s)
  PROVE  /\ pc[s] = "wait"
         /\ \E w \in Answered(loc[s].wake) : Goes(s, "outcome", [loc[s] EXCEPT !.wake = w])
         /\ UNCHANGED <<now, host, own, obs, quotas, usage, requests, faults>>
<1>1. lock = s
      BY DEF TypeOK, Reply
<1>2. PICK w \in Answered(loc[s].wake) : loc' = [loc EXCEPT ![s].wake = w]
      BY DEF Reply, Answered
<1> QED BY <1>1, <1>2 DEF Reply, Goes, TypeOK

LEMMA SaveOutcomeForm ==
  ASSUME TypeOK, NEW s \in Scanners, SaveOutcome(s)
  PROVE  /\ pc[s] = "outcome"
         /\ \/ /\ obs' = Saved(loc[s])
               /\ requests' = IF loc[s].wiped THEN requests
                              ELSE [requests EXCEPT ![Len(requests)].outcome = Outcome(loc[s].wake)]
               /\ \/ loc[s].mode = "initial" /\ Goes(s, "refresh", [loc[s] EXCEPT !.wiped = TRUE])
                  \/ Goes(s, "idle", None)
            \/ obs' = obs /\ requests' = requests /\ Goes(s, "idle", None)
         /\ UNCHANGED <<now, host, own, quotas, usage>>
         /\ faults' \in 0..MaxEvents
<1>1. lock = s
      BY DEF TypeOK, SaveOutcome
<1>2. faults' \in 0..MaxEvents
  <2>1. faults' = faults \/ (More /\ faults' = faults + 1)
        BY DEF SaveOutcome
  <2> QED BY <2>1, MoreFaults DEF TypeOK
<1>3. ASSUME loc' = [loc EXCEPT ![s].wiped = TRUE]
      PROVE  loc' = [loc EXCEPT ![s] = [loc[s] EXCEPT !.wiped = TRUE]]
      BY <1>3 DEF TypeOK
<1>4. CASE Release(s)
      BY <1>1, <1>2, <1>4 DEF SaveOutcome, Release, Goes
<1>5. CASE ~Release(s)
      BY <1>1, <1>2, <1>3, <1>5 DEF SaveOutcome, Goes
<1> QED BY <1>4, <1>5

LEMMA RefreshForm ==
  ASSUME TypeOK, NEW s \in Scanners, Refresh(s)
  PROVE  /\ pc[s] = "refresh"
         /\ \/ Goes(s, "again", loc[s])
            \/ /\ content = loc[s].id
               /\ Goes(s, "again", [loc[s] EXCEPT !.wiped = FALSE, !.edit = edits])
            \/ Goes(s, "idle", None)
         /\ UNCHANGED <<now, host, own, obs, quotas, usage, requests, faults>>
<1>1. lock = s /\ loc = [loc EXCEPT ![s] = loc[s]]
      BY DEF TypeOK, Refresh
<1>2. ASSUME loc' = [loc EXCEPT ![s].wiped = FALSE, ![s].edit = edits]
      PROVE  loc' = [loc EXCEPT ![s] = [loc[s] EXCEPT !.wiped = FALSE, !.edit = edits]]
      BY <1>2 DEF TypeOK
<1> QED BY <1>1, <1>2 DEF Refresh, Release, Goes

LEMMA AgainForm ==
  ASSUME TypeOK, NEW s \in Scanners, Again(s)
  PROVE  /\ pc[s] = "again"
         /\ \/ /\ EligibleReset(loc[s].o)
               /\ Goes(s, "save", NewHand(loc[s].id, loc[s].o, "reset", loc[s].wiped, loc[s].edit))
            \/ Goes(s, "idle", None)
         /\ UNCHANGED <<now, host, own, obs, quotas, usage, requests, faults>>
<1>1. lock = s
      BY DEF TypeOK, Again
<1> QED BY <1>1 DEF Again, Begin, Release, NewHand, Goes, TypeOK

\* The other writers of the observation, told by what they write.
LEMMA WritersForm ==
  ASSUME TypeOK,
         \/ \E at \in inflight : RecordUsageOutcome(at)
         \/ \E quota \in Answers : Observe(quota)
         \/ \E quota \in Answers : quota.exhausted /\ Claim(quota)
  PROVE  /\ lock = None
         /\ \/ /\ \E at \in inflight, q \in Quotas \cup {None} :
                    /\ obs' = [[For(content) EXCEPT !.usage = at] EXCEPT !.quota = q]
                    /\ For(content).quota # None => q = For(content).quota
                    /\ inflight' = inflight \ {at}
                    /\ uses' = uses \cup {[at |-> at, edit |-> edits]}
               /\ UNCHANGED <<disabled, own, made, quotas>>
            \/ /\ \E q \in Quotas : obs' = [For(content) EXCEPT !.quota = q]
               /\ quotas' = quotas + 1 /\ quotas' \in 0..MaxEvents
               /\ own' \in Owned \cup {None} /\ disabled' \in BOOLEAN
               /\ UNCHANGED usage
         /\ UNCHANGED <<now, content, edits, scan, requests, faults>>
<1>0. More => quotas + 1 \in 0..MaxEvents
  <2>1. MaxEvents \in Nat
        BY Bounds
  <2> QED BY <2>1 DEF More, TypeOK
<1>1. Answers \subseteq Quotas
  <2>1. now + 1 \in Times /\ 0 \in Times
        BY Bounds DEF TypeOK
  <2>2. \A windows \in Windows :
           [exhausted |-> TRUE, reset |-> now + 1, windows |-> windows] \in Quotas
        BY <2>1 DEF Quotas
  <2>3. [exhausted |-> FALSE, reset |-> 0, windows |-> None] \in Quotas
        BY <2>1 DEF Quotas
  <2> QED BY <2>2, <2>3 DEF Answers
<1>2. content \in Ids /\ For(content) \in Observations
      BY ForIsObservation DEF TypeOK
<1>3. ASSUME NEW at \in inflight, RecordUsageOutcome(at)
      PROVE  \E q \in Quotas \cup {None} :
               /\ obs' = [[For(content) EXCEPT !.usage = at] EXCEPT !.quota = q]
               /\ For(content).quota # None => q = For(content).quota
  <2>1. OwnQuota \in Quotas \cup {None}
        BY DEF OwnQuota, TypeOK, Owned
  <2>2. [For(content) EXCEPT !.usage = at].quota = For(content).quota
        BY <1>2 DEF Observations
  <2>3. For(content).quota \in Quotas \cup {None}
        BY <1>2 DEF Observations
  <2> DEFINE q == IF For(content).quota = None THEN OwnQuota ELSE For(content).quota
  <2>4. q \in Quotas \cup {None} /\ (For(content).quota # None => q = For(content).quota)
        BY <2>1, <2>3
  <2>5. obs' = [[For(content) EXCEPT !.usage = at] EXCEPT !.quota = q]
        BY <1>3, <2>2 DEF RecordUsageOutcome
  <2> QED BY <2>4, <2>5
<1>4. ASSUME NEW at \in inflight, RecordUsageOutcome(at) PROVE
         /\ lock = None /\ inflight' = inflight \ {at}
         /\ uses' = uses \cup {[at |-> at, edit |-> edits]}
         /\ UNCHANGED <<now, content, disabled, edits, own, made, quotas, scan, requests, faults>>
      BY <1>4 DEF RecordUsageOutcome, host
<1>5. ASSUME NEW quota \in Answers, Observe(quota) PROVE
         /\ lock = None /\ obs' = [For(content) EXCEPT !.quota = quota]
         /\ quotas' = quotas + 1 /\ quotas' \in 0..MaxEvents
         /\ own' \in Owned \cup {None} /\ disabled' \in BOOLEAN
         /\ UNCHANGED <<now, content, edits, scan, usage, requests, faults>>
  <2>1. quotas + 1 \in 0..MaxEvents
        BY <1>0, <1>5 DEF Observe
  <2>2. own' \in Owned \cup {None}
    <3>1. CASE own' = own
          BY <3>1 DEF TypeOK
    <3>2. CASE own # None /\ own' = [own EXCEPT !.quota = IF own.id = content THEN quota ELSE None]
      <4>1. PICK q \in Quotas \cup {None} : own' = [own EXCEPT !.quota = q]
            BY <3>2, <1>1
      <4> QED BY <4>1, <3>2 DEF TypeOK, Owned
    <3>3. CASE own # None /\ own' = [own EXCEPT !.windows = quota.windows,
                                                !.probed = quota.reset]
          BY <3>3, <1>1 DEF TypeOK, Owned, Quotas
    <3> QED BY <1>5, <3>1, <3>2, <3>3 DEF Observe
  <2> QED BY <1>5, <2>1, <2>2 DEF Observe, host, TypeOK
<1>6. ASSUME NEW quota \in Answers, Claim(quota) PROVE
         /\ lock = None /\ obs' = [For(content) EXCEPT !.quota = quota]
         /\ quotas' = quotas + 1 /\ quotas' \in 0..MaxEvents
         /\ own' \in Owned \cup {None} /\ disabled' \in BOOLEAN
         /\ UNCHANGED <<now, content, edits, scan, usage, requests, faults>>
  <2>1. quotas + 1 \in 0..MaxEvents
        BY <1>0, <1>6 DEF Claim
  <2>2. own' \in Owned
        BY <1>1, <1>2, <1>6, Bounds DEF Claim, Owned, Quotas
  <2> QED BY <1>6, <2>1, <2>2 DEF Claim
<1>7. CASE \E at \in inflight : RecordUsageOutcome(at)
      BY <1>3, <1>4, <1>7
<1>8. CASE \/ \E quota \in Answers : Observe(quota)
           \/ \E quota \in Answers : quota.exhausted /\ Claim(quota)
      BY <1>1, <1>5, <1>6, <1>8
<1> QED BY <1>7, <1>8

Types == TypeOK /\ Busy

LEMMA TypesInit == Init => Types
<1> SUFFICES ASSUME Init PROVE Types
    OBVIOUS
<1>1. Fresh(None) \in Observations
      BY DEF Fresh, Observations
<1>2. ASSUME NEW windows \in Windows,
             own = None, disabled = FALSE,
             LET quota == [exhausted |-> TRUE, reset |-> 1, windows |-> windows]
             IN  obs = [Fresh(content) EXCEPT
                          !.quota = quota,
                          !.reset = [status |-> "success", key |-> LegacyKey(quota), at |-> 1,
                                     count |-> 1, next |-> 0, retry |-> FALSE]]
      PROVE  obs \in Observations
  <2>0. 0 \in Times /\ 1 \in Times /\ content \in Ids
        BY Bounds DEF Init
  <2> DEFINE quota == [exhausted |-> TRUE, reset |-> 1, windows |-> windows]
             wake == [status |-> "success", key |-> LegacyKey(quota), at |-> 1,
                      count |-> 1, next |-> 0, retry |-> FALSE]
  <2>1. quota \in Quotas
        BY <2>0 DEF Quotas
  <2>2. LegacyKey(quota) \in Keys
        BY <2>0 DEF LegacyKey, Keys
  <2>3. wake \in Wakes
        BY <2>0, <2>2 DEF Wakes
  <2>4. obs = [Fresh(content) EXCEPT !.quota = quota, !.reset = wake]
        BY <1>2
  <2> HIDE DEF quota, wake
  <2> QED BY <2>0, <2>1, <2>3, <2>4 DEF Fresh, Observations
<1>3. obs \in Observations
      BY <1>1, <1>2 DEF Init
<1>4. own \in Owned \cup {None} /\ disabled \in BOOLEAN
  <2>1. 0 \in Times /\ 2 \in Times /\ content \in Ids
        BY Bounds DEF Init
  <2>2. [id |-> content, reset |-> 2, windows |-> None, probed |-> 0, review |-> FALSE,
         quota |-> None] \in Owned
        BY <2>1 DEF Owned
  <2>3. \A windows \in Windows :
          [id |-> content, reset |-> 0, windows |-> windows, probed |-> 2, review |-> FALSE,
           quota |-> None] \in Owned
        BY <2>1 DEF Owned
  <2> QED BY <2>2, <2>3 DEF Init
<1>5. Values /\ Scans /\ Busy
      BY <1>3, <1>4, Apart, Bounds DEF Init, Values, Scans, Busy, Stages
<1>6. Histories /\ Counts
      BY Bounds DEF Init, Histories, Counts
<1> QED BY <1>5, <1>6, TypeParts DEF Types

LEMMA TypesStep == Types /\ [Next]_vars => Types'
<1> SUFFICES ASSUME Types, [Next]_vars PROVE Types'
    OBVIOUS
<1> USE DEF Types
<1>0. Values /\ Scans /\ Histories /\ Counts /\ obs \in Observations /\ now \in 1..MaxTime
      BY TypeParts DEF Values
<1>1. ASSUME NEW s \in Scanners, Scan(s) PROVE Types'
  <2>1. PICK m \in TwoModes :
           /\ IF m = "initial" THEN EligibleInitial(Observed(content))
                               ELSE EligibleReset(Observed(content))
           /\ Goes(s, "save", NewHand(content, Observed(content), m, FALSE, edits))
        BY <1>1, ScanForm
  <2> DEFINE h == NewHand(content, Observed(content), m, FALSE, edits)
  <2>2. Observed(content) \in Observations /\ content \in Ids /\ edits \in 0..MaxEvents
        BY <1>1, ScanForm DEF TypeOK
  <2>3. h \in Hands
        BY <2>1, <2>2, NewHandIsHand DEF TwoModes
  <2>4. Scans' /\ Busy'
    <3> HIDE DEF h
    <3> QED BY <1>1, <2>1, <2>3, ScanForm, GoesStep DEF Stages, h
  <2> QED BY <1>0, <1>1, <2>4, ScanForm, TypeParts DEF Values, Histories, Counts, host, usage
<1>2. ASSUME NEW s \in Scanners, SavePending(s) PROVE Types'
  <2>1. loc[s] \in Hands /\ pc[s] = "save"
        BY <1>2 DEF SavePending, Busy
  <2>2. Scans' /\ Busy'
        BY <1>2, <2>1, SavePendingForm, GoesStep DEF Stages
  <2>3. obs' \in Observations
        BY <1>0, <1>2, <2>1, SavePendingForm, SavedIsObservation
  <2> QED BY <1>0, <1>2, <2>2, <2>3, SavePendingForm, TypeParts
          DEF Values, Histories, Counts, host, usage
<1>3. ASSUME NEW s \in Scanners, Send(s) PROVE Types'
  <2>1. loc[s] \in Hands /\ pc[s] = "send"
        BY <1>3 DEF Send, Busy
  <2>2. Len(requests) \in Nat /\ \A r \in Requests : Len(Append(requests, r)) > 0
        BY DEF TypeOK
  <2>3. ASSUME ~loc[s].wiped, requests' = Append(requests, NewRequest(s)),
               NewRequest(s) \in Requests, Goes(s, "wait", loc[s])
        PROVE  Scans' /\ Busy' /\ Histories'
    <3>1. Len(requests') > 0 /\ requests' \in Seq(Requests)
          BY <2>2, <2>3 DEF TypeOK
    <3>2. Scans' /\ Busy'
          BY <2>1, <2>3, <3>1, GoesStep DEF Stages
    <3> QED BY <1>0, <1>3, <3>1, <3>2, <2>1, SendForm DEF Histories, usage
  <2>4. ASSUME requests' = requests, loc[s].wiped,
               Goes(s, "outcome", [loc[s] EXCEPT !.wake = Failed(loc[s].wake, FALSE)])
        PROVE  Scans' /\ Busy' /\ Histories'
    <3> DEFINE h == [loc[s] EXCEPT !.wake = Failed(loc[s].wake, FALSE)]
    <3>1. h \in Hands /\ h.wiped
      <4>1. Failed(loc[s].wake, FALSE) \in Wakes
            BY <1>0, <2>1, WakesStay DEF Hands
      <4> QED BY <2>1, <2>4, <4>1 DEF Hands
    <3>2. Scans' /\ Busy'
      <4> HIDE DEF h
      <4> QED BY <2>1, <2>4, <3>1, GoesStep DEF Stages, h
    <3> QED BY <1>0, <1>3, <2>1, <2>4, <3>2, SendForm DEF Histories, usage
  <2> QED BY <1>0, <1>3, <2>1, <2>3, <2>4, SendForm, TypeParts DEF Values, Counts, host, usage
<1>4. ASSUME NEW s \in Scanners, Reply(s) PROVE Types'
  <2>1. loc[s] \in Hands /\ pc[s] = "wait" /\ Len(requests) > 0
        BY <1>4 DEF Reply, Busy
  <2>2. PICK w \in Answered(loc[s].wake) : Goes(s, "outcome", [loc[s] EXCEPT !.wake = w])
        BY <1>4, ReplyForm
  <2>3. w \in Wakes
        BY <1>0, <2>1, WakesStay DEF Answered, Hands
  <2> DEFINE h == [loc[s] EXCEPT !.wake = w]
  <2>4. h \in Hands
        BY <2>1, <2>3 DEF Hands
  <2>5. Len(requests') > 0
        BY <1>4, <2>1, ReplyForm
  <2>6. Scans' /\ Busy'
    <3> HIDE DEF h
    <3> QED BY <2>1, <2>2, <2>4, <2>5, GoesStep DEF Stages, h
  <2> QED BY <1>0, <1>4, <2>6, ReplyForm, TypeParts DEF Values, Histories, Counts, host, usage
<1>5. ASSUME NEW s \in Scanners, SaveOutcome(s) PROVE Types'
  <2>1. loc[s] \in Hands /\ pc[s] = "outcome" /\ (~loc[s].wiped => Len(requests) > 0)
        BY <1>5 DEF SaveOutcome, Busy
  <2>2. [loc[s] EXCEPT !.wiped = TRUE] \in Hands
        BY <2>1 DEF Hands
  <2>3. Scans' /\ Busy'
        BY <1>5, <2>1, <2>2, SaveOutcomeForm, GoesStep DEF Stages
  <2>4. obs' \in Observations
        BY <1>0, <1>5, <2>1, SaveOutcomeForm, SavedIsObservation
  <2>5. requests' \in Seq(Requests)
    <3>1. Outcome(loc[s].wake) \in {"unrecorded", "success", "retry", "final"}
          BY DEF Outcome
    <3>2. ASSUME ~loc[s].wiped
          PROVE  [requests EXCEPT ![Len(requests)].outcome = Outcome(loc[s].wake)] \in Seq(Requests)
      <4>1. Len(requests) \in 1..Len(requests) /\ requests[Len(requests)] \in Requests
            BY <2>1, <3>2 DEF TypeOK
      <4>2. [requests[Len(requests)] EXCEPT !.outcome = Outcome(loc[s].wake)] \in Requests
            BY <3>1, <4>1 DEF Requests
      <4> QED BY <4>1, <4>2 DEF TypeOK
    <3> QED BY <1>5, <3>2, SaveOutcomeForm DEF TypeOK
  <2> QED BY <1>0, <1>5, <2>3, <2>4, <2>5, SaveOutcomeForm, TypeParts
          DEF Values, Histories, Counts, host, usage
<1>6. ASSUME NEW s \in Scanners, Refresh(s) PROVE Types'
  <2>1. loc[s] \in Hands /\ pc[s] = "refresh"
        BY <1>6 DEF Refresh, Busy
  <2>2. [loc[s] EXCEPT !.wiped = FALSE, !.edit = edits] \in Hands
        BY <2>1 DEF Hands, TypeOK
  <2>3. Scans' /\ Busy'
        BY <1>6, <2>1, <2>2, RefreshForm, GoesStep DEF Stages
  <2> QED BY <1>0, <1>6, <2>3, RefreshForm, TypeParts DEF Values, Histories, Counts, host, usage
<1>7. ASSUME NEW s \in Scanners, Again(s) PROVE Types'
  <2>1. loc[s] \in Hands /\ pc[s] = "again"
        BY <1>7 DEF Again, Busy
  <2> DEFINE h == NewHand(loc[s].id, loc[s].o, "reset", loc[s].wiped, loc[s].edit)
  <2>2. EligibleReset(loc[s].o) => h \in Hands
        BY <2>1, NewHandIsHand DEF Hands, TwoModes
  <2>3. Scans' /\ Busy'
    <3> HIDE DEF h
    <3> QED BY <1>7, <2>1, <2>2, AgainForm, GoesStep DEF Stages, h
  <2> QED BY <1>0, <1>7, <2>3, AgainForm, TypeParts DEF Values, Histories, Counts, host, usage
<1>8. ASSUME UNCHANGED <<scan, requests>> PROVE Scans' /\ Busy'
      BY <1>0, <1>8 DEF scan, Scans, Busy
<1>9. CASE Use
  <2>1. made' \in 0..MaxEvents
        BY <1>9, Bounds DEF Use, More, TypeOK
  <2> QED BY <1>0, <1>8, <1>9, <2>1, TypeParts
          DEF Use, Values, Histories, Counts, host
<1>10. CASE \/ \E at \in inflight : RecordUsageOutcome(at)
            \/ \E quota \in Answers : Observe(quota)
            \/ \E quota \in Answers : quota.exhausted /\ Claim(quota)
  <2>1. For(content) \in Observations
        BY <1>0, ForIsObservation DEF TypeOK
  <2>2. obs' \in Observations
    <3>1. \A at \in inflight : at \in Times
          BY Bounds DEF TypeOK
    <3>2. \A at \in Times, q \in Quotas \cup {None} :
             [[For(content) EXCEPT !.usage = at] EXCEPT !.quota = q] \in Observations
          BY <2>1 DEF Observations
    <3>3. \A q \in Quotas : [For(content) EXCEPT !.quota = q] \in Observations
          BY <2>1 DEF Observations
    <3>4. \/ \E at \in inflight, q \in Quotas \cup {None} :
                 obs' = [[For(content) EXCEPT !.usage = at] EXCEPT !.quota = q]
          \/ \E q \in Quotas : obs' = [For(content) EXCEPT !.quota = q]
          BY <1>10, WritersForm
    <3> QED BY <3>1, <3>2, <3>3, <3>4
  <2>3. own' \in Owned \cup {None} /\ disabled' \in BOOLEAN /\ quotas' \in 0..MaxEvents /\ made' = made
        BY <1>10, WritersForm DEF TypeOK, usage
  <2>4. inflight' \subseteq 1..MaxTime /\ uses' \subseteq [at : 1..MaxTime, edit : 0..MaxEvents]
    <3>1. ASSUME NEW at \in inflight
          PROVE  [at |-> at, edit |-> edits] \in [at : 1..MaxTime, edit : 0..MaxEvents]
          BY DEF TypeOK
    <3> QED BY <1>0, <1>10, <3>1, WritersForm DEF Histories, usage
  <2> QED BY <1>0, <1>8, <1>10, <2>2, <2>3, <2>4, WritersForm, TypeParts
          DEF Values, Histories, Counts
<1>11. CASE Recover
  <2>1. own' \in Owned \cup {None} /\ disabled' \in BOOLEAN
        BY <1>11 DEF Recover, TypeOK, Owned
  <2> QED BY <1>0, <1>8, <1>11, <2>1, TypeParts DEF Recover, Values, Histories, Counts, usage
<1>12. CASE Tick
  <2>1. now' \in 1..MaxTime
        BY <1>12, Bounds DEF Tick, TypeOK
  <2> QED BY <1>0, <1>8, <1>12, <2>1, TypeParts DEF Tick, Values, Histories, Counts, usage, host
<1>13. ASSUME NEW id \in Ids, Edit(id) PROVE Types'
  <2>1. edits' \in 0..MaxEvents
        BY <1>13, Bounds DEF Edit, More, TypeOK
  <2> QED BY <1>0, <1>8, <1>13, <2>1, TypeParts DEF Edit, Values, Histories, Counts, usage
<1>14. CASE Crash
  <2>1. faults' \in 0..MaxEvents
        BY <1>14, Bounds DEF Crash, More, TypeOK
  <2>2. obs' \in Observations
    <3>1. ASSUME NEW m \in TwoModes, obs[m] # None, obs' = [obs EXCEPT ![m] = Damaged(obs[m])]
          PROVE  obs' \in Observations
          BY <1>0, <3>1, PartsOfObservations, WakesStay
    <3> QED BY <1>0, <1>14, <3>1 DEF Crash, TwoModes
  <2>3. Scans' /\ Busy'
        BY <1>14, Apart DEF Crash, Scans, Busy, Stages
  <2> QED BY <1>0, <1>14, <2>1, <2>2, <2>3, TypeParts DEF Crash, Values, Histories, Counts, host
<1>15. CASE UNCHANGED vars
  <2>1. UNCHANGED <<now, host, own, obs, quotas, scan, usage, requests, faults>>
        BY <1>15 DEF vars
  <2> QED BY <1>0, <1>8, <2>1, TypeParts DEF Values, Histories, Counts, host, usage
<1> QED
    BY <1>1, <1>2, <1>3, <1>4, <1>5, <1>6, <1>7, <1>9, <1>10, <1>11, <1>12, <1>13, <1>14, <1>15
    DEF Next, Step

\* TypeOK.  Every variable keeps its type, and a scanner is under way exactly while it
\* holds the credential's lock.
THEOREM TypeCorrect == Spec => []TypeOK
<1>1. Spec => []Types
      BY TypesInit, TypesStep, PTL DEF Spec
<1> QED BY <1>1, PTL DEF Types

-----------------------------------------------------------------------------
(* What is remembered.  A scan may go on after the credential was edited,  *)
(* so the invariant is told of an edit and an identity: of the present     *)
(* ones, and of those that a scan has in hand.                             *)

\* A request of the occupant that came with this edit, about its present quota.
Of(r, edit) == r.edit = edit /\ (r.mode = "reset" => r.gen = quotas)

\* The store knows this attempt or a later one for the same reason.
Known(r) ==
  /\ obs[r.mode] # None
  /\ obs[r.mode].key = r.key /\ obs[r.mode].at >= r.at
  /\ r.outcome \in {"success", "final"} => obs[r.mode].status # "pending" /\ ~obs[r.mode].retry
  /\ r.outcome = "unrecorded" =>
       obs[r.mode].status \in {"pending", "unknown"} \/ now >= r.at + Lease
  /\ r.mode = "reset" => obs.quota # None /\ r.key = Key(obs.quota)

Recalled(edit, id) ==
  \A i \in 1..Len(requests) : Of(requests[i], edit) => obs.id = id /\ Known(requests[i])

Seen(edit, id) ==
  \A use \in uses : use.edit = edit => obs.id = id /\ obs.usage # None

\* Nothing is of the future.
Past ==
  /\ \A i \in 1..Len(requests) :
       /\ requests[i].edit <= edits /\ requests[i].gen <= quotas /\ requests[i].at <= now
       /\ requests[i].mode = "initial" => requests[i].key = None
  /\ \A use \in uses : use.edit <= edits

\* What is so of a scan at stage v with l in hand: of its edit, mode and wake,
Timely(v, l) ==
  /\ l.edit <= edits
  /\ l.edit = edits => content = l.id
  /\ \A i \in 1..Len(requests) : requests[i].edit <= l.edit
  /\ \A use \in uses : use.edit <= l.edit
  /\ l.wake.at <= now
  /\ v \in {"refresh", "again"} => l.mode = "initial"
  /\ v = "wait" => ~l.wiped
  /\ l.mode = "initial" => l.wake.key = None
  /\ l.mode = "reset" => l.o.quota # None /\ l.wake.key = Key(l.o.quota)
  /\ v \in {"save", "send", "wait"} => l.wake.status = "pending" /\ ~l.wake.retry
  /\ v = "outcome" => /\ l.wake.status \in {"success", "failed"}
                      /\ l.wake.status = "success" => ~l.wake.retry

\* of its snapshot,
Snapshot(v, l) ==
  /\ For(l.id).quota \in {None, l.o.quota}
  /\ For(l.id).usage = l.o.usage
  /\ l.mode = "initial" => For(l.id).reset = l.o.reset

\* of the requests sent before its own, and of its own,
Sent(v, l) == v = "wait" \/ (v = "outcome" /\ ~l.wiped)

Ours(r, l) ==
  /\ r.mode = l.mode /\ Of(r, l.edit)
  /\ r.key = l.wake.key /\ r.at = l.wake.at /\ r.outcome = "unrecorded"

Due(v, l) ==
  /\ v \in {"save", "send", "wait", "outcome"} =>
       \A i \in 1..Len(requests) : requests[i].mode = l.mode /\ Of(requests[i], l.edit) =>
         \/ Sent(v, l) /\ i = Len(requests)
         \/ /\ Repeatable(requests[i])
            /\ requests[i].key = l.wake.key /\ requests[i].at <= l.wake.at
  /\ Sent(v, l) => Len(requests) > 0 /\ Ours(requests[Len(requests)], l)

\* of the attempt it has written down,
Written(v, l) ==
  v \in {"send", "wait", "outcome"} =>
    /\ obs.id = l.id
    /\ obs[l.mode] # None /\ obs[l.mode].status = "pending"
    /\ obs[l.mode].key = l.wake.key /\ obs[l.mode].at = l.wake.at
    /\ l.mode = "reset" => obs.quota # None /\ Key(obs.quota) = l.wake.key

\* and of the uses.
Unused(v, l) ==
  v \in {"save", "send"} =>
    \A use \in uses : use.edit = l.edit =>
      /\ l.mode = "reset"
      /\ use.at < l.wake.key.reset \/ (l.o.usage # None /\ l.o.usage < use.at)

Holds(v, l) ==
  /\ Timely(v, l) /\ Snapshot(v, l) /\ Due(v, l) /\ Written(v, l) /\ Unused(v, l)
  /\ Recalled(l.edit, l.id) /\ Seen(l.edit, l.id)

Memory ==
  /\ Past
  /\ Recalled(edits, content) /\ Seen(edits, content)
  /\ \A s \in Scanners : pc[s] # "idle" => Holds(pc[s], loc[s])

LEMMA TypedRequests ==
  ASSUME TypeOK
  PROVE  /\ Len(requests) \in Nat
         /\ \A i \in 1..Len(requests) :
              /\ requests[i] \in Requests
              /\ requests[i].mode \in TwoModes
              /\ requests[i].edit \in Nat /\ requests[i].gen \in Nat /\ requests[i].at \in Nat
              /\ requests[i].outcome \in {"unrecorded", "success", "retry", "final"}
         /\ \A use \in uses : use.at \in Nat /\ use.edit \in Nat
         /\ now \in Nat /\ edits \in Nat /\ quotas \in Nat
<1>1. Len(requests) \in Nat /\ \A i \in 1..Len(requests) : requests[i] \in Requests
      BY DEF TypeOK
<1>2. \A r \in Requests : /\ r.mode \in TwoModes /\ r.edit \in Nat /\ r.gen \in Nat
                           /\ r.at \in Times
                           /\ r.outcome \in {"unrecorded", "success", "retry", "final"}
      BY DEF Requests, TwoModes
<1>3. \A t \in Times : t \in Nat
      BY Bounds
<1>4. MaxEvents \in Nat /\ MaxTime \in Nat
      BY Bounds
<1>5. \A use \in uses : use.at \in Nat /\ use.edit \in Nat
      BY <1>4 DEF TypeOK
<1>6. now \in Nat /\ edits \in Nat /\ quotas \in Nat
      BY <1>4 DEF TypeOK
<1> QED BY <1>1, <1>2, <1>3, <1>5, <1>6

LEMMA TypedWakes ==
  ASSUME NEW w \in Wakes
  PROVE  /\ w.at \in Nat /\ w.count \in Nat /\ w.next \in Nat /\ w.retry \in BOOLEAN
         /\ w.status \in {"pending", "success", "failed", "unknown"} /\ w.key \in Keys
BY Bounds DEF Wakes

LEMMA TypedHands ==
  ASSUME NEW l \in Hands
  PROVE  /\ l.id \in Ids /\ l.o \in Observations /\ l.mode \in TwoModes /\ l.wiped \in BOOLEAN
         /\ l.edit \in Nat /\ l.edit \in 0..MaxEvents /\ l.wake \in Wakes
BY Bounds DEF Hands, TwoModes

\* Nothing that a step leaves alone is disturbed.
LEMMA Undisturbed ==
  ASSUME UNCHANGED <<content, edits, obs, quotas, uses, requests, now>>
  PROVE  /\ Past => Past'
         /\ \A e, id : Recalled(e, id) => Recalled(e, id)'
         /\ \A e, id : Seen(e, id) => Seen(e, id)'
         /\ \A v, l : Holds(v, l) => Holds(v, l)'
<1>1. \A e, id : Recalled(e, id) => Recalled(e, id)'
      BY DEF Recalled, Of, Known
<1>2. \A e, id : Seen(e, id) => Seen(e, id)'
      BY DEF Seen
<1>3. Past => Past'
      BY DEF Past
<1>4. ASSUME NEW v, NEW l, Holds(v, l) PROVE Holds(v, l)'
  <2>1. Timely(v, l)'
        BY <1>4 DEF Holds, Timely
  <2>2. Snapshot(v, l)'
        BY <1>4 DEF Holds, Snapshot, For
  <2>3. Due(v, l)'
        BY <1>4 DEF Holds, Due, Of, Ours, Repeatable, Sent
  <2>4. Written(v, l)' /\ Unused(v, l)'
        BY <1>4 DEF Holds, Written, Unused
  <2> QED BY <1>1, <1>2, <1>4, <2>1, <2>2, <2>3, <2>4 DEF Holds
<1> QED BY <1>1, <1>2, <1>3, <1>4

\* A wake that is due and of which requests were sent is the retry of what is stored.
LEMMA RetriesTheStored ==
  ASSUME TypeOK, Past, NEW id \in Ids, NEW o \in Observations, NEW m \in TwoModes, NEW edit,
         Recalled(edit, id),
         For(id)[m] = o[m], For(id).quota \in {None, o.quota},
         IF m = "initial" THEN EligibleInitial(o) ELSE EligibleReset(o),
         NEW i \in 1..Len(requests), requests[i].mode = m, Of(requests[i], edit)
  PROVE  /\ obs.id = id /\ Known(requests[i])
         /\ o[m] = obs[m] /\ o[m] \in Wakes /\ o[m] # None
         /\ requests[i].key = Attempt(o, m).key
         /\ MayRetry(o[m])
<1>1. obs.id = id /\ Known(requests[i]) /\ For(id) = obs
      BY DEF Recalled, For
<1>2. o[m] = obs[m] /\ o[m] \in Wakes /\ o[m] # None
      BY <1>1, PartsOfObservations DEF Known
<1>3. m = "reset" => o.quota = obs.quota /\ requests[i].key = Key(o.quota)
      BY <1>1 DEF Known
<1>4. requests[i].key = Attempt(o, m).key
      BY <1>3 DEF Past, Attempt, TwoModes
<1>5. MayRetry(o[m])
  <2>1. CASE m = "initial"
        BY <1>2, <2>1 DEF EligibleInitial
  <2>2. CASE m = "reset"
        BY <1>1, <1>2, <1>3, <2>2 DEF Known, EligibleReset
  <2> QED BY <2>1, <2>2 DEF TwoModes
<1> QED BY <1>1, <1>2, <1>4, <1>5

\* So what was sent for the same reason may be repeated.
LEMMA DueNow ==
  ASSUME TypeOK, Past, NEW id \in Ids, NEW o \in Observations, NEW m \in TwoModes, NEW edit,
         Recalled(edit, id),
         For(id)[m] = o[m], For(id).quota \in {None, o.quota},
         IF m = "initial" THEN EligibleInitial(o) ELSE EligibleReset(o)
  PROVE  \A i \in 1..Len(requests) : requests[i].mode = m /\ Of(requests[i], edit) =>
           /\ Repeatable(requests[i])
           /\ requests[i].key = Attempt(o, m).key
           /\ requests[i].at <= now
<1> SUFFICES ASSUME NEW i \in 1..Len(requests), requests[i].mode = m, Of(requests[i], edit)
             PROVE  /\ Repeatable(requests[i])
                    /\ requests[i].key = Attempt(o, m).key
                    /\ requests[i].at <= now
    OBVIOUS
<1> DEFINE r == requests[i]
           wake == o[m]
<1>1. /\ Known(r) /\ wake = obs[m] /\ wake \in Wakes /\ MayRetry(wake)
      /\ r.key = Attempt(o, m).key
      BY RetriesTheStored
<1>2. Repeatable(r)
  <2>1. wake.at \in Nat /\ r.at \in Nat /\ wake.at >= r.at /\ now \in Nat /\ Lease \in Nat
        BY <1>1, TypedWakes, TypedRequests, Bounds DEF Known
  <2>2. r.outcome \in {"unrecorded", "success", "retry", "final"}
        BY TypedRequests
  <2>3. CASE r.outcome \in {"success", "final"}
        BY <1>1, <2>3 DEF Known, MayRetry
  <2>4. CASE r.outcome = "retry"
        BY <2>4 DEF Repeatable
  <2>5. CASE r.outcome = "unrecorded"
    <3>1. CASE now >= r.at + Lease
          BY <2>5, <3>1 DEF Repeatable
    <3>2. CASE wake.status \in {"pending", "unknown"}
      <4>1. now >= wake.at + Lease
            BY <1>1, <3>2 DEF MayRetry
      <4> QED BY <2>1, <2>5, <4>1 DEF Repeatable
    <3> QED BY <1>1, <2>5, <3>1, <3>2 DEF Known
  <2> QED BY <2>2, <2>3, <2>4, <2>5
<1> QED BY <1>1, <1>2 DEF Past

\* A wake that is due: no use speaks against it.
LEMMA UnusedNow ==
  ASSUME TypeOK, NEW id \in Ids, NEW o \in Observations, NEW m \in TwoModes, NEW edit,
         Seen(edit, id), For(id).usage = o.usage,
         IF m = "initial" THEN EligibleInitial(o) ELSE EligibleReset(o)
  PROVE  \A use \in uses : use.edit = edit =>
           /\ m = "reset"
           /\ use.at < Attempt(o, m).key.reset \/ (o.usage # None /\ o.usage < use.at)
<1> SUFFICES ASSUME NEW use \in uses, use.edit = edit
             PROVE  /\ m = "reset"
                    /\ \/ use.at < Attempt(o, m).key.reset
                       \/ o.usage # None /\ o.usage < use.at
    OBVIOUS
<1>1. o.usage # None
      BY DEF Seen, For
<1>2. m = "reset" /\ EligibleReset(o)
      BY <1>1 DEF EligibleInitial, TwoModes
<1>3. o.usage < o.quota.reset /\ o.quota \in Quotas
      BY <1>1, <1>2, ResetHasQuota DEF EligibleReset
<1>4. o.usage \in Nat /\ o.quota.reset \in Nat /\ use.at \in Nat
  <2>1. o.usage \in Times /\ o.quota.reset \in Times
        BY <1>1, <1>3 DEF Observations, Quotas
  <2> QED BY <2>1, Bounds, TypedRequests
<1>5. Attempt(o, m).key.reset = o.quota.reset
      BY <1>2 DEF Attempt, Key
<1> QED BY <1>1, <1>2, <1>3, <1>4, <1>5

\* So a scan that begins a wake has all in hand as it should be.
LEMMA BeginsWell ==
  ASSUME TypeOK, Past, NEW id \in Ids, NEW o \in Observations, NEW m \in TwoModes,
         NEW wiped \in BOOLEAN, NEW edit \in 0..MaxEvents,
         Recalled(edit, id), Seen(edit, id),
         edit <= edits, edit = edits => content = id,
         \A i \in 1..Len(requests) : requests[i].edit <= edit,
         \A use \in uses : use.edit <= edit,
         For(id)[m] = o[m], For(id).reset = o.reset, For(id).usage = o.usage,
         For(id).quota \in {None, o.quota},
         IF m = "initial" THEN EligibleInitial(o) ELSE EligibleReset(o)
  PROVE  Holds("save", NewHand(id, o, m, wiped, edit))
<1> DEFINE h == NewHand(id, o, m, wiped, edit)
<1>1. /\ h.id = id /\ h.o = o /\ h.mode = m /\ h.edit = edit
      /\ h.wake = Attempt(o, m) /\ h.wake.at = now
      /\ h.wake.status = "pending" /\ ~h.wake.retry
      /\ h.wake.key = IF m = "reset" THEN Key(o.quota) ELSE None
      BY DEF NewHand, Attempt
<1>2. m = "reset" => o.quota # None
      BY ResetHasQuota
<1> HIDE DEF h
<1>3. now <= now
      BY TypedRequests
<1>4. Timely("save", h)
      BY <1>1, <1>2, <1>3 DEF Timely, TwoModes
<1>5. Snapshot("save", h)
      BY <1>1 DEF Snapshot
<1>6. Due("save", h)
      BY <1>1, DueNow DEF Due, Sent
<1>7. Written("save", h)
      BY DEF Written
<1>8. Unused("save", h)
      BY <1>1, UnusedNow DEF Unused
<1> QED BY <1>1, <1>4, <1>5, <1>6, <1>7, <1>8 DEF Holds, h

\* A scan that goes on after the credential was edited sends nothing for the new edit.
LEMMA NoneAhead ==
  ASSUME TypeOK', NEW v, NEW l \in Hands, Holds(v, l)', l.edit # edits',
         NEW i \in 1..Len(requests')
  PROVE  requests'[i].edit # edits'
<1>1. requests'[i].edit <= l.edit /\ l.edit <= edits'
      BY DEF Holds, Timely
<1>2. requests'[i].edit \in Nat
  <2>1. requests'[i] \in Requests
        BY DEF TypeOK
  <2> QED BY <2>1 DEF Requests
<1>3. l.edit \in Nat
      BY TypedHands
<1>4. edits' \in Nat
  <2>1. MaxEvents \in Nat
        BY Bounds
  <2> QED BY <2>1 DEF TypeOK
<1> QED BY <1>1, <1>2, <1>3, <1>4

\* When what a scan has in hand is remembered, so is the present occupant's.
LEMMA HandIsCurrent ==
  ASSUME TypeOK', NEW v, NEW l \in Hands, Holds(v, l)'
  PROVE  Recalled(edits, content)' /\ Seen(edits, content)'
<1>1. CASE l.edit = edits'
  <2>1. content' = l.id
        BY <1>1 DEF Holds, Timely
  <2> QED BY <1>1, <2>1 DEF Holds
<1>2. CASE l.edit # edits'
  <2>1. \A i \in 1..Len(requests') : requests'[i].edit # edits'
        BY <1>2, NoneAhead
  <2>2. \A use \in uses' : use.edit # edits'
    <3> SUFFICES ASSUME NEW use \in uses' PROVE use.edit # edits'
        OBVIOUS
    <3>1. use.edit <= l.edit /\ l.edit <= edits'
          BY DEF Holds, Timely
    <3>2. use.edit \in Nat /\ l.edit \in Nat /\ edits' \in Nat
          BY TypedHands, Bounds DEF TypeOK
    <3> QED BY <1>2, <3>1, <3>2
  <2> QED BY <2>1, <2>2 DEF Recalled, Of, Seen
<1> QED BY <1>1, <1>2

\* A step of a scanner.
LEMMA GoesWell ==
  ASSUME Types, TypeOK', NEW s \in Scanners, pc[s] # "idle" \/ lock = None,
         NEW v \in Stages, NEW h, Goes(s, v, h), Past',
         IF v = "idle" THEN Recalled(edits, content)' /\ Seen(edits, content)'
                       ELSE h \in Hands /\ Holds(v, h)'
  PROVE  Memory'
<1>1. pc'[s] = v /\ loc'[s] = h
      BY DEF Goes, Types, TypeOK
<1>2. \A t \in Scanners : t # s => pc'[t] = "idle"
  <2>1. \A t \in Scanners : t # s => pc[t] = "idle"
        BY Alone DEF Types
  <2> QED BY <2>1 DEF Goes, Types, TypeOK
<1>3. Recalled(edits, content)' /\ Seen(edits, content)'
      BY HandIsCurrent
<1>4. \A t \in Scanners : pc'[t] # "idle" => Holds(v, h)' /\ pc'[t] = v /\ loc'[t] = h
      BY <1>1, <1>2
<1> QED BY <1>3, <1>4 DEF Memory

LEMMA ScanRemembers ==
  ASSUME Types, TypeOK', Memory, NEW s \in Scanners, Scan(s)
  PROVE  Memory'
<1> DEFINE o == Observed(content)
<1>1. PICK m \in TwoModes :
         /\ IF m = "initial" THEN EligibleInitial(o) ELSE EligibleReset(o)
         /\ Goes(s, "save", NewHand(content, o, m, FALSE, edits))
      BY ScanForm DEF Types
<1>2. /\ o \in Observations /\ content \in Ids /\ edits \in 0..MaxEvents
      /\ o.usage = For(content).usage /\ \A n \in TwoModes : o[n] = For(content)[n]
      /\ For(content).quota \in {None, o.quota}
      /\ pc[s] = "idle" /\ lock = None
      /\ UNCHANGED <<content, edits, obs, quotas, uses, requests, now>>
  <2>1. content \in Ids /\ obs \in Observations /\ own \in Owned \cup {None} /\ edits \in 0..MaxEvents
        BY DEF Types, TypeOK
  <2> QED BY <2>1, ObservedIsObservation, ScanForm DEF Types, host, usage
<1>3. For(content).reset = o.reset
      BY <1>2 DEF TwoModes
<1>4. edits <= edits
      BY TypedRequests DEF Types
<1>5. Holds("save", NewHand(content, o, m, FALSE, edits))
  <2> HIDE DEF o
  <2> QED BY <1>1, <1>2, <1>3, <1>4, BeginsWell DEF Memory, Types, Past
<1>6. NewHand(content, o, m, FALSE, edits) \in Hands
  <2> HIDE DEF o
  <2> QED BY <1>1, <1>2, NewHandIsHand DEF Types, TwoModes
<1> DEFINE h == NewHand(content, o, m, FALSE, edits)
<1>7. PICK g \in Hands : g = h /\ Holds("save", g) /\ Goes(s, "save", g)
      BY <1>1, <1>5, <1>6
<1>8. Holds("save", g)' /\ Past'
      BY <1>2, <1>7, Undisturbed DEF Memory
<1> HIDE DEF o, h
<1> QED BY <1>2, <1>7, <1>8, GoesWell DEF Stages

LEMMA AgainRemembers ==
  ASSUME Types, TypeOK', Memory, NEW s \in Scanners, Again(s)
  PROVE  Memory'
<1> DEFINE l == loc[s]
<1>1. l \in Hands /\ pc[s] = "again" /\ Holds("again", l)
      BY DEF Again, Types, Busy, Memory
<1>2. UNCHANGED <<content, edits, obs, quotas, uses, requests, now>>
      BY AgainForm DEF Types, host, usage
<1>3. Past' /\ Recalled(edits, content)' /\ Seen(edits, content)'
      BY <1>2, Undisturbed DEF Memory
<1>4. CASE Goes(s, "idle", None)
      BY <1>1, <1>3, <1>4, GoesWell DEF Stages
<1>5. CASE /\ EligibleReset(l.o)
           /\ Goes(s, "save", NewHand(l.id, l.o, "reset", l.wiped, l.edit))
  <2>1. PICK k \in Hands : k = l
        BY <1>1
  <2>2. NewHand(k.id, k.o, "reset", k.wiped, k.edit) \in Hands
        BY <1>5, <2>1, TypedHands, NewHandIsHand DEF Types, TwoModes
  <2>3. Holds("save", NewHand(k.id, k.o, "reset", k.wiped, k.edit))
    <3>1. Holds("again", k) /\ k.mode = "initial" /\ EligibleReset(k.o)
          BY <1>1, <1>5, <2>1 DEF Holds, Timely
    <3>2. "reset" \in TwoModes /\ For(k.id)["reset"] = k.o["reset"]
          BY <3>1 DEF Holds, Snapshot, TwoModes
    <3> QED BY <3>1, <3>2, TypedHands, BeginsWell DEF Types, Memory, Holds, Timely, Snapshot
  <2>4. PICK g \in Hands : Goes(s, "save", g) /\ Holds("save", g)
        BY <1>5, <2>1, <2>2, <2>3
  <2>5. Holds("save", g)'
        BY <1>2, <2>4, Undisturbed
  <2> QED BY <1>1, <1>3, <2>4, <2>5, GoesWell DEF Stages
<1> QED BY <1>4, <1>5, AgainForm DEF Types

LEMMA RefreshRemembers ==
  ASSUME Types, TypeOK', Memory, NEW s \in Scanners, Refresh(s)
  PROVE  Memory'
<1>1. PICK l \in Hands : l = loc[s] /\ pc[s] = "refresh" /\ Holds("refresh", l)
      BY DEF Refresh, Types, Busy, Memory
<1>2. UNCHANGED <<content, edits, obs, quotas, uses, requests, now>>
      BY RefreshForm DEF Types, host, usage
<1>3. Past' /\ Recalled(edits, content)' /\ Seen(edits, content)'
      BY <1>2, Undisturbed DEF Memory
<1>4. CASE Goes(s, "idle", None)
      BY <1>1, <1>3, <1>4, GoesWell DEF Stages
<1>5. Timely("again", l) /\ Snapshot("again", l) /\ Due("again", l) /\ Written("again", l)
      /\ Unused("again", l)
      BY <1>1 DEF Holds, Timely, Snapshot, Due, Sent, Written, Unused
<1>6. CASE Goes(s, "again", l)
  <2>1. Holds("again", l)
        BY <1>1, <1>5 DEF Holds
  <2>2. Holds("again", l)'
        BY <1>2, <2>1, Undisturbed
  <2> QED BY <1>1, <1>3, <1>6, <2>2, GoesWell DEF Stages
<1>7. CASE content = l.id /\ Goes(s, "again", [l EXCEPT !.wiped = FALSE, !.edit = edits])
  <2>1. PICK g \in Hands : /\ g = [l EXCEPT !.wiped = FALSE, !.edit = edits]
                           /\ g.id = l.id /\ g.o = l.o /\ g.mode = l.mode /\ g.wake = l.wake
                           /\ g.edit = edits
    <3>1. edits \in 0..MaxEvents
          BY DEF Types, TypeOK
    <3> DEFINE h == [l EXCEPT !.wiped = FALSE, !.edit = edits]
    <3>2. h \in Hands /\ h.id = l.id /\ h.o = l.o /\ h.mode = l.mode /\ h.wake = l.wake /\ h.edit = edits
          BY <3>1 DEF Hands
    <3> QED BY <3>2
  <2>2. edits <= edits
        BY TypedRequests DEF Types
  <2>3. Timely("again", g)
        BY <1>5, <1>7, <2>1, <2>2 DEF Timely, Memory, Past
  <2>4. Snapshot("again", g) /\ Due("again", g) /\ Written("again", g) /\ Unused("again", g)
        BY <1>5, <2>1 DEF Snapshot, Due, Sent, Written, Unused
  <2>5. Recalled(g.edit, g.id) /\ Seen(g.edit, g.id)
        BY <1>7, <2>1 DEF Memory
  <2>6. Holds("again", g)'
        BY <1>2, <2>3, <2>4, <2>5, Undisturbed DEF Holds
  <2> QED BY <1>1, <1>3, <1>7, <2>1, <2>6, GoesWell DEF Stages
<1> QED BY <1>1, <1>4, <1>6, <1>7, RefreshForm DEF Types

LEMMA ReplyRemembers ==
  ASSUME Types, TypeOK', Memory, NEW s \in Scanners, Reply(s)
  PROVE  Memory'
<1>1. PICK l \in Hands : l = loc[s] /\ pc[s] = "wait" /\ Holds("wait", l)
      BY DEF Reply, Types, Busy, Memory
<1>2. UNCHANGED <<content, edits, obs, quotas, uses, requests, now>>
      BY ReplyForm DEF Types, host, usage
<1>3. Past'
      BY <1>2, Undisturbed DEF Memory
<1>4. PICK w \in Answered(l.wake) : Goes(s, "outcome", [l EXCEPT !.wake = w])
      BY <1>1, ReplyForm DEF Types
<1>5. /\ w \in Wakes /\ w.key = l.wake.key /\ w.at = l.wake.at
      /\ w.status \in {"success", "failed"} /\ (w.status = "success" => ~w.retry)
  <2>1. l.wake \in Wakes /\ now \in 1..MaxTime /\ ~l.wake.retry
        BY <1>1, TypedHands DEF Types, TypeOK, Holds, Timely
  <2>2. w \in Wakes
        BY <2>1, WakesStay DEF Answered
  <2>3. CASE w = [l.wake EXCEPT !.status = "success"]
        BY <2>1, <2>2, <2>3 DEF Wakes
  <2>4. ASSUME NEW retry \in BOOLEAN, w = Failed(l.wake, retry)
        PROVE  w.key = l.wake.key /\ w.at = l.wake.at /\ w.status = "failed"
        BY <2>1, <2>4 DEF Failed, Wakes
  <2> QED BY <2>2, <2>3, <2>4 DEF Answered
<1>6. PICK g \in Hands : /\ g = [l EXCEPT !.wake = w]
                         /\ g.id = l.id /\ g.o = l.o /\ g.mode = l.mode /\ g.edit = l.edit
                         /\ g.wiped = l.wiped /\ g.wake = w
  <2> DEFINE h == [l EXCEPT !.wake = w]
  <2>1. h \in Hands /\ h.id = l.id /\ h.o = l.o /\ h.mode = l.mode /\ h.edit = l.edit
        /\ h.wiped = l.wiped /\ h.wake = w
        BY <1>5 DEF Hands
  <2> QED BY <2>1
<1>7. Timely("outcome", g)
  <2>1. now \in Nat /\ l.wake.at <= now
        BY <1>1, TypedRequests DEF Types, Holds, Timely
  <2> QED BY <1>1, <1>5, <1>6, <2>1 DEF Holds, Timely
<1>8. Snapshot("outcome", g) /\ Written("outcome", g) /\ Unused("outcome", g)
      BY <1>1, <1>5, <1>6 DEF Holds, Snapshot, Written, Unused
<1>9. Due("outcome", g)
      BY <1>1, <1>5, <1>6 DEF Holds, Timely, Due, Sent, Ours
<1>10. Holds("outcome", g)'
       BY <1>1, <1>2, <1>6, <1>7, <1>8, <1>9, Undisturbed DEF Holds
<1> QED BY <1>1, <1>3, <1>4, <1>6, <1>10, GoesWell DEF Stages

LEMMA SavePendingRemembers ==
  ASSUME Types, TypeOK', Memory, NEW s \in Scanners, SavePending(s)
  PROVE  Memory'
<1>1. PICK l \in Hands : l = loc[s] /\ pc[s] = "save" /\ Holds("save", l)
      BY DEF SavePending, Types, Busy, Memory
<1>2. UNCHANGED <<content, edits, quotas, uses, requests, now>>
      BY SavePendingForm DEF Types, host, usage
<1>3. Past'
      BY <1>2 DEF Memory, Past
<1>4. CASE obs' = obs /\ Goes(s, "idle", None)
  <2>1. Recalled(edits, content)' /\ Seen(edits, content)'
        BY <1>2, <1>4, Undisturbed DEF Memory
  <2> QED BY <1>1, <1>3, <1>4, <2>1, GoesWell DEF Stages
<1>5. CASE obs' = Saved(l) /\ Goes(s, "send", l)
  <2>0. /\ l.id \in Ids /\ l.o \in Observations /\ l.mode \in TwoModes /\ l.wake \in Wakes
        /\ obs \in Observations /\ now \in 1..MaxTime
        BY TypedHands DEF Types, TypeOK
  <2>1. /\ obs' \in Observations /\ obs'.id = l.id
        /\ obs'.quota = IF For(l.id).quota = None THEN l.o.quota ELSE For(l.id).quota
        /\ obs'.usage = IF For(l.id).usage = None THEN l.o.usage ELSE For(l.id).usage
        /\ obs'[l.mode] = Capped(l.wake)
        /\ \A m \in TwoModes : m # l.mode => obs'[m] = For(l.id)[m]
        BY <1>5, <2>0, SavedIsObservation
  <2>2. /\ Capped(l.wake) \in Wakes /\ Capped(l.wake) # None
        /\ Capped(l.wake).key = l.wake.key /\ Capped(l.wake).at = l.wake.at
        /\ Capped(l.wake).status = l.wake.status /\ Capped(l.wake).retry = l.wake.retry
        BY <2>0, WakesStay
  <2>3. For(l.id)' = obs' /\ obs'.usage = l.o.usage /\ obs'.quota = l.o.quota
    <3>1. obs'.usage = l.o.usage /\ obs'.quota = l.o.quota
          BY <1>1, <2>1 DEF Holds, Snapshot
    <3> QED BY <2>1, <3>1 DEF For
  <2>4. Timely("send", l)'
        BY <1>1, <1>2 DEF Holds, Timely
  <2>5. Snapshot("send", l)'
    <3>1. l.mode = "initial" => obs'.reset = l.o.reset
      <4>1. l.mode = "initial" => obs'["reset"] = For(l.id)["reset"]
            BY <2>1 DEF TwoModes
      <4> QED BY <1>1, <4>1 DEF Holds, Snapshot
    <3> QED BY <2>3, <3>1 DEF Snapshot
  <2>6. Due("send", l)'
        BY <1>1, <1>2 DEF Holds, Due, Sent, Of, Repeatable
  <2>7. Written("send", l)'
        BY <1>1, <2>1, <2>2, <2>3 DEF Holds, Timely, Written
  <2>8. Unused("send", l)'
        BY <1>1, <1>2 DEF Holds, Unused
  <2>9. Seen(l.edit, l.id)'
    <3>1. ASSUME NEW use \in uses, use.edit = l.edit PROVE obs'.usage # None
      <4>1. obs.id = l.id /\ obs.usage # None
            BY <1>1, <3>1 DEF Holds, Seen
      <4> QED BY <2>1, <4>1 DEF For
    <3> QED BY <1>2, <2>1, <3>1 DEF Seen
  <2>10. Recalled(l.edit, l.id)'
    <3> SUFFICES ASSUME NEW i \in 1..Len(requests), Of(requests[i], l.edit)
                 PROVE  Known(requests[i])'
        BY <1>2, <2>1 DEF Recalled, Of
    <3> DEFINE r == requests[i]
    <3>1. obs.id = l.id /\ Known(r) /\ For(l.id) = obs
          BY <1>1 DEF Holds, Recalled, For
    <3>2. r.mode \in TwoModes
          BY TypedRequests DEF Types
    <3>3. CASE r.mode = l.mode
      <4>1. Repeatable(r) /\ r.key = l.wake.key /\ r.at <= l.wake.at
            BY <1>1, <3>3 DEF Holds, Due, Sent
      <4>2. r.mode = "reset" => obs'.quota # None /\ r.key = Key(obs'.quota)
            BY <1>1, <2>3, <3>3, <4>1 DEF Holds, Timely
      <4>3. l.wake.at >= r.at
        <5>1. l.wake.at \in Nat /\ r.at \in Nat
              BY <2>0, TypedWakes, TypedRequests DEF Types
        <5> QED BY <4>1, <5>1
      <4>4. l.wake.status = "pending"
            BY <1>1 DEF Holds, Timely
      <4> QED BY <1>2, <2>1, <2>2, <3>3, <4>1, <4>2, <4>3, <4>4 DEF Known, Repeatable
    <3>4. CASE r.mode # l.mode
      <4>1. obs'[r.mode] = obs[r.mode]
            BY <2>1, <3>1, <3>2, <3>4
      <4>2. r.mode = "reset" => obs'.quota = obs.quota
            BY <2>1, <3>1 DEF Known
      <4> QED BY <1>2, <3>1, <4>1, <4>2 DEF Known
    <3> QED BY <3>3, <3>4
  <2>11. Holds("send", l)'
        BY <2>4, <2>5, <2>6, <2>7, <2>8, <2>9, <2>10 DEF Holds
  <2> QED BY <1>1, <1>3, <1>5, <2>11, GoesWell DEF Stages
<1> QED BY <1>1, <1>4, <1>5, SavePendingForm DEF Types

LEMMA SendRemembers ==
  ASSUME Types, TypeOK', Memory, NEW s \in Scanners, Send(s)
  PROVE  Memory'
<1>1. PICK l \in Hands : l = loc[s] /\ pc[s] = "send" /\ Holds("send", l)
      BY DEF Send, Types, Busy, Memory
<1>2. UNCHANGED <<content, edits, quotas, uses, now, obs>>
      BY <1>1, SendForm DEF Types, host, usage
<1>3. CASE ~l.wiped /\ requests' = Append(requests, NewRequest(s)) /\ Goes(s, "wait", l)
  <2>1. PICK r \in Requests : /\ r = NewRequest(s)
                              /\ r.mode = l.mode /\ r.key = l.wake.key /\ r.edit = l.edit
                              /\ r.gen = quotas /\ r.at = l.wake.at /\ r.outcome = "unrecorded"
        BY <1>1, <1>3, SendForm DEF Types, NewRequest
  <2>2. /\ Len(requests) \in Nat /\ Len(requests') = Len(requests) + 1
        /\ requests'[Len(requests')] = r
        /\ \A i \in 1..Len(requests) : requests'[i] = requests[i] /\ i # Len(requests')
        /\ \A i \in 1..Len(requests') : i \in 1..Len(requests) \/ i = Len(requests')
    <3>1. requests \in Seq(Requests) /\ requests' = Append(requests, r)
          BY <1>3, <2>1 DEF Types, TypeOK
    <3>2. Len(requests) \in Nat /\ Len(requests') = Len(requests) + 1
          BY <3>1
    <3>3. requests'[Len(requests')] = r /\ \A i \in 1..Len(requests) : requests'[i] = requests[i]
          BY <3>1
    <3> QED BY <3>2, <3>3
  <2>3. Of(r, l.edit)' /\ Known(r)'
    <3>1. Of(r, l.edit)'
          BY <1>2, <2>1 DEF Of
    <3>2. l.wake.at >= l.wake.at
          BY TypedHands, TypedWakes
    <3> QED BY <1>1, <1>2, <2>1, <3>1, <3>2 DEF Holds, Written, Known
  <2>4. Past'
    <3>1. r.edit <= edits /\ r.gen <= quotas /\ r.at <= now /\ (r.mode = "initial" => r.key = None)
          BY <1>1, <2>1, TypedRequests DEF Types, Holds, Timely
    <3> QED BY <1>2, <2>2, <3>1 DEF Memory, Past
  <2>5. Recalled(l.edit, l.id)'
    <3>1. \A q : Known(q) => Known(q)'
          BY <1>2 DEF Known
    <3>0. \A i \in 1..Len(requests) : Of(requests'[i], l.edit) => Known(requests'[i])
          BY <1>1, <2>2 DEF Holds, Recalled
    <3>2. obs.id = l.id
          BY <1>1 DEF Holds, Written
    <3> QED BY <1>2, <2>2, <2>3, <3>0, <3>1, <3>2 DEF Recalled, Of
  <2>6. Timely("wait", l)'
    <3>1. r.edit <= l.edit
          BY <2>1, TypedHands
    <3> QED BY <1>1, <1>2, <1>3, <2>2, <3>1 DEF Holds, Timely
  <2>7. Snapshot("wait", l)' /\ Written("wait", l)' /\ Unused("wait", l)' /\ Seen(l.edit, l.id)'
        BY <1>1, <1>2 DEF Holds, Snapshot, For, Written, Unused, Seen
  <2>8. Due("wait", l)'
    <3>1. Ours(r, l)' /\ Len(requests') > 0
          BY <2>1, <2>2, <2>3 DEF Ours
    <3>2. \A i \in 1..Len(requests) : requests[i].mode = l.mode /\ Of(requests[i], l.edit) =>
            /\ Repeatable(requests[i])
            /\ requests[i].key = l.wake.key /\ requests[i].at <= l.wake.at
          BY <1>1 DEF Holds, Due, Sent
    <3> QED BY <1>2, <2>2, <3>1, <3>2 DEF Due, Sent, Of, Repeatable
  <2>9. Holds("wait", l)'
        BY <2>5, <2>6, <2>7, <2>8 DEF Holds
  <2> QED BY <1>1, <1>3, <2>4, <2>9, GoesWell DEF Stages
<1>4. CASE /\ l.wiped /\ requests' = requests
           /\ Goes(s, "outcome", [l EXCEPT !.wake = Failed(l.wake, FALSE)])
  <2>1. PICK w \in Wakes : /\ w = Failed(l.wake, FALSE) /\ w.key = l.wake.key /\ w.at = l.wake.at
                           /\ w.status = "failed"
    <3>1. l.wake \in Wakes /\ now \in 1..MaxTime
          BY TypedHands DEF Types, TypeOK
    <3>2. Failed(l.wake, FALSE) \in Wakes
          BY <3>1, WakesStay
    <3> QED BY <3>1, <3>2 DEF Failed, Wakes
  <2>2. PICK g \in Hands : /\ g = [l EXCEPT !.wake = w]
                           /\ g.id = l.id /\ g.o = l.o /\ g.mode = l.mode /\ g.edit = l.edit
                           /\ g.wiped = l.wiped /\ g.wake = w
    <3> DEFINE h == [l EXCEPT !.wake = w]
    <3>1. h \in Hands /\ h.id = l.id /\ h.o = l.o /\ h.mode = l.mode /\ h.edit = l.edit
          /\ h.wiped = l.wiped /\ h.wake = w
          BY DEF Hands
    <3> QED BY <3>1
  <2>3. Timely("outcome", g)
        BY <1>1, <2>1, <2>2 DEF Holds, Timely
  <2>4. Snapshot("outcome", g) /\ Unused("outcome", g) /\ Written("outcome", g)
    <3>1. Snapshot("outcome", g) /\ Unused("outcome", g)
          BY <1>1, <2>2 DEF Holds, Snapshot, Unused
    <3>2. Written("send", l)
          BY <1>1 DEF Holds
    <3> QED BY <2>1, <2>2, <3>1, <3>2 DEF Written
  <2>5. Due("outcome", g)
    <3>1. ~Sent("outcome", g) /\ ~Sent("send", l)
          BY <1>4, <2>2 DEF Sent
    <3> QED BY <1>1, <2>1, <2>2, <3>1 DEF Holds, Due
  <2>6. Holds("outcome", g)' /\ Past'
        BY <1>1, <1>2, <1>4, <2>2, <2>3, <2>4, <2>5, Undisturbed DEF Holds, Memory
  <2> QED BY <1>1, <1>4, <2>1, <2>2, <2>6, GoesWell DEF Stages
<1> QED BY <1>1, <1>3, <1>4, SendForm DEF Types

LEMMA SaveOutcomeRemembers ==
  ASSUME Types, TypeOK', Memory, NEW s \in Scanners, SaveOutcome(s)
  PROVE  Memory'
<1>1. PICK l \in Hands : l = loc[s] /\ pc[s] = "outcome" /\ Holds("outcome", l)
      BY DEF SaveOutcome, Types, Busy, Memory
<1>2. UNCHANGED <<content, edits, quotas, uses, now>>
      BY SaveOutcomeForm DEF Types, host, usage
<1>3. CASE obs' = obs /\ requests' = requests /\ Goes(s, "idle", None)
  <2>1. Past' /\ Recalled(edits, content)' /\ Seen(edits, content)'
        BY <1>2, <1>3, Undisturbed DEF Memory
  <2> QED BY <1>1, <1>3, <2>1, GoesWell DEF Stages
<1>4. CASE /\ obs' = Saved(l)
           /\ requests' = IF l.wiped THEN requests
                          ELSE [requests EXCEPT ![Len(requests)].outcome = Outcome(l.wake)]
           /\ \/ l.mode = "initial" /\ Goes(s, "refresh", [l EXCEPT !.wiped = TRUE])
              \/ Goes(s, "idle", None)
  <2>0. /\ l.id \in Ids /\ l.o \in Observations /\ l.mode \in TwoModes /\ l.wake \in Wakes
        /\ obs \in Observations /\ now \in 1..MaxTime
        BY TypedHands DEF Types, TypeOK
  <2>1. /\ obs' \in Observations /\ obs'.id = l.id
        /\ obs'.quota = IF obs.quota = None THEN l.o.quota ELSE obs.quota
        /\ obs'.usage = IF obs.usage = None THEN l.o.usage ELSE obs.usage
        /\ obs'[l.mode] = Capped(l.wake)
        /\ \A m \in TwoModes : m # l.mode => obs'[m] = obs[m]
        /\ obs.id = l.id /\ For(l.id) = obs
    <3>1. obs.id = l.id /\ For(l.id) = obs
          BY <1>1 DEF Holds, Written, For
    <3> QED BY <1>4, <2>0, <3>1, SavedIsObservation
  <2>2. /\ Capped(l.wake) # None
        /\ Capped(l.wake).key = l.wake.key /\ Capped(l.wake).at = l.wake.at
        /\ Capped(l.wake).status = l.wake.status /\ Capped(l.wake).retry = l.wake.retry
        BY <2>0, WakesStay
  <2>3. /\ Len(requests') = Len(requests)
        /\ \A i \in 1..Len(requests) :
             /\ requests'[i].mode = requests[i].mode /\ requests'[i].key = requests[i].key
             /\ requests'[i].edit = requests[i].edit /\ requests'[i].gen = requests[i].gen
             /\ requests'[i].at = requests[i].at
             /\ requests'[i].outcome = IF ~l.wiped /\ i = Len(requests)
                                       THEN Outcome(l.wake) ELSE requests[i].outcome
    <3>1. CASE l.wiped
          BY <1>4, <3>1
    <3>2. CASE ~l.wiped
      <4>1. requests' = [requests EXCEPT ![Len(requests)] =
                           [requests[Len(requests)] EXCEPT !.outcome = Outcome(l.wake)]]
            BY <1>4, <3>2
      <4>2. /\ Len(requests) \in Nat /\ requests \in Seq(Requests)
            /\ \A i \in 1..Len(requests) : requests[i] \in Requests
            BY DEF Types, TypeOK
      <4>3. Len(requests') = Len(requests)
            BY <4>1, <4>2
      <4>4. ASSUME NEW i \in 1..Len(requests)
            PROVE  requests'[i] = IF i = Len(requests)
                                  THEN [requests[i] EXCEPT !.outcome = Outcome(l.wake)]
                                  ELSE requests[i]
            BY <4>1, <4>2
      <4> QED BY <3>2, <4>2, <4>3, <4>4 DEF Requests
    <3> QED BY <3>1, <3>2
  <2>4. Past'
        BY <1>2, <2>3 DEF Memory, Past
  <2>5. Seen(l.edit, l.id)'
        BY <1>1, <1>2, <2>1 DEF Holds, Seen
  <2>6. Recalled(l.edit, l.id)'
    <3> SUFFICES ASSUME NEW i \in 1..Len(requests), Of(requests[i], l.edit)
                 PROVE  Known(requests[i])'
        BY <1>2, <2>1, <2>3 DEF Recalled, Of
    <3> DEFINE r == requests[i]
               q == requests'[i]
    <3>1. Known(r)
          BY <1>1 DEF Holds, Recalled
    <3>2. r.mode \in TwoModes
          BY TypedRequests DEF Types
    <3>3. r.mode = "reset" => obs'.quota # None /\ r.key = Key(obs'.quota)
          BY <2>1, <3>1 DEF Known
    <3>4. CASE r.mode = l.mode
      <4>1. r.key = l.wake.key /\ l.wake.at >= r.at
            BY <1>1, <3>1, <3>4 DEF Holds, Written, Known
      <4>2. CASE ~l.wiped /\ i = Len(requests)
        <5>1. q.outcome = Outcome(l.wake)
              BY <2>3, <4>2
        <5>2. /\ l.wake.status \in {"success", "failed"}
              /\ l.wake.status = "success" => ~l.wake.retry
              BY <1>1 DEF Holds, Timely
        <5>3. /\ q.outcome \in {"success", "final"} => ~l.wake.retry
              /\ q.outcome # "unrecorded"
              BY <5>1, <5>2 DEF Outcome
        <5> QED BY <2>1, <2>2, <2>3, <3>3, <3>4, <4>1, <5>2, <5>3 DEF Known
      <4>3. CASE ~(~l.wiped /\ i = Len(requests))
        <5>1. q.outcome = r.outcome /\ Repeatable(r)
              BY <1>1, <2>3, <3>4, <4>3 DEF Holds, Due, Sent
        <5> QED BY <1>2, <2>1, <2>2, <2>3, <3>3, <3>4, <4>1, <5>1 DEF Known, Repeatable
      <4> QED BY <4>2, <4>3
    <3>5. CASE r.mode # l.mode
      <4>1. q.outcome = r.outcome
            BY <1>1, <2>3, <3>5 DEF Holds, Due, Sent, Ours
      <4>2. obs'[r.mode] = obs[r.mode]
            BY <2>1, <3>2, <3>5
      <4> QED BY <1>2, <2>3, <3>1, <3>3, <4>1, <4>2 DEF Known
    <3> QED BY <3>4, <3>5
  <2>7. Timely("idle", l)'
        BY <1>1, <1>2, <2>3 DEF Holds, Timely
  <2>8. Snapshot("refresh", l)'
    <3>1. For(l.id)' = obs' /\ obs'.usage = l.o.usage
          BY <1>1, <2>1 DEF Holds, Snapshot, For
    <3>2. obs'.quota \in {None, l.o.quota}
          BY <1>1, <2>1 DEF Holds, Snapshot
    <3>3. l.mode = "initial" => obs'["reset"] = obs["reset"]
          BY <2>1 DEF TwoModes
    <3> QED BY <1>1, <2>1, <3>1, <3>2, <3>3 DEF Holds, Snapshot
  <2>9. CASE l.mode = "initial" /\ Goes(s, "refresh", [l EXCEPT !.wiped = TRUE])
    <3>1. PICK g \in Hands : /\ g = [l EXCEPT !.wiped = TRUE]
                             /\ g.id = l.id /\ g.o = l.o /\ g.mode = l.mode /\ g.edit = l.edit
                             /\ g.wake = l.wake
      <4> DEFINE h == [l EXCEPT !.wiped = TRUE]
      <4>1. h \in Hands /\ h.id = l.id /\ h.o = l.o /\ h.mode = l.mode /\ h.edit = l.edit
            /\ h.wake = l.wake
            BY DEF Hands
      <4> QED BY <4>1
    <3>2. Timely("refresh", g)' /\ Snapshot("refresh", g)'
          BY <2>7, <2>8, <2>9, <3>1 DEF Timely, Snapshot, For
    <3>3. Due("refresh", g)' /\ Written("refresh", g)' /\ Unused("refresh", g)'
          BY DEF Due, Sent, Written, Unused
    <3>4. Holds("refresh", g)'
          BY <2>5, <2>6, <3>1, <3>2, <3>3 DEF Holds
    <3> QED BY <1>1, <2>4, <2>9, <3>1, <3>4, GoesWell DEF Stages
  <2>10. CASE Goes(s, "idle", None)
    <3>1. Due("idle", l)' /\ Written("idle", l)' /\ Unused("idle", l)' /\ Snapshot("idle", l)'
          BY <2>8 DEF Due, Sent, Written, Unused, Snapshot, For
    <3>2. Holds("idle", l)'
          BY <2>5, <2>6, <2>7, <3>1 DEF Holds
    <3>3. Recalled(edits, content)' /\ Seen(edits, content)'
          BY <3>2, HandIsCurrent
    <3> QED BY <1>1, <2>4, <2>10, <3>3, GoesWell DEF Stages
  <2> QED BY <1>4, <2>9, <2>10
<1> QED BY <1>1, <1>3, <1>4, SaveOutcomeForm DEF Types

\* The other writers take the lock, so no scan is under way.
LEMMA NoneUnderWay ==
  ASSUME Types, lock = None
  PROVE  \A s \in Scanners : pc[s] = "idle"
BY Apart DEF Types, TypeOK

\* What they write, they add to the observation of the present occupant.
LEMMA KnownStays ==
  ASSUME Types, Memory, now' = now, NEW i \in 1..Len(requests), Of(requests[i], edits),
         obs'[requests[i].mode] = obs[requests[i].mode],
         requests[i].mode = "reset" => obs'.quota = obs.quota,
         requests' = requests
  PROVE  Known(requests[i])'
<1>1. Known(requests[i])
      BY DEF Memory, Recalled
<1> QED BY <1>1 DEF Known

LEMMA WritersRemember ==
  ASSUME Types, TypeOK', Memory,
         \/ \E at \in inflight : RecordUsageOutcome(at)
         \/ \E quota \in Answers : Observe(quota)
         \/ \E quota \in Answers : quota.exhausted /\ Claim(quota)
  PROVE  Memory'
<1>1. /\ lock = None /\ UNCHANGED <<now, content, edits, requests, pc>>
      /\ For(content) \in Observations /\ For(content).id = content
  <2>1. content \in Ids /\ obs \in Observations
        BY DEF Types, TypeOK
  <2> QED BY <2>1, WritersForm, ForIsObservation DEF Types, scan
<1>2. \A s \in Scanners : pc'[s] = "idle"
      BY <1>1, NoneUnderWay
<1>3. CASE \E at \in inflight, q \in Quotas \cup {None} :
             /\ obs' = [[For(content) EXCEPT !.usage = at] EXCEPT !.quota = q]
             /\ For(content).quota # None => q = For(content).quota
             /\ uses' = uses \cup {[at |-> at, edit |-> edits]}
             /\ quotas' = quotas
  <2>1. PICK at \in inflight, q \in Quotas \cup {None} :
           /\ obs' = [[For(content) EXCEPT !.usage = at] EXCEPT !.quota = q]
           /\ For(content).quota # None => q = For(content).quota
           /\ uses' = uses \cup {[at |-> at, edit |-> edits]}
           /\ quotas' = quotas
        BY <1>3
  <2>2. at \in Times /\ at # None
        BY Apart, Bounds DEF Types, TypeOK
  <2>3. /\ obs'.id = content /\ obs'.usage # None /\ obs'.quota = q
        /\ \A m \in TwoModes : obs'[m] = For(content)[m]
        BY <1>1, <2>1, <2>2 DEF Observations, TwoModes
  <2>4. Past'
    <3>1. edits <= edits
          BY TypedRequests DEF Types
    <3> QED BY <1>1, <2>1, <3>1 DEF Memory, Past
  <2>5. Seen(edits, content)'
        BY <1>1, <2>3 DEF Seen
  <2>6. Recalled(edits, content)'
    <3> SUFFICES ASSUME NEW i \in 1..Len(requests), Of(requests[i], edits)
                 PROVE  Known(requests[i])'
        BY <1>1, <2>1, <2>3 DEF Recalled, Of
    <3>1. obs.id = content /\ Known(requests[i]) /\ For(content) = obs
          BY DEF Memory, Recalled, For
    <3>2. requests[i].mode \in TwoModes
          BY TypedRequests DEF Types
    <3>3. requests[i].mode = "reset" => obs'.quota = obs.quota
          BY <2>1, <2>3, <3>1 DEF Known
    <3> QED BY <1>1, <2>3, <3>1, <3>2, <3>3, KnownStays
  <2> QED BY <1>2, <2>4, <2>5, <2>6 DEF Memory
<1>4. CASE /\ \E q \in Quotas : obs' = [For(content) EXCEPT !.quota = q]
           /\ quotas' = quotas + 1 /\ uses' = uses
  <2>1. /\ obs'.id = content /\ obs'.usage = For(content).usage
        /\ \A m \in TwoModes : obs'[m] = For(content)[m]
        BY <1>1, <1>4 DEF Observations, TwoModes
  <2>2. \A i \in 1..Len(requests) : requests[i].gen <= quotas /\ requests[i].gen \in Nat /\ quotas \in Nat
        BY TypedRequests DEF Types, Memory, Past
  <2>3. Past'
    <3>1. \A i \in 1..Len(requests) : requests[i].gen <= quotas + 1
          BY <2>2
    <3> QED BY <1>1, <1>4, <3>1 DEF Memory, Past
  <2>4. Seen(edits, content)'
        BY <1>1, <1>4, <2>1 DEF Memory, Seen, For
  <2>5. Recalled(edits, content)'
    <3> SUFFICES ASSUME NEW i \in 1..Len(requests), Of(requests[i], edits)'
                 PROVE  Known(requests[i])'
        BY <1>1, <2>1 DEF Recalled
    <3>1. requests[i].mode # "reset" /\ Of(requests[i], edits)
          BY <1>1, <1>4, <2>2 DEF Of
    <3>2. obs.id = content /\ For(content) = obs
          BY <3>1 DEF Memory, Recalled, For
    <3>3. requests[i].mode \in TwoModes
          BY TypedRequests DEF Types
    <3> QED BY <1>1, <2>1, <3>1, <3>2, <3>3, KnownStays
  <2> QED BY <1>2, <2>3, <2>4, <2>5 DEF Memory
<1> QED BY <1>3, <1>4, WritersForm DEF Types, usage

\* A death leaves no scan under way, and damage makes a record one to be reviewed.
LEMMA CrashRemembers ==
  ASSUME Types, TypeOK', Memory, Crash
  PROVE  Memory'
<1>1. UNCHANGED <<now, content, edits, quotas, uses, requests>> /\ \A s \in Scanners : pc'[s] = "idle"
      BY DEF Crash, host
<1>2. CASE obs' = obs
      BY <1>1, <1>2, Undisturbed DEF Memory
<1>3. ASSUME NEW m \in TwoModes, obs[m] # None, obs' = [obs EXCEPT ![m] = Damaged(obs[m])]
      PROVE  Memory'
  <2>1. obs \in Observations /\ obs[m] \in Wakes /\ now \in 1..MaxTime
        BY <1>3, PartsOfObservations DEF Types, TypeOK
  <2>2. PICK w \in Wakes : /\ w = Damaged(obs[m]) /\ w.key = obs[m].key /\ w.at = obs[m].at
                           /\ w.status = "unknown" /\ ~w.retry
    <3>1. Damaged(obs[m]) \in Wakes
          BY <2>1, WakesStay
    <3>2. \A w \in Wakes : /\ Damaged(w).key = w.key /\ Damaged(w).at = w.at
                           /\ Damaged(w).status = "unknown" /\ ~Damaged(w).retry
          BY DEF Damaged, Wakes
    <3> QED BY <2>1, <3>1, <3>2
  <2>3. /\ obs'.id = obs.id /\ obs'.quota = obs.quota /\ obs'.usage = obs.usage
        /\ obs'[m] = w /\ \A n \in TwoModes : n # m => obs'[n] = obs[n]
        BY <1>3, <2>1, <2>2 DEF Observations, TwoModes
  <2>4. Past' /\ Seen(edits, content)'
        BY <1>1, <2>3 DEF Memory, Past, Seen
  <2>5. Recalled(edits, content)'
    <3> SUFFICES ASSUME NEW i \in 1..Len(requests), Of(requests[i], edits)
                 PROVE  Known(requests[i])'
        BY <1>1, <2>3 DEF Memory, Recalled, Of
    <3>1. Known(requests[i]) /\ requests[i].mode \in TwoModes
          BY TypedRequests DEF Types, Memory, Recalled
    <3>2. CASE requests[i].mode = m
      <4>1. w # None
            BY Apart
      <4> QED BY <1>1, <2>2, <2>3, <3>1, <3>2, <4>1 DEF Known
    <3>3. CASE requests[i].mode # m
          BY <1>1, <2>3, <3>1, <3>3 DEF Known
    <3> QED BY <3>2, <3>3
  <2> QED BY <1>1, <2>4, <2>5 DEF Memory
<1> QED BY <1>2, <1>3 DEF Crash, TwoModes

\* Time only makes more of what may be repeated.
LEMMA TickRemembers ==
  ASSUME Types, TypeOK', Memory, Tick
  PROVE  Memory'
<1>1. /\ now' = now + 1 /\ now \in Nat
      /\ UNCHANGED <<content, edits, obs, quotas, uses, requests, pc, loc>>
      BY TypedRequests DEF Tick, Types, host, usage, scan
<1>2. \A t \in Nat : /\ t <= now => t <= now'
                     /\ now >= t + Lease => now' >= t + Lease
      BY <1>1, Bounds
<1>3. \A i \in 1..Len(requests) : requests[i].at \in Nat
      BY TypedRequests DEF Types
<1>4. Past' /\ Recalled(edits, content)' /\ Seen(edits, content)'
      BY <1>1, <1>2, <1>3 DEF Memory, Past, Recalled, Of, Known, Seen
<1>5. ASSUME NEW s \in Scanners, pc[s] # "idle" PROVE Holds(pc[s], loc[s])'
  <2> DEFINE v == pc[s]
             l == loc[s]
  <2>1. Holds(v, l) /\ l \in Hands
        BY <1>5 DEF Memory, Types, Busy
  <2>2. l.wake.at \in Nat
        BY <2>1, TypedHands, TypedWakes
  <2>3. pc'[s] = v /\ loc'[s] = l
        BY <1>1
  <2>4. Timely(v, l)'
        BY <1>1, <1>2, <2>1, <2>2 DEF Holds, Timely
  <2>5. Snapshot(v, l)' /\ Written(v, l)' /\ Unused(v, l)' /\ Seen(l.edit, l.id)'
        BY <1>1, <2>1 DEF Holds, Snapshot, For, Written, Unused, Seen
  <2>6. Due(v, l)'
        BY <1>1, <1>2, <1>3, <2>1 DEF Holds, Due, Sent, Ours, Of, Repeatable
  <2>7. Recalled(l.edit, l.id)'
        BY <1>1, <1>2, <1>3, <2>1 DEF Holds, Recalled, Of, Known
  <2> QED BY <2>4, <2>5, <2>6, <2>7 DEF Holds
<1> QED BY <1>1, <1>4, <1>5 DEF Memory

\* A new occupant has no past.
LEMMA EditRemembers ==
  ASSUME Types, TypeOK', Memory, NEW id \in Ids, Edit(id)
  PROVE  Memory'
<1>1. /\ edits' = edits + 1 /\ edits \in Nat
      /\ UNCHANGED <<now, obs, quotas, uses, requests, pc, loc>>
      BY TypedRequests DEF Edit, Types, usage, scan
<1>2. \A i \in 1..Len(requests) : requests[i].edit < edits' /\ requests[i].edit <= edits'
  <2> SUFFICES ASSUME NEW i \in 1..Len(requests)
               PROVE  requests[i].edit < edits' /\ requests[i].edit <= edits'
      OBVIOUS
  <2>1. requests[i].edit <= edits /\ requests[i].edit \in Nat
        BY TypedRequests DEF Types, Memory, Past
  <2> QED BY <1>1, <2>1
<1>3. \A use \in uses : use.edit < edits' /\ use.edit <= edits'
  <2> SUFFICES ASSUME NEW use \in uses PROVE use.edit < edits' /\ use.edit <= edits'
      OBVIOUS
  <2>1. use.edit <= edits /\ use.edit \in Nat
        BY TypedRequests DEF Types, Memory, Past
  <2> QED BY <1>1, <2>1
<1>4. /\ \A i \in 1..Len(requests) : requests[i].edit # edits'
      /\ \A use \in uses : use.edit # edits'
  <2>1. \A i \in 1..Len(requests) : requests[i].edit \in Nat
        BY TypedRequests DEF Types
  <2>2. \A use \in uses : use.edit \in Nat
        BY TypedRequests DEF Types
  <2> QED BY <1>1, <1>2, <1>3, <2>1, <2>2
<1>5. Past' /\ Recalled(edits, content)' /\ Seen(edits, content)'
      BY <1>1, <1>2, <1>3, <1>4 DEF Memory, Past, Recalled, Of, Seen
<1>6. ASSUME NEW s \in Scanners, pc[s] # "idle" PROVE Holds(pc[s], loc[s])'
  <2> DEFINE v == pc[s]
             l == loc[s]
  <2>1. Holds(v, l) /\ l \in Hands
        BY <1>6 DEF Memory, Types, Busy
  <2>2. l.edit <= edits' /\ l.edit # edits'
    <3>1. l.edit \in Nat /\ l.edit <= edits
          BY <2>1, TypedHands DEF Holds, Timely
    <3> QED BY <1>1, <3>1
  <2>4. Timely(v, l)'
        BY <1>1, <2>1, <2>2 DEF Holds, Timely
  <2>5. Snapshot(v, l)' /\ Written(v, l)' /\ Unused(v, l)' /\ Seen(l.edit, l.id)'
        BY <1>1, <2>1 DEF Holds, Snapshot, For, Written, Unused, Seen
  <2>6. Due(v, l)'
        BY <1>1, <2>1 DEF Holds, Due, Sent, Ours, Of, Repeatable
  <2>7. Recalled(l.edit, l.id)'
        BY <1>1, <2>1 DEF Holds, Recalled, Of, Known
  <2>8. pc'[s] = v /\ loc'[s] = l
        BY <1>1
  <2> QED BY <2>4, <2>5, <2>6, <2>7 DEF Holds
<1> QED BY <1>1, <1>5, <1>6 DEF Memory

Remembering == Types /\ Memory

LEMMA RememberingInit == Init => Remembering
<1> SUFFICES ASSUME Init PROVE Memory
    BY TypesInit DEF Remembering
<1>1. requests = <<>> /\ uses = {} /\ \A s \in Scanners : pc[s] = "idle"
      BY DEF Init
<1> QED BY <1>1 DEF Memory, Past, Recalled, Seen

LEMMA RememberingStep == Remembering /\ [Next]_vars => Remembering'
<1> SUFFICES ASSUME Types, Memory, [Next]_vars PROVE Types' /\ Memory'
    BY DEF Remembering
<1>1. Types' /\ TypeOK'
      BY TypesStep DEF Types
<1>2. ASSUME NEW s \in Scanners, Scan(s) \/ Step(s) PROVE Memory'
      BY <1>1, <1>2, ScanRemembers, SavePendingRemembers, SendRemembers, ReplyRemembers,
         SaveOutcomeRemembers, RefreshRemembers, AgainRemembers DEF Step
<1>3. CASE \/ \E at \in inflight : RecordUsageOutcome(at)
           \/ \E quota \in Answers : Observe(quota)
           \/ \E quota \in Answers : quota.exhausted /\ Claim(quota)
      BY <1>1, <1>3, WritersRemember
<1>4. ASSUME UNCHANGED <<content, edits, obs, quotas, uses, requests, now, pc, loc>> PROVE Memory'
      BY <1>4, Undisturbed DEF Memory
<1>5. CASE Use \/ Recover \/ UNCHANGED vars
  <2>1. CASE Use
        BY <1>1, <1>4, <2>1 DEF Use, host, scan
  <2>2. CASE Recover
        BY <1>1, <1>4, <2>2 DEF Recover, scan, usage
  <2>3. CASE UNCHANGED vars
        BY <1>1, <1>4, <2>3 DEF vars, host, scan, usage
  <2> QED BY <1>5, <2>1, <2>2, <2>3
<1>6. CASE Crash
      BY <1>1, <1>6, CrashRemembers
<1>7. CASE Tick
      BY <1>1, <1>7, TickRemembers
<1>8. ASSUME NEW id \in Ids, Edit(id) PROVE Memory'
      BY <1>1, <1>8, EditRemembers
<1> QED BY <1>1, <1>2, <1>3, <1>5, <1>6, <1>7, <1>8 DEF Next

LEMMA AlwaysRemembering == Spec => []Remembering
BY RememberingInit, RememberingStep, PTL DEF Spec

\* RequestsRemembered.  A request that has been sent is known to the store through
\* deaths, damage and refused writes, until the credential is edited or its quota is
\* asked about again.
THEOREM SentIsRemembered == Spec => []RequestsRemembered
<1>1. Remembering => RequestsRemembered
  <2> SUFFICES ASSUME Remembering, NEW i \in 1..Len(requests), Current(requests[i])
               PROVE  obs.id = content /\ Known(requests[i])
      BY DEF RequestsRemembered, Known
  <2>1. Of(requests[i], edits)
        BY DEF Current, Of
  <2> QED BY <2>1 DEF Remembering, Memory, Recalled
<1> QED BY <1>1, AlwaysRemembering, PTL

\* Only Send makes the history longer.
LEMMA OnlySendSends ==
  ASSUME Types, [Next]_vars, Len(requests') > Len(requests)
  PROVE  \E s \in Scanners : /\ Send(s) /\ ~loc[s].wiped
                             /\ requests' = Append(requests, NewRequest(s))
                             /\ requests'[Len(requests')] = NewRequest(s)
<1>0. Len(requests) \in Nat /\ requests \in Seq(Requests)
      BY DEF Types, TypeOK
<1>1. requests' # requests
      BY <1>0
<1>2. ASSUME NEW s \in Scanners, SaveOutcome(s) PROVE FALSE
  <2>1. requests' = [requests EXCEPT ![Len(requests)].outcome = Outcome(loc[s].wake)]
        BY <1>1, <1>2, SaveOutcomeForm DEF Types
  <2>2. Len(requests') = Len(requests)
        BY <1>0, <2>1
  <2> QED BY <1>0, <2>2
<1>3. \E s \in Scanners : Send(s)
      BY <1>1, <1>2 DEF Next, Step, Scan, SavePending, Reply, Refresh, Again, Use,
         RecordUsageOutcome, Observe, Claim, Recover, Tick, Edit, Crash, vars
<1>4. PICK s \in Scanners : Send(s)
      BY <1>3
<1>5. /\ ~loc[s].wiped /\ requests' = Append(requests, NewRequest(s))
      BY <1>1, <1>4, SendForm DEF Types, Busy, Send
<1>6. requests'[Len(requests')] = NewRequest(s)
      BY <1>0, <1>5
<1> QED BY <1>4, <1>5, <1>6

\* RepeatsAreDue.  A request is repeated only when the last one is recorded as a failure
\* of transport, or, its outcome being unknown, after the lease: whatever dies between
\* the steps of a scan, and though the credential is edited under it.
THEOREM NoneTooSoon == Spec => RepeatsAreDue
<1>1. Remembering /\ [Next]_vars =>
        [Len(requests') > Len(requests) =>
           LET r == requests'[Len(requests')] IN
           \A i \in 1..Len(requests) : Alike(requests[i], r) => Repeatable(requests[i])]_vars
  <2> SUFFICES ASSUME Remembering, [Next]_vars, Len(requests') > Len(requests),
                      NEW i \in 1..Len(requests), Alike(requests[i], requests'[Len(requests')])
               PROVE  Repeatable(requests[i])
      OBVIOUS
  <2>1. PICK s \in Scanners : Send(s) /\ requests'[Len(requests')] = NewRequest(s)
        BY OnlySendSends DEF Remembering
  <2>2. pc[s] = "send" /\ Holds("send", loc[s])
        BY <2>1 DEF Send, Remembering, Memory
  <2>3. requests[i].mode = loc[s].mode /\ Of(requests[i], loc[s].edit)
        BY <2>1 DEF Alike, NewRequest, Of
  <2> QED BY <2>2, <2>3 DEF Holds, Due, Sent
<1> QED BY <1>1, AlwaysRemembering, PTL DEF Spec, RepeatsAreDue

\* UsedIsNotWoken.  The initial wake is for a credential of which no use is recorded,
\* also when the use is recorded between the decision and the request.
THEOREM UsedNeverWoken == Spec => UsedIsNotWoken
<1>1. Remembering /\ [Next]_vars =>
        [Len(requests') > Len(requests) =>
           LET r == requests'[Len(requests')] IN
           r.mode = "initial" => \A use \in uses : use.edit # r.edit]_vars
  <2> SUFFICES ASSUME Remembering, [Next]_vars, Len(requests') > Len(requests),
                      requests'[Len(requests')].mode = "initial", NEW use \in uses
               PROVE  use.edit # requests'[Len(requests')].edit
      OBVIOUS
  <2>1. PICK s \in Scanners : Send(s) /\ requests'[Len(requests')] = NewRequest(s)
        BY OnlySendSends DEF Remembering
  <2>2. Holds("send", loc[s])
        BY <2>1 DEF Send, Remembering, Memory
  <2> QED BY <2>1, <2>2 DEF Holds, Unused, NewRequest
<1> QED BY <1>1, AlwaysRemembering, PTL DEF Spec, UsedIsNotWoken

\* UsedWindowIsNotWoken.  A window is not woken when a use after its reset is recorded,
\* unless an older record was taken after that one and replaced it.
THEOREM UsedWindowNeverWoken == Spec => UsedWindowIsNotWoken
<1>1. Remembering /\ [Next]_vars =>
        [Len(requests') > Len(requests) =>
           LET r == requests'[Len(requests')] IN
           r.mode = "reset" =>
             \A use \in uses : use.edit = r.edit =>
               \/ use.at < r.key.reset
               \/ obs.usage # None /\ obs.usage < use.at]_vars
  <2> SUFFICES ASSUME Remembering, [Next]_vars, Len(requests') > Len(requests),
                      NEW use \in uses, use.edit = requests'[Len(requests')].edit
               PROVE  \/ use.at < requests'[Len(requests')].key.reset
                      \/ obs.usage # None /\ obs.usage < use.at
      OBVIOUS
  <2>1. PICK s \in Scanners : Send(s) /\ requests'[Len(requests')] = NewRequest(s)
        BY OnlySendSends DEF Remembering
  <2>2. Holds("send", loc[s])
        BY <2>1 DEF Send, Remembering, Memory
  <2>3. obs.usage = loc[s].o.usage
        BY <2>2 DEF Holds, Written, Snapshot, For
  <2> QED BY <2>1, <2>2, <2>3 DEF Holds, Unused, NewRequest
<1> QED BY <1>1, AlwaysRemembering, PTL DEF Spec, UsedWindowIsNotWoken

-----------------------------------------------------------------------------
(* The requests sent for one reason are bounded.                           *)

\* The requests of one mode for the occupant that came with an edit, about the answer
\* numbered gen when they are about a window.
Group(m, edit, gen) ==
  {i \in 1..Len(requests) : /\ requests[i].mode = m /\ requests[i].edit = edit
                            /\ m = "reset" => requests[i].gen = gen}

Size(m, edit) == Cardinality(Group(m, edit, quotas))

Bounded ==
  \A m \in TwoModes, edit \in Nat, gen \in Nat : Cardinality(Group(m, edit, gen)) <= MaxAttempts

\* The store counts at least the requests that were sent.
CountedFor(edit) ==
  \A m \in TwoModes : Group(m, edit, quotas) # {} => Size(m, edit) <= obs[m].count

Limit(l) == Capped(l.wake).count

\* A scan that has not sent its request has one left.
Tallied(v, l) ==
  /\ CountedFor(l.edit)
  /\ v \in {"save", "send"} => Size(l.mode, l.edit) < Limit(l)
  /\ v \in {"wait", "outcome"} => Size(l.mode, l.edit) <= Limit(l)
  /\ v \in {"send", "wait", "outcome"} => obs[l.mode].count = Limit(l)

Counting ==
  /\ Bounded
  /\ CountedFor(edits)
  /\ \A s \in Scanners : pc[s] # "idle" => Tallied(pc[s], loc[s])

-----------------------------------------------------------------------------
LEMMA GroupsAreFinite ==
  ASSUME TypeOK, NEW m, NEW edit, NEW gen
  PROVE  /\ IsFiniteSet(Group(m, edit, gen)) /\ Cardinality(Group(m, edit, gen)) \in Nat
         /\ Cardinality(Group(m, edit, gen)) = 0 <=> Group(m, edit, gen) = {}
<1>1. IsFiniteSet(1..Len(requests))
  <2>1. 1 \in Int /\ Len(requests) \in Int
        BY TypedRequests
  <2> QED BY <2>1, FS_Interval
<1>2. Group(m, edit, gen) \in SUBSET (1..Len(requests))
      BY DEF Group
<1>3. IsFiniteSet(Group(m, edit, gen))
      BY <1>1, <1>2, FS_Subset
<1> QED BY <1>3, FS_CardinalityType, FS_EmptySet

LEMMA SizesAreNumbers ==
  ASSUME TypeOK, NEW m, NEW edit
  PROVE  Size(m, edit) \in Nat /\ (Size(m, edit) = 0 <=> Group(m, edit, quotas) = {})
BY GroupsAreFinite DEF Size

LEMMA Limits ==
  ASSUME NEW l \in Hands
  PROVE  /\ Limit(l) \in Nat /\ Limit(l) <= MaxAttempts
         /\ Limit(l) = IF l.wake.count > MaxAttempts THEN MaxAttempts ELSE l.wake.count
<1>1. l.wake \in Wakes /\ l.wake.count \in Nat /\ MaxAttempts \in Nat
      BY TypedHands, TypedWakes, Bounds
<1>2. Limit(l) = IF l.wake.count > MaxAttempts THEN MaxAttempts ELSE l.wake.count
      BY <1>1 DEF Limit, Capped, Wakes
<1> QED BY <1>1, <1>2

\* A request that scans can see is known to the store.
LEMMA GroupIsKnown ==
  ASSUME TypeOK, NEW m \in TwoModes, NEW edit, NEW id, Recalled(edit, id),
         Group(m, edit, quotas) # {}
  PROVE  /\ obs.id = id /\ For(id) = obs
         /\ obs[m] # None
         /\ m = "reset" => obs.quota # None
         /\ \E i \in 1..Len(requests) : requests[i].mode = m /\ Of(requests[i], edit)
<1>1. PICK i \in 1..Len(requests) : requests[i].mode = m /\ Of(requests[i], edit)
      BY DEF Group, Of
<1> QED BY <1>1 DEF Recalled, Known, For

\* The groups are told by what the steps leave alone.
LEMMA GroupsStay ==
  ASSUME Len(requests') = Len(requests),
         \A i \in 1..Len(requests) :
           /\ requests'[i].mode = requests[i].mode
           /\ requests'[i].edit = requests[i].edit
           /\ requests'[i].gen = requests[i].gen
  PROVE  /\ \A m, edit, gen : Group(m, edit, gen)' = Group(m, edit, gen)
         /\ Bounded => Bounded'
<1>1. ASSUME NEW m, NEW edit, NEW gen PROVE Group(m, edit, gen)' = Group(m, edit, gen)
      BY DEF Group
<1> QED BY <1>1 DEF Bounded

LEMMA SizesStay ==
  ASSUME UNCHANGED <<quotas, requests>>
  PROVE  /\ \A m, edit, gen : Group(m, edit, gen)' = Group(m, edit, gen)
         /\ \A m, edit : Size(m, edit)' = Size(m, edit)
         /\ Bounded => Bounded'
<1>1. \A m, edit, gen : Group(m, edit, gen)' = Group(m, edit, gen)
      BY DEF Group
<1> QED BY <1>1 DEF Size, Bounded

LEMMA NotDisturbed ==
  ASSUME UNCHANGED <<obs, quotas, requests>>
  PROVE  /\ Bounded => Bounded'
         /\ \A edit : CountedFor(edit) => CountedFor(edit)'
         /\ \A v, l : Tallied(v, l) => Tallied(v, l)'
<1>1. \A edit : CountedFor(edit) => CountedFor(edit)'
      BY SizesStay DEF CountedFor
<1>2. ASSUME NEW v, NEW l, Tallied(v, l) PROVE Tallied(v, l)'
  <2>1. CountedFor(l.edit)' /\ Size(l.mode, l.edit)' = Size(l.mode, l.edit)
        BY <1>1, <1>2, SizesStay DEF Tallied
  <2> QED BY <1>2, <2>1 DEF Tallied, Limit
<1> QED BY <1>1, <1>2, SizesStay

\* No request is of an edit to come.
LEMMA NoneToCome ==
  ASSUME TypeOK', NEW edit, \A i \in 1..Len(requests') : requests'[i].edit # edit
  PROVE  CountedFor(edit)'
<1>1. \A m : Group(m, edit, quotas)' = {}
      BY DEF Group
<1> QED BY <1>1 DEF CountedFor

LEMMA HandIsCounted ==
  ASSUME TypeOK', NEW v, NEW l \in Hands, Holds(v, l)', CountedFor(l.edit)'
  PROVE  CountedFor(edits)'
<1>1. CASE l.edit = edits'
      BY <1>1
<1>2. CASE l.edit # edits'
  <2>1. \A i \in 1..Len(requests') : requests'[i].edit # edits'
        BY <1>2, NoneAhead
  <2> QED BY <2>1, NoneToCome
<1> QED BY <1>1, <1>2

\* A step of a scanner.
LEMMA GoesCounted ==
  ASSUME Types, NEW s \in Scanners, pc[s] # "idle" \/ lock = None,
         NEW v, NEW h, Goes(s, v, h), Bounded', CountedFor(edits)',
         v # "idle" => Tallied(v, h)'
  PROVE  Counting'
<1>1. pc'[s] = v /\ loc'[s] = h
      BY DEF Goes, Types, TypeOK
<1>2. \A t \in Scanners : t # s => pc'[t] = "idle"
  <2>1. \A t \in Scanners : t # s => pc[t] = "idle"
        BY Alone DEF Types
  <2> QED BY <2>1 DEF Goes, Types, TypeOK
<1>3. \A t \in Scanners : pc'[t] # "idle" => Tallied(v, h)' /\ pc'[t] = v /\ loc'[t] = h
      BY <1>1, <1>2
<1> QED BY <1>3 DEF Counting

\* A scan that begins has an attempt left.
LEMMA OneLeft ==
  ASSUME TypeOK, Past, NEW id \in Ids, NEW o \in Observations, NEW m \in TwoModes,
         NEW wiped \in BOOLEAN, NEW edit \in 0..MaxEvents,
         Recalled(edit, id), CountedFor(edit),
         For(id)[m] = o[m], For(id).quota \in {None, o.quota},
         IF m = "initial" THEN EligibleInitial(o) ELSE EligibleReset(o)
  PROVE  Tallied("save", NewHand(id, o, m, wiped, edit))
<1> DEFINE h == NewHand(id, o, m, wiped, edit)
<1>1. h \in Hands /\ h.mode = m /\ h.edit = edit /\ h.wake = Attempt(o, m)
      BY NewHandIsHand DEF NewHand, TwoModes
<1>2. /\ Limit(h) = IF h.wake.count > MaxAttempts THEN MaxAttempts ELSE h.wake.count
      /\ h.wake.count = IF o[m] = None THEN 1 ELSE o[m].count + 1
      BY <1>1, Limits DEF Attempt
<1>3. o[m] # None => o[m].count \in Nat
      BY PartsOfObservations, TypedWakes
<1>4. Size(m, edit) \in Nat /\ MaxAttempts \in 1..3
      BY SizesAreNumbers, Bounds
<1>5. Size(m, edit) < Limit(h)
  <2>1. CASE Group(m, edit, quotas) = {}
    <3>1. Size(m, edit) = 0
          BY <2>1, SizesAreNumbers
    <3> QED BY <1>2, <1>3, <1>4, <3>1
  <2>2. CASE Group(m, edit, quotas) # {}
    <3>1. PICK i \in 1..Len(requests) : requests[i].mode = m /\ Of(requests[i], edit)
          BY <2>2, GroupIsKnown
    <3>2. o[m] = obs[m] /\ o[m] # None /\ MayRetry(o[m])
          BY <3>1, RetriesTheStored
    <3>3. Size(m, edit) <= o[m].count /\ o[m].count < MaxAttempts
          BY <2>2, <3>2 DEF CountedFor, MayRetry
    <3> QED BY <1>2, <1>3, <1>4, <3>2, <3>3
  <2> QED BY <2>1, <2>2
<1> HIDE DEF h
<1> QED BY <1>1, <1>5 DEF Tallied, h

LEMMA ScanCounts ==
  ASSUME Types, Memory, Counting, NEW s \in Scanners, Scan(s)
  PROVE  Counting'
<1> DEFINE o == Observed(content)
<1>1. PICK m \in TwoModes :
         /\ IF m = "initial" THEN EligibleInitial(o) ELSE EligibleReset(o)
         /\ Goes(s, "save", NewHand(content, o, m, FALSE, edits))
      BY ScanForm DEF Types
<1>2. /\ o \in Observations /\ content \in Ids /\ edits \in 0..MaxEvents
      /\ \A n \in TwoModes : o[n] = For(content)[n]
      /\ For(content).quota \in {None, o.quota}
      /\ pc[s] = "idle" /\ lock = None
      /\ UNCHANGED <<edits, obs, quotas, requests>>
  <2>1. content \in Ids /\ obs \in Observations /\ own \in Owned \cup {None} /\ edits \in 0..MaxEvents
        BY DEF Types, TypeOK
  <2> QED BY <2>1, ObservedIsObservation, ScanForm DEF Types, host, usage
<1> DEFINE h == NewHand(content, o, m, FALSE, edits)
<1>3. Tallied("save", h)
  <2> HIDE DEF o
  <2> QED BY <1>1, <1>2, OneLeft DEF Memory, Counting, Types
<1>4. PICK g : g = h /\ Tallied("save", g) /\ Goes(s, "save", g)
      BY <1>1, <1>3
<1>5. Tallied("save", g)' /\ Bounded' /\ CountedFor(edits)'
      BY <1>2, <1>4, NotDisturbed DEF Counting
<1> HIDE DEF o, h
<1> QED BY <1>2, <1>4, <1>5, GoesCounted

LEMMA AgainCounts ==
  ASSUME Types, Memory, Counting, NEW s \in Scanners, Again(s)
  PROVE  Counting'
<1>1. PICK k \in Hands : k = loc[s] /\ pc[s] = "again" /\ Holds("again", k) /\ Tallied("again", k)
      BY DEF Again, Types, Busy, Memory, Counting
<1>2. UNCHANGED <<edits, obs, quotas, requests>>
      BY AgainForm DEF Types, host
<1>3. Bounded' /\ CountedFor(edits)'
      BY <1>2, NotDisturbed DEF Counting
<1>4. CASE Goes(s, "idle", None)
      BY <1>1, <1>3, <1>4, GoesCounted
<1>5. CASE /\ EligibleReset(k.o)
           /\ Goes(s, "save", NewHand(k.id, k.o, "reset", k.wiped, k.edit))
  <2>1. "reset" \in TwoModes /\ For(k.id)["reset"] = k.o["reset"]
        BY <1>1 DEF Holds, Timely, Snapshot, TwoModes
  <2>2. Tallied("save", NewHand(k.id, k.o, "reset", k.wiped, k.edit))
        BY <1>1, <1>5, <2>1, TypedHands, OneLeft DEF Types, Memory, Holds, Snapshot, Tallied
  <2>3. PICK g : Goes(s, "save", g) /\ Tallied("save", g)
        BY <1>5, <2>2
  <2>4. Tallied("save", g)'
        BY <1>2, <2>3, NotDisturbed
  <2> QED BY <1>1, <1>3, <2>3, <2>4, GoesCounted
<1> QED BY <1>1, <1>4, <1>5, AgainForm DEF Types

LEMMA RefreshCounts ==
  ASSUME Types, Counting, NEW s \in Scanners, Refresh(s)
  PROVE  Counting'
<1>1. PICK l \in Hands : l = loc[s] /\ pc[s] = "refresh" /\ Tallied("refresh", l)
      BY DEF Refresh, Types, Busy, Counting
<1>2. UNCHANGED <<edits, obs, quotas, requests>>
      BY RefreshForm DEF Types, host
<1>3. Bounded' /\ CountedFor(edits)'
      BY <1>2, NotDisturbed DEF Counting
<1>4. CASE Goes(s, "idle", None)
      BY <1>1, <1>3, <1>4, GoesCounted
<1>5. CASE Goes(s, "again", l)
  <2>1. Tallied("again", l)'
        BY <1>1, <1>2, NotDisturbed DEF Tallied
  <2> QED BY <1>1, <1>3, <1>5, <2>1, GoesCounted
<1>6. CASE Goes(s, "again", [l EXCEPT !.wiped = FALSE, !.edit = edits])
  <2>1. PICK g : g = [l EXCEPT !.wiped = FALSE, !.edit = edits] /\ g.edit = edits
    <3> DEFINE g == [l EXCEPT !.wiped = FALSE, !.edit = edits]
    <3>1. g.edit = edits
          BY DEF Hands
    <3> QED BY <3>1
  <2>2. Tallied("again", g)
        BY <2>1 DEF Tallied, Counting
  <2>3. Tallied("again", g)'
        BY <1>2, <2>2, NotDisturbed
  <2> QED BY <1>1, <1>3, <1>6, <2>1, <2>3, GoesCounted
<1> QED BY <1>1, <1>4, <1>5, <1>6, RefreshForm DEF Types

\* An outcome leaves the count of the attempt.
LEMMA OutcomesCount ==
  ASSUME now \in 1..MaxTime, NEW l \in Hands,
         NEW w \in Answered(l.wake)
  PROVE  LET g == [l EXCEPT !.wake = w]
         IN  g.mode = l.mode /\ g.edit = l.edit /\ Limit(g) = Limit(l)
<1>1. l.wake \in Wakes
      BY TypedHands
<1>2. w \in Wakes /\ w.count = l.wake.count
  <2>1. w \in Wakes
        BY <1>1, WakesStay DEF Answered
  <2>2. CASE w = [l.wake EXCEPT !.status = "success"]
        BY <1>1, <2>1, <2>2 DEF Wakes
  <2>3. ASSUME NEW retry \in BOOLEAN, w = Failed(l.wake, retry) PROVE w.count = l.wake.count
        BY <1>1, <2>3 DEF Failed, Wakes
  <2> QED BY <2>1, <2>2, <2>3 DEF Answered
<1> DEFINE g == [l EXCEPT !.wake = w]
<1>3. g \in Hands /\ g.mode = l.mode /\ g.edit = l.edit /\ g.wake = w
      BY <1>2 DEF Hands
<1>4. Limit(g) = Limit(l)
  <2> HIDE DEF g
  <2> QED BY <1>2, <1>3, Limits
<1> QED BY <1>3, <1>4

LEMMA ReplyCounts ==
  ASSUME Types, Counting, NEW s \in Scanners, Reply(s)
  PROVE  Counting'
<1>1. PICK l \in Hands : l = loc[s] /\ pc[s] = "wait" /\ Tallied("wait", l)
      BY DEF Reply, Types, Busy, Counting
<1>2. UNCHANGED <<edits, obs, quotas, requests>>
      BY ReplyForm DEF Types, host
<1>3. Bounded' /\ CountedFor(edits)'
      BY <1>2, NotDisturbed DEF Counting
<1>4. PICK w \in Answered(l.wake) : Goes(s, "outcome", [l EXCEPT !.wake = w])
      BY <1>1, ReplyForm DEF Types
<1>5. PICK g : /\ g = [l EXCEPT !.wake = w]
               /\ g.mode = l.mode /\ g.edit = l.edit /\ Limit(g) = Limit(l)
      BY OutcomesCount DEF Types, TypeOK
<1>6. Tallied("outcome", g)
      BY <1>1, <1>5 DEF Tallied
<1>7. Tallied("outcome", g)'
      BY <1>2, <1>6, NotDisturbed
<1> QED BY <1>1, <1>3, <1>4, <1>5, <1>7, GoesCounted

LEMMA SavePendingCounts ==
  ASSUME Types, Types', Memory, Memory', Counting, NEW s \in Scanners, SavePending(s)
  PROVE  Counting'
<1>1. PICK l \in Hands : /\ l = loc[s] /\ pc[s] = "save"
                         /\ Holds("save", l) /\ Tallied("save", l)
      BY DEF SavePending, Types, Busy, Memory, Counting
<1>2. UNCHANGED <<edits, quotas, requests>>
      BY SavePendingForm DEF Types, host
<1>3. CASE obs' = obs /\ Goes(s, "idle", None)
      BY <1>1, <1>2, <1>3, NotDisturbed, GoesCounted DEF Counting
<1>4. CASE obs' = Saved(l) /\ Goes(s, "send", l)
  <2>0. /\ l.mode \in TwoModes /\ obs \in Observations /\ now \in 1..MaxTime
        BY TypedHands DEF Types, TypeOK
  <2>1. /\ obs'[l.mode].count = Limit(l)
        /\ \A m \in TwoModes : m # l.mode => obs'[m] = For(l.id)[m]
        BY <1>4, <2>0, SavedIsObservation DEF Limit
  <2>2. Limit(l) \in Nat /\ Size(l.mode, l.edit) \in Nat /\ Size(l.mode, l.edit) < Limit(l)
        BY <1>1, Limits, SizesAreNumbers DEF Types, Tallied
  <2>3. CountedFor(l.edit)'
    <3> SUFFICES ASSUME NEW m \in TwoModes, Group(m, l.edit, quotas) # {}
                 PROVE  Size(m, l.edit) <= obs'[m].count
        BY <1>2, SizesStay DEF CountedFor
    <3>1. CASE m = l.mode
          BY <2>1, <2>2, <3>1
    <3>2. CASE m # l.mode
      <4>1. obs'[m] = obs[m]
            BY <1>1, <2>1, <3>2, GroupIsKnown DEF Holds, Types
      <4> QED BY <1>1, <4>1 DEF Tallied, CountedFor
    <3> QED BY <3>1, <3>2
  <2>4. Tallied("send", l)'
    <3>1. Size(l.mode, l.edit)' = Size(l.mode, l.edit)
          BY <1>2, SizesStay
    <3> QED BY <2>1, <2>2, <2>3, <3>1 DEF Tallied, Limit
  <2>5. Bounded'
        BY <1>2, SizesStay DEF Counting
  <2>6. Holds("send", l)'
    <3>1. pc'[s] = "send" /\ loc'[s] = l
          BY <1>4 DEF Goes, Types, TypeOK
    <3> QED BY <3>1 DEF Memory
  <2>7. CountedFor(edits)'
        BY <2>3, <2>6, HandIsCounted DEF Types
  <2> QED BY <1>1, <1>4, <2>4, <2>5, <2>7, GoesCounted
<1> QED BY <1>1, <1>3, <1>4, SavePendingForm DEF Types

LEMMA SendCounts ==
  ASSUME Types, Types', Memory, Memory', Counting, NEW s \in Scanners, Send(s)
  PROVE  Counting'
<1>1. PICK l \in Hands : /\ l = loc[s] /\ pc[s] = "send"
                         /\ Holds("send", l) /\ Tallied("send", l)
      BY DEF Send, Types, Busy, Memory, Counting
<1>2. UNCHANGED <<edits, quotas, obs>>
      BY <1>1, SendForm DEF Types, host
<1>0. l.mode \in TwoModes /\ l.edit \in Nat /\ quotas \in Nat
      BY TypedHands, TypedRequests DEF Types
<1>3. CASE ~l.wiped /\ requests' = Append(requests, NewRequest(s)) /\ Goes(s, "wait", l)
  <2> DEFINE r == NewRequest(s)
  <2>1. r.mode = l.mode /\ r.edit = l.edit /\ r.gen = quotas
        BY <1>1 DEF NewRequest
  <2>2. /\ Len(requests) \in Nat /\ Len(requests') = Len(requests) + 1
        /\ requests'[Len(requests) + 1] = r
        /\ \A i \in 1..Len(requests) : requests'[i] = requests[i]
        /\ 1..(Len(requests) + 1) = (1..Len(requests)) \cup {Len(requests) + 1}
    <3>1. r \in Requests
          BY <1>1, <1>3, SendForm DEF Types
    <3>2. requests \in Seq(Requests) /\ requests' = Append(requests, r)
          BY <1>3 DEF Types, TypeOK
    <3> HIDE DEF r
    <3>3. Len(requests) \in Nat /\ Len(requests') = Len(requests) + 1
          BY <3>1, <3>2
    <3>4. /\ requests'[Len(requests) + 1] = r
          /\ \A i \in 1..Len(requests) : requests'[i] = requests[i]
          BY <3>1, <3>2
    <3> QED BY <3>3, <3>4
  <2> HIDE DEF r
  <2>3. ASSUME NEW m \in TwoModes, NEW edit \in Nat, NEW gen \in Nat
        PROVE  Group(m, edit, gen)' =
                 IF r.mode = m /\ r.edit = edit /\ (m = "reset" => r.gen = gen)
                 THEN Group(m, edit, gen) \cup {Len(requests) + 1} ELSE Group(m, edit, gen)
    <3>1. Group(m, edit, gen)' =
            {i \in 1..(Len(requests) + 1) :
               /\ requests'[i].mode = m /\ requests'[i].edit = edit
               /\ m = "reset" => requests'[i].gen = gen}
          BY <2>2 DEF Group
    <3> QED BY <2>2, <3>1 DEF Group
  <2>4. ASSUME NEW m \in TwoModes, NEW edit \in Nat, NEW gen \in Nat
        PROVE  Cardinality(Group(m, edit, gen)') =
                 IF r.mode = m /\ r.edit = edit /\ (m = "reset" => r.gen = gen)
                 THEN Cardinality(Group(m, edit, gen)) + 1 ELSE Cardinality(Group(m, edit, gen))
    <3>1. IsFiniteSet(Group(m, edit, gen)) /\ Len(requests) + 1 \notin Group(m, edit, gen)
      <4>1. IsFiniteSet(Group(m, edit, gen))
            BY GroupsAreFinite DEF Types
      <4>2. Len(requests) + 1 \notin 1..Len(requests)
            BY <2>2
      <4> QED BY <4>1, <4>2 DEF Group
    <3> QED BY <2>3, <3>1, FS_AddElement
  <2>5. Size(l.mode, l.edit)' = Size(l.mode, l.edit) + 1
        BY <1>0, <1>2, <2>1, <2>4 DEF Size
  <2>6. /\ Limit(l) \in Nat /\ Limit(l) <= MaxAttempts /\ MaxAttempts \in Nat
        /\ Size(l.mode, l.edit) \in Nat /\ Size(l.mode, l.edit) < Limit(l)
        /\ obs[l.mode].count = Limit(l)
        BY <1>1, Limits, SizesAreNumbers, Bounds DEF Types, Tallied
  <2>7. Bounded'
    <3> SUFFICES ASSUME NEW m \in TwoModes, NEW edit \in Nat, NEW gen \in Nat
                 PROVE  Cardinality(Group(m, edit, gen)') <= MaxAttempts
        BY DEF Bounded
    <3>1. CASE r.mode = m /\ r.edit = edit /\ (m = "reset" => r.gen = gen)
      <4>1. Group(m, edit, gen) = Group(l.mode, l.edit, quotas)
            BY <2>1, <3>1 DEF Group
      <4>2. Cardinality(Group(m, edit, gen)) = Size(l.mode, l.edit)
            BY <4>1 DEF Size
      <4> QED BY <2>4, <2>6, <3>1, <4>2
    <3>2. CASE ~(r.mode = m /\ r.edit = edit /\ (m = "reset" => r.gen = gen))
          BY <2>4, <3>2 DEF Counting, Bounded
    <3> QED BY <3>1, <3>2
  <2>8. CountedFor(l.edit)'
    <3> SUFFICES ASSUME NEW m \in TwoModes, Group(m, l.edit, quotas)' # {}
                 PROVE  Size(m, l.edit)' <= obs[m].count
        BY <1>2 DEF CountedFor
    <3>1. CASE m = l.mode
          BY <2>5, <2>6, <3>1
    <3>2. CASE m # l.mode
      <4>1. Group(m, l.edit, quotas)' = Group(m, l.edit, quotas)
            BY <1>0, <1>2, <2>1, <2>3, <3>2
      <4>2. Size(m, l.edit)' = Size(m, l.edit)
            BY <4>1 DEF Size
      <4> QED BY <1>1, <4>1, <4>2 DEF Tallied, CountedFor
    <3> QED BY <3>1, <3>2
  <2>9. Tallied("wait", l)'
        BY <1>2, <2>5, <2>6, <2>8 DEF Tallied, Limit
  <2>10. Holds("wait", l)'
    <3>1. pc'[s] = "wait" /\ loc'[s] = l
          BY <1>3 DEF Goes, Types, TypeOK
    <3> QED BY <3>1 DEF Memory
  <2>11. CountedFor(edits)'
         BY <2>8, <2>10, HandIsCounted DEF Types
  <2> QED BY <1>1, <1>3, <2>7, <2>9, <2>11, GoesCounted
<1>4. CASE /\ requests' = requests
           /\ Goes(s, "outcome", [l EXCEPT !.wake = Failed(l.wake, FALSE)])
  <2>1. PICK g : /\ g = [l EXCEPT !.wake = Failed(l.wake, FALSE)]
                 /\ g.mode = l.mode /\ g.edit = l.edit /\ Limit(g) = Limit(l)
    <3>1. PICK w \in Answered(l.wake) : w = Failed(l.wake, FALSE)
          BY DEF Answered
    <3> QED BY <3>1, OutcomesCount DEF Types, TypeOK
  <2>2. Size(l.mode, l.edit) \in Nat /\ Limit(l) \in Nat
        BY Limits, SizesAreNumbers DEF Types
  <2>3. Tallied("outcome", g)
        BY <1>1, <2>1, <2>2 DEF Tallied
  <2>4. Tallied("outcome", g)' /\ Bounded' /\ CountedFor(edits)'
        BY <1>2, <1>4, <2>3, NotDisturbed DEF Counting
  <2> QED BY <1>1, <1>4, <2>1, <2>4, GoesCounted
<1> QED BY <1>1, <1>3, <1>4, SendForm DEF Types

LEMMA SaveOutcomeCounts ==
  ASSUME Types, Types', Memory, Memory', Counting, NEW s \in Scanners, SaveOutcome(s)
  PROVE  Counting'
<1>1. PICK l \in Hands : /\ l = loc[s] /\ pc[s] = "outcome"
                         /\ Holds("outcome", l) /\ Tallied("outcome", l)
      BY DEF SaveOutcome, Types, Busy, Memory, Counting
<1>2. UNCHANGED <<edits, quotas>>
      BY SaveOutcomeForm DEF Types, host
<1>3. CASE obs' = obs /\ requests' = requests /\ Goes(s, "idle", None)
      BY <1>1, <1>2, <1>3, NotDisturbed, GoesCounted DEF Counting
<1>4. CASE /\ obs' = Saved(l)
           /\ requests' = IF l.wiped THEN requests
                          ELSE [requests EXCEPT ![Len(requests)].outcome = Outcome(l.wake)]
           /\ \/ l.mode = "initial" /\ Goes(s, "refresh", [l EXCEPT !.wiped = TRUE])
              \/ Goes(s, "idle", None)
  <2>0. /\ l.mode \in TwoModes /\ obs \in Observations /\ now \in 1..MaxTime
        BY TypedHands DEF Types, TypeOK
  <2>1. /\ obs'[l.mode].count = Limit(l)
        /\ \A m \in TwoModes : m # l.mode => obs'[m] = obs[m]
    <3>1. For(l.id) = obs
          BY <1>1 DEF Holds, Written, For
    <3> QED BY <1>4, <2>0, <3>1, SavedIsObservation DEF Limit
  <2>2. /\ \A m, edit, gen : Group(m, edit, gen)' = Group(m, edit, gen)
        /\ Bounded'
    <3>1. CASE l.wiped
          BY <1>2, <1>4, <3>1, SizesStay DEF Counting
    <3>2. CASE ~l.wiped
      <4>1. requests' = [requests EXCEPT ![Len(requests)] =
                           [requests[Len(requests)] EXCEPT !.outcome = Outcome(l.wake)]]
            BY <1>4, <3>2
      <4>2. /\ Len(requests) \in Nat /\ requests \in Seq(Requests)
            /\ \A i \in 1..Len(requests) : requests[i] \in Requests
            BY DEF Types, TypeOK
      <4>3. Len(requests') = Len(requests)
            BY <4>1, <4>2
      <4>4. ASSUME NEW i \in 1..Len(requests)
            PROVE  requests'[i] = IF i = Len(requests)
                                  THEN [requests[i] EXCEPT !.outcome = Outcome(l.wake)]
                                  ELSE requests[i]
            BY <4>1, <4>2
      <4>5. \A i \in 1..Len(requests) :
              /\ requests'[i].mode = requests[i].mode
              /\ requests'[i].edit = requests[i].edit
              /\ requests'[i].gen = requests[i].gen
            BY <4>2, <4>4 DEF Requests
      <4> QED BY <4>3, <4>5, GroupsStay DEF Counting
    <3> QED BY <3>1, <3>2
  <2>3. \A m, edit : Size(m, edit)' = Size(m, edit)
        BY <1>2, <2>2 DEF Size
  <2>4. CountedFor(l.edit)'
    <3> SUFFICES ASSUME NEW m \in TwoModes, Group(m, l.edit, quotas) # {}
                 PROVE  Size(m, l.edit) <= obs'[m].count
        BY <1>2, <2>2, <2>3 DEF CountedFor
    <3> QED BY <1>1, <2>1 DEF Tallied, CountedFor
  <2>5. PICK g : g = [l EXCEPT !.wiped = TRUE] /\ g.edit = l.edit
    <3> DEFINE g == [l EXCEPT !.wiped = TRUE]
    <3>1. g.edit = l.edit
          BY DEF Hands
    <3> QED BY <3>1
  <2>6. Tallied("refresh", g)'
        BY <2>4, <2>5 DEF Tallied
  <2>7. Counting'
    <3>1. CountedFor(edits)'
      <4>1. CASE l.edit = edits
            BY <1>2, <2>4, <4>1
      <4>2. CASE l.edit # edits
        <5>1. \A i \in 1..Len(requests) : requests[i].edit # edits
          <6> SUFFICES ASSUME NEW i \in 1..Len(requests) PROVE requests[i].edit # edits
              OBVIOUS
          <6>1. requests[i].edit <= l.edit /\ l.edit <= edits
                BY <1>1 DEF Holds, Timely
          <6>2. requests[i].edit \in Nat /\ l.edit \in Nat /\ edits \in Nat
                BY TypedRequests, TypedHands DEF Types
          <6> QED BY <4>2, <6>1, <6>2
        <5>2. \A m : Group(m, edits, quotas) = {}
              BY <5>1 DEF Group
        <5> QED BY <1>2, <2>2, <5>2 DEF CountedFor
      <4> QED BY <4>1, <4>2
    <3> QED BY <1>1, <1>4, <2>2, <2>5, <2>6, <3>1, GoesCounted
  <2> QED BY <2>7
<1> QED BY <1>1, <1>3, <1>4, SaveOutcomeForm DEF Types

\* Another writer keeps the counts of the present occupant; a new answer about the quota
\* begins a new count.
LEMMA WritersCount ==
  ASSUME Types, Types', Memory, Counting,
         \/ \E at \in inflight : RecordUsageOutcome(at)
         \/ \E quota \in Answers : Observe(quota)
         \/ \E quota \in Answers : quota.exhausted /\ Claim(quota)
  PROVE  Counting'
<1>1. /\ lock = None /\ UNCHANGED <<edits, requests, pc>>
      /\ quotas' = quotas \/ quotas' = quotas + 1
      /\ \A m \in TwoModes : obs'[m] = For(content)[m]
  <2>1. content \in Ids /\ For(content) \in Observations
        BY ForIsObservation DEF Types, TypeOK
  <2>2. ASSUME NEW at \in inflight, NEW q \in Quotas \cup {None}, NEW m \in TwoModes
        PROVE  [[For(content) EXCEPT !.usage = at] EXCEPT !.quota = q][m] = For(content)[m]
        BY <2>1 DEF Observations, TwoModes
  <2>3. ASSUME NEW q \in Quotas, NEW m \in TwoModes
        PROVE  [For(content) EXCEPT !.quota = q][m] = For(content)[m]
        BY <2>1 DEF Observations, TwoModes
  <2>4. \/ \E at \in inflight, q \in Quotas \cup {None} :
              obs' = [[For(content) EXCEPT !.usage = at] EXCEPT !.quota = q]
        \/ \E q \in Quotas : obs' = [For(content) EXCEPT !.quota = q]
    <3> DEFINE used == \E at \in inflight, q \in Quotas \cup {None} :
                         /\ obs' = [[For(content) EXCEPT !.usage = at] EXCEPT !.quota = q]
                         /\ For(content).quota # None => q = For(content).quota
                         /\ inflight' = inflight \ {at}
                         /\ uses' = uses \cup {[at |-> at, edit |-> edits]}
               asked == \E q \in Quotas : obs' = [For(content) EXCEPT !.quota = q]
    <3>1. used \/ asked
      <4>1. CASE used
            BY <4>1
      <4>2. CASE ~used
        <5> HIDE DEF asked
        <5> QED BY <4>2, WritersForm DEF Types, asked
      <4> QED BY <4>1, <4>2
    <3> QED BY <3>1
  <2>5. \A m \in TwoModes : obs'[m] = For(content)[m]
    <3>1. ASSUME NEW at \in inflight, NEW q \in Quotas \cup {None},
                 obs' = [[For(content) EXCEPT !.usage = at] EXCEPT !.quota = q]
          PROVE  \A m \in TwoModes : obs'[m] = For(content)[m]
          BY <2>2, <3>1
    <3>2. ASSUME NEW q \in Quotas, obs' = [For(content) EXCEPT !.quota = q]
          PROVE  \A m \in TwoModes : obs'[m] = For(content)[m]
          BY <2>3, <3>2
    <3> QED BY <2>4, <3>1, <3>2
  <2>6. /\ lock = None /\ UNCHANGED <<edits, requests, pc>>
        /\ quotas' = quotas \/ quotas' = quotas + 1
        BY WritersForm DEF Types, scan
  <2> QED BY <2>5, <2>6
<1>2. \A s \in Scanners : pc'[s] = "idle"
      BY <1>1, NoneUnderWay
<1>3. Bounded' /\ \A m, edit, gen : Group(m, edit, gen)' = Group(m, edit, gen)
      BY <1>1, GroupsStay DEF Counting
<1>4. CountedFor(edits)'
  <2> SUFFICES ASSUME NEW m \in TwoModes, Group(m, edits, quotas') # {}
               PROVE  Cardinality(Group(m, edits, quotas')) <= obs'[m].count
      BY <1>1, <1>3 DEF CountedFor, Size
  <2>1. Group(m, edits, quotas') = Group(m, edits, quotas)
    <3>1. CASE m = "initial" \/ quotas' = quotas
          BY <3>1 DEF Group
    <3>2. CASE m = "reset" /\ quotas' = quotas + 1
      <4>1. \A i \in 1..Len(requests) : requests[i].gen # quotas + 1
        <5>1. \A i \in 1..Len(requests) :
                requests[i].gen <= quotas /\ requests[i].gen \in Nat /\ quotas \in Nat
              BY TypedRequests DEF Types, Memory, Past
        <5> QED BY <5>1
      <4> QED BY <3>2, <4>1 DEF Group
    <3> QED BY <1>1, <3>1, <3>2 DEF TwoModes
  <2>2. For(content) = obs
        BY <2>1, GroupIsKnown DEF Types, Memory
  <2> QED BY <1>1, <2>1, <2>2 DEF Counting, CountedFor, Size
<1> QED BY <1>2, <1>3, <1>4 DEF Counting

LEMMA CrashCounts ==
  ASSUME Types, Counting, Crash
  PROVE  Counting'
<1>1. UNCHANGED <<edits, quotas, requests>> /\ \A s \in Scanners : pc'[s] = "idle"
      BY DEF Crash, host
<1>2. \A m \in TwoModes : obs'[m] = obs[m] \/ obs'[m].count = MaxAttempts
  <2>1. CASE obs' = obs
        BY <2>1
  <2>2. ASSUME NEW n \in TwoModes, obs[n] # None, obs' = [obs EXCEPT ![n] = Damaged(obs[n])]
        PROVE  \A m \in TwoModes : obs'[m] = obs[m] \/ obs'[m].count = MaxAttempts
    <3>1. obs \in Observations /\ obs[n] \in Wakes
          BY <2>2, PartsOfObservations DEF Types, TypeOK
    <3>2. Damaged(obs[n]).count = MaxAttempts
          BY <3>1 DEF Damaged, Wakes
    <3>3. obs'[n] = Damaged(obs[n]) /\ \A m \in TwoModes : m # n => obs'[m] = obs[m]
          BY <2>2, <3>1 DEF Observations, TwoModes
    <3> QED BY <3>2, <3>3
  <2> QED BY <2>1, <2>2 DEF Crash, TwoModes
<1>3. CountedFor(edits)'
  <2> SUFFICES ASSUME NEW m \in TwoModes, Group(m, edits, quotas) # {}
               PROVE  Size(m, edits) <= obs'[m].count
      BY <1>1, SizesStay DEF CountedFor
  <2>1. Size(m, edits) <= MaxAttempts
        BY TypedRequests DEF Counting, Bounded, Size, Types
  <2> QED BY <1>2, <2>1 DEF Counting, CountedFor
<1> QED BY <1>1, <1>3, SizesStay DEF Counting

LEMMA EditCounts ==
  ASSUME Types, Types', Memory, Counting, NEW id \in Ids, Edit(id)
  PROVE  Counting'
<1>1. edits' = edits + 1 /\ UNCHANGED <<obs, quotas, requests, pc, loc>>
      BY DEF Edit, scan
<1>2. \A i \in 1..Len(requests') : requests'[i].edit # edits'
  <2>1. \A i \in 1..Len(requests) :
          requests[i].edit <= edits /\ requests[i].edit \in Nat /\ edits \in Nat
        BY TypedRequests DEF Types, Memory, Past
  <2> QED BY <1>1, <2>1
<1>3. CountedFor(edits)'
      BY <1>2, NoneToCome DEF Types
<1> QED BY <1>1, <1>3, NotDisturbed DEF Counting

Remembered == Remembering /\ Counting

LEMMA CountingInit == Init => Counting
<1> SUFFICES ASSUME Init PROVE Counting
    OBVIOUS
<1>1. requests = <<>> /\ \A s \in Scanners : pc[s] = "idle"
      BY DEF Init
<1>2. \A m, edit, gen : Group(m, edit, gen) = {}
      BY <1>1 DEF Group
<1>3. Cardinality({}) = 0 /\ 0 <= MaxAttempts
      BY FS_EmptySet, Bounds
<1> QED BY <1>1, <1>2, <1>3 DEF Counting, Bounded, CountedFor

LEMMA CountingStep == Remembered /\ [Next]_vars => Remembered'
<1> SUFFICES ASSUME Types, Memory, Counting, [Next]_vars PROVE Types' /\ Memory' /\ Counting'
    BY DEF Remembered, Remembering
<1>1. Types' /\ Memory'
      BY RememberingStep DEF Remembering
<1>2. ASSUME NEW s \in Scanners, Scan(s) \/ Step(s) PROVE Counting'
      BY <1>1, <1>2, ScanCounts, SavePendingCounts, SendCounts, ReplyCounts,
         SaveOutcomeCounts, RefreshCounts, AgainCounts DEF Step
<1>3. CASE \/ \E at \in inflight : RecordUsageOutcome(at)
           \/ \E quota \in Answers : Observe(quota)
           \/ \E quota \in Answers : quota.exhausted /\ Claim(quota)
      BY <1>1, <1>3, WritersCount
<1>4. ASSUME UNCHANGED <<edits, obs, quotas, requests, pc, loc>> PROVE Counting'
      BY <1>4, NotDisturbed DEF Counting
<1>5. CASE Use
      BY <1>1, <1>4, <1>5 DEF Use, host, scan
<1>6. CASE Recover
      BY <1>1, <1>4, <1>6 DEF Recover, scan
<1>7. CASE Tick
      BY <1>1, <1>4, <1>7 DEF Tick, host, scan
<1>8. CASE UNCHANGED vars
      BY <1>1, <1>4, <1>8 DEF vars, host, scan
<1>9. CASE Crash
      BY <1>1, <1>9, CrashCounts
<1>10. ASSUME NEW id \in Ids, Edit(id) PROVE Counting'
      BY <1>1, <1>10, EditCounts
<1> QED BY <1>1, <1>2, <1>3, <1>5, <1>6, <1>7, <1>8, <1>9, <1>10 DEF Next

\* AttemptsBounded.  However often the plugin dies, its store refuses or is damaged, the
\* requests sent for one reason are at most MaxAttempts.
THEOREM AttemptsAreBounded == Spec => []AttemptsBounded
<1>1. Init => Remembered
      BY RememberingInit, CountingInit DEF Remembered
<1>2. Remembered => AttemptsBounded
  <2> SUFFICES ASSUME Remembered, NEW i \in 1..Len(requests)
               PROVE  Cardinality({j \in 1..Len(requests) : Alike(requests[i], requests[j])})
                        <= MaxAttempts
      BY DEF AttemptsBounded
  <2> DEFINE r == requests[i]
             same == {j \in 1..Len(requests) : Alike(r, requests[j])}
             group == Group(r.mode, r.edit, r.gen)
  <2>1. same \in SUBSET group
        BY DEF Group, Alike
  <2>2. TypeOK /\ r.mode \in TwoModes /\ r.edit \in Nat /\ r.gen \in Nat
        BY TypedRequests DEF Remembered, Remembering, Types
  <2>3. IsFiniteSet(group) /\ Cardinality(group) \in Nat /\ Cardinality(group) <= MaxAttempts
        BY <2>2, GroupsAreFinite DEF Remembered, Counting, Bounded
  <2>4. IsFiniteSet(same) /\ Cardinality(same) <= Cardinality(group)
        BY <2>1, <2>3, FS_Subset
  <2>5. Cardinality(same) \in Nat /\ MaxAttempts \in Nat
        BY <2>4, FS_CardinalityType, Bounds
  <2> QED BY <2>3, <2>4, <2>5
<1> QED BY <1>1, <1>2, CountingStep, PTL DEF Spec

=============================================================================
