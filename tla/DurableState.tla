---------------------------- MODULE DurableState ----------------------------
(***************************************************************************)
(* What a state store promises to the plugin.  It holds a set of records.  *)
(* One change at a time adds a record or removes one.  A change that fails *)
(* leaves everything as it was; one that succeeds can no longer be lost: a *)
(* stop leaves one of the values that are owed, and success is reported    *)
(* when no other value is.  There are two exceptions: a success may follow *)
(* a lapse, when the value before it is owed as well; and damage done to   *)
(* the file from outside, while the store is not open, loses records.      *)
(***************************************************************************)
EXTENDS Naturals

CONSTANTS Records, None

VARIABLES
  up,       \* is the store open
  value,    \* the records it holds
  pending,  \* the record whose change is under way, None when there is none
  owed,     \* the values a stop may leave
  lapsed,   \* was the last attempt to settle a change in vain
  damages   \* how often the file was damaged

vars == <<up, value, pending, owed, lapsed, damages>>

Changed(v, r) == IF r \in v THEN v \ {r} ELSE v \cup {r}
Wanted == Changed(value, pending)

Init == up = FALSE /\ value = {} /\ pending = None /\ owed = {{}} /\ lapsed = FALSE /\ damages = 0

Open == ~up /\ up' = TRUE /\ UNCHANGED <<value, pending, owed, lapsed, damages>>

Start(r) ==
  /\ up /\ pending = None
  /\ pending' = r
  /\ UNCHANGED <<up, value, owed, lapsed, damages>>

\* The change may survive a stop from now on, and then must.
Reach ==
  /\ pending # None
  /\ owed' = owed \cup {Wanted}
  /\ UNCHANGED <<up, value, pending, lapsed, damages>>

Settle ==
  /\ pending # None /\ Wanted \in owed
  /\ owed' = {Wanted} /\ lapsed' = FALSE
  /\ UNCHANGED <<up, value, pending, damages>>

Lapse ==
  /\ pending # None /\ Wanted \in owed
  /\ lapsed' = TRUE
  /\ UNCHANGED <<up, value, pending, owed, damages>>

Succeed ==
  /\ pending # None
  /\ owed = {Wanted} \/ (lapsed /\ Wanted \in owed)
  /\ value' = Wanted
  /\ pending' = None
  /\ UNCHANGED <<up, owed, lapsed, damages>>

Fail ==
  /\ pending # None
  /\ pending' = None
  /\ UNCHANGED <<up, value, owed, lapsed, damages>>

Stop ==
  /\ up' = FALSE /\ pending' = None
  /\ value' \in owed
  /\ owed' = owed \/ owed' = {value'}
  /\ UNCHANGED <<lapsed, damages>>

Damage ==
  /\ ~up
  /\ value' = {} /\ owed' = {{}}
  /\ damages' = damages + 1
  /\ UNCHANGED <<up, pending, lapsed>>

Next ==
  \/ Open \/ (\E r \in Records : Start(r))
  \/ Reach \/ Settle \/ Lapse \/ Succeed \/ Fail \/ Stop \/ Damage

Spec == Init /\ [][Next]_vars

=============================================================================
