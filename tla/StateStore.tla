----------------------------- MODULE StateStore -----------------------------
(***************************************************************************)
(* The store of state.json: load, Update with its atomic write, quarantine *)
(* of a file that does not decode, Close.                                  *)
(*                                                                         *)
(* An update holds the store's mutex from its private copy to the moment   *)
(* the copy is published, and does its disk I/O in between: a temporary    *)
(* file is created, written, synced and renamed over state.json, and the   *)
(* directory is synced.  A death of the process leaves the files as they   *)
(* are; a loss of power leaves of each what was synced, or anything newer. *)
(*                                                                         *)
(* A state is the set of its records; an update adds or removes one.       *)
(***************************************************************************)
EXTENDS Naturals

CONSTANTS
  Records,
  None,
  Faults,      \* the operations that may fail
  MaxFaults,   \* bound: failures
  MaxDamages   \* bound: damages done to state.json from outside

FaultKinds == {"load", "quarantine", "refuse", "temp", "write", "sync", "rename", "sync_dir"}

ASSUME StateStoreAssumption ==
  /\ None \notin Records
  /\ Faults \subseteq FaultKinds
  /\ MaxFaults \in Nat /\ MaxDamages \in Nat

VARIABLES
  proc,     \* "down", "loading", "corrupt" (to be quarantined), "up", "closed"
  state,    \* the store's memory
  writer,   \* the record whose update holds the mutex, None when free
  step,     \* how far that update got
  next,     \* its private copy
  tmp,      \* its temporary file
  synced,   \* is the temporary file on the medium
  file,     \* state.json as the operating system shows it
  after,    \* what state.json may be after a loss of power
  lapsed,   \* did the last sync of the directory fail
  saved,    \* is the last damaged file kept in quarantine
  damages, faults

memory == <<state, writer, step, next>>
temp   == <<tmp, synced>>
disk   == <<file, after, lapsed>>
env    == <<saved, damages>>
vars   == <<proc, memory, temp, disk, env, faults>>

Procs == {"down", "loading", "corrupt", "up", "closed"}
Steps == {"idle", "copy", "write", "sync", "rename", "sync_dir", "publish"}

\* The contents of a file: a state that decodes and is valid, or not one.
Valid(s) == [kind |-> "state", records |-> s]
NotState(kind) == [kind |-> kind, records |-> {}]
Absent  == NotState("absent")
Damaged == NotState("damaged")
Torn    == NotState("torn")
Contents == {Valid(s) : s \in SUBSET Records} \cup {Absent, Damaged, Torn}

Changed(s, r) == IF r \in s THEN s \ {r} ELSE s \cup {r}

Fails(what) == what \in Faults /\ faults < MaxFaults /\ faults' = faults + 1

-----------------------------------------------------------------------------
(* New and load.                                                           *)

New ==
  /\ proc \in {"down", "closed"}
  /\ writer = None
  /\ proc' = "loading"
  /\ UNCHANGED <<memory, temp, disk, env, faults>>

\* A missing file is an empty state.  A file that cannot be read leaves the
\* plugin without a store; one that does not decode must be quarantined first.
Load ==
  /\ proc = "loading"
  /\ \/ /\ file.kind \in {"absent", "state"}
        /\ proc' = "up" /\ state' = file.records
        /\ UNCHANGED faults
     \/ /\ file.kind \notin {"absent", "state"}
        /\ proc' = "corrupt"
        /\ UNCHANGED <<state, faults>>
     \/ /\ Fails("load")
        /\ proc' = "down"
        /\ UNCHANGED state
  /\ UNCHANGED <<writer, step, next, temp, disk, env>>

\* Mutant: an empty state is used whether or not the quarantine succeeded.
QuarantineIgnored ==
  /\ proc = "corrupt"
  /\ proc' = "up" /\ state' = {}
  /\ \/ /\ file' = Absent /\ after' = after \cup {Absent}
        /\ saved' = TRUE
        /\ UNCHANGED <<lapsed, faults>>
     \/ /\ Fails("quarantine")
        /\ UNCHANGED <<disk, saved>>
  /\ UNCHANGED <<writer, step, next, temp, damages>>

Quarantine ==
  /\ proc = "corrupt"
  /\ \/ /\ proc' = "up" /\ state' = {}
        /\ file' = Absent /\ after' = after \cup {Absent}
        /\ saved' = TRUE
        /\ UNCHANGED <<lapsed, faults>>
     \/ /\ Fails("quarantine")
        /\ proc' = "down"
        /\ UNCHANGED <<state, disk, saved>>
  /\ UNCHANGED <<writer, step, next, temp, damages>>

\* Close waits for the mutex; afterwards the store answers from memory and can
\* write no more.
Close ==
  /\ proc = "up"
  /\ writer = None
  /\ proc' = "closed"
  /\ UNCHANGED <<memory, temp, disk, env, faults>>

-----------------------------------------------------------------------------
(* Update and atomicWrite.                                                 *)

Release == writer' = None /\ step' = "idle"

\* Mutant: memory changes before the write, not after it.
BeginPublished(r) ==
  /\ proc \in {"up", "closed"}
  /\ writer = None
  /\ writer' = r
  /\ next' = Changed(state, r)
  /\ state' = Changed(state, r)
  /\ step' = "copy"
  /\ UNCHANGED <<proc, temp, disk, env, faults>>

Begin(r) ==
  /\ proc \in {"up", "closed"}
  /\ writer = None
  /\ writer' = r
  /\ next' = Changed(state, r)
  /\ step' = "copy"
  /\ UNCHANGED <<proc, state, temp, disk, env, faults>>

\* The callback or the validation refuses, the state is too large, or the
\* directory handle is gone.
Refuse ==
  /\ step = "copy"
  /\ \/ proc = "closed" /\ UNCHANGED faults
     \/ proc = "up" /\ Fails("refuse")
  /\ Release
  /\ UNCHANGED <<proc, state, next, temp, disk, env>>

\* Mutant: a temporary file that cannot be created leaves the mutex locked.
CreateTempKeepsMutex ==
  /\ step = "copy"
  /\ proc = "up"
  /\ \/ /\ tmp' = Torn /\ synced' = FALSE
        /\ step' = "write"
        /\ UNCHANGED <<writer, faults>>
     \/ /\ Fails("temp")
        /\ step' = "idle"
        /\ UNCHANGED <<temp, writer>>
  /\ UNCHANGED <<proc, state, next, disk, env>>

CreateTemp ==
  /\ step = "copy"
  /\ proc = "up"
  /\ \/ /\ tmp' = Torn /\ synced' = FALSE
        /\ step' = "write"
        /\ UNCHANGED <<writer, faults>>
     \/ /\ Fails("temp")
        /\ Release
        /\ UNCHANGED temp
  /\ UNCHANGED <<proc, state, next, disk, env>>

\* The deferred removal of the temporary file, and the unlock.
Abandon(what) == Fails(what) /\ tmp' = Absent /\ synced' = FALSE /\ Release

\* Mutant: the temporary file is not synced.
WriteUnsynced ==
  /\ step = "write"
  /\ \/ /\ tmp' = Valid(next)
        /\ step' = "rename"
        /\ UNCHANGED <<synced, writer, faults>>
     \/ Abandon("write")
  /\ UNCHANGED <<proc, state, next, disk, env>>

Write ==
  /\ step = "write"
  /\ \/ /\ tmp' = Valid(next)
        /\ step' = "sync"
        /\ UNCHANGED <<synced, writer, faults>>
     \/ Abandon("write")
  /\ UNCHANGED <<proc, state, next, disk, env>>

Sync ==
  /\ step = "sync"
  /\ \/ /\ synced' = TRUE
        /\ step' = "rename"
        /\ UNCHANGED <<tmp, writer, faults>>
     \/ Abandon("sync")
  /\ UNCHANGED <<proc, state, next, disk, env>>

Rename ==
  /\ step = "rename"
  /\ \/ /\ file' = tmp
        /\ after' = after \cup {IF synced THEN tmp ELSE Torn}
        /\ tmp' = Absent /\ synced' = FALSE
        /\ step' = "sync_dir"
        /\ UNCHANGED <<lapsed, writer, faults>>
     \/ Abandon("rename") /\ UNCHANGED disk
  /\ UNCHANGED <<proc, state, next, env>>

\* A directory that cannot be synced is not reported.
SyncDir ==
  /\ step = "sync_dir"
  /\ \/ after' = {file} /\ lapsed' = FALSE /\ UNCHANGED faults
     \/ Fails("sync_dir") /\ lapsed' = TRUE /\ UNCHANGED after
  /\ step' = "publish"
  /\ UNCHANGED <<proc, state, writer, next, temp, file, env>>

Publish ==
  /\ step = "publish"
  /\ state' = next
  /\ Release
  /\ UNCHANGED <<proc, next, temp, disk, env, faults>>

-----------------------------------------------------------------------------
(* What happens to the process and to the directory.                       *)

\* The memory is gone; a temporary file is left behind and never read.
Forget ==
  /\ proc' = "down"
  /\ state' = {} /\ next' = {} /\ tmp' = Absent /\ synced' = FALSE
  /\ Release
  /\ UNCHANGED <<damages, faults>>

Die == proc # "down" /\ Forget /\ UNCHANGED <<disk, saved>>

LosePower ==
  /\ Forget
  /\ \E f \in after :
       /\ file' = f /\ after' = {f}
       /\ saved' = (saved /\ f # Damaged)
  /\ UNCHANGED lapsed

\* Another version of the plugin, or a hand, leaves a file that does not decode.
Damage ==
  /\ proc = "down"
  /\ file.kind = "state"
  /\ damages < MaxDamages
  /\ damages' = damages + 1
  /\ file' = Damaged /\ after' = {Damaged} /\ saved' = FALSE
  /\ UNCHANGED <<proc, memory, temp, lapsed, faults>>

-----------------------------------------------------------------------------
Init ==
  /\ proc = "down" /\ state = {} /\ writer = None /\ step = "idle" /\ next = {}
  /\ tmp = Absent /\ synced = FALSE
  /\ file = Absent /\ after = {Absent} /\ lapsed = FALSE
  /\ saved = FALSE /\ damages = 0 /\ faults = 0

Next ==
  \/ New \/ Load \/ Quarantine \/ Close
  \/ \E r \in Records : Begin(r)
  \/ Refuse \/ CreateTemp \/ Write \/ Sync \/ Rename \/ SyncDir \/ Publish
  \/ Die \/ LosePower \/ Damage

Spec == Init /\ [][Next]_vars

-----------------------------------------------------------------------------
(* What must hold.                                                         *)

Open == proc \in {"up", "closed"}

\* The types of the variables; an update is under way exactly while somebody
\* holds the mutex of an open store.
TypeOK ==
  /\ proc \in Procs
  /\ state \in SUBSET Records /\ next \in SUBSET Records
  /\ writer \in Records \cup {None} /\ step \in Steps
  /\ writer = None <=> step = "idle"
  /\ writer # None => Open
  /\ tmp \in Contents /\ synced \in BOOLEAN
  /\ file \in Contents /\ after \in SUBSET Contents /\ lapsed \in BOOLEAN
  /\ saved \in BOOLEAN
  /\ damages \in 0..MaxDamages /\ faults \in 0..MaxFaults

\* No loss of power leaves a state.json that was only partly written: a file takes
\* that name only after its contents are on the medium.
NeverTorn == Torn \notin after \cup {file}

\* A file that did not decode is still where it was, or in quarantine: the only
\* copy of it is never written over.
DamagedIsKept ==
  damages > 0 /\ file # Damaged => saved

\* The store as a durable set of records.
Durable == INSTANCE DurableState WITH
  up      <- Open,
  value   <- IF Open THEN state ELSE file.records,
  pending <- writer,
  owed    <- {f.records : f \in after}

\* What load, Update and atomicWrite promise together, through failures, deaths
\* and losses of power: an update is done or not done, and a reported one stays,
\* unless the directory could not be synced after it.
Implements == Durable!Spec

=============================================================================
