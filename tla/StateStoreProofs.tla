-------------------------- MODULE StateStoreProofs --------------------------
(***************************************************************************)
(* Proofs about StateStore: its invariants, and that it implements         *)
(* DurableState.                                                           *)
(***************************************************************************)
EXTENDS StateStore, TLAPS

\* Where the states are while an update runs.  The temporary file is complete
\* and synced when it is renamed; memory is what state.json says, except between
\* the rename and the publication, when state.json is the private copy.
WriteInv ==
  /\ step \notin {"idle", "copy"} => proc = "up"
  /\ writer # None => next = Changed(state, writer)
  /\ step \in {"sync", "rename"} => tmp = Valid(next)
  /\ step = "rename" => synced
  /\ step \in {"sync_dir", "publish"} => file = Valid(next)
  /\ step = "publish" => after = {file} \/ lapsed
  /\ Open /\ step \notin {"sync_dir", "publish"} => file.records = state

\* A damaged file is the only one there is, and no store is open on it.
FileInv ==
  /\ file \in after
  /\ file = Damaged => after = {Damaged} /\ ~Open
  /\ proc = "corrupt" => file = Damaged

Files == NeverTorn /\ DamagedIsKept /\ WriteInv /\ FileInv

\* What the contents of a file are made of.
LEMMA ContentsForms ==
  /\ Absent \in Contents /\ Damaged \in Contents /\ Torn \in Contents
  /\ Absent.records = {} /\ Damaged.records = {}
  /\ Absent.kind = "absent" /\ Damaged.kind = "damaged" /\ Torn.kind = "torn"
  /\ Absent # Damaged /\ Absent # Torn /\ Damaged # Torn
BY DEF Contents, Absent, Damaged, Torn, NotState

\* A state that is written decodes again, and is not one of the other contents.
LEMMA ValidForms ==
  ASSUME NEW s \in SUBSET Records
  PROVE  /\ Valid(s) \in Contents
         /\ Valid(s).records = s /\ Valid(s).kind = "state"
         /\ Valid(s) # Absent /\ Valid(s) # Damaged /\ Valid(s) # Torn
BY DEF Contents, Absent, Damaged, Torn, Valid, NotState

\* Every content holds records, none if it is not a state.
LEMMA ContentsCases ==
  ASSUME NEW f \in Contents
  PROVE  /\ f.records \in SUBSET Records
         /\ f.kind = "state" \/ f = Absent \/ f = Damaged \/ f = Torn
BY DEF Contents, Absent, Damaged, Torn, Valid, NotState

\* A change of a state is a state.
LEMMA ChangedIsState ==
  ASSUME NEW s \in SUBSET Records, NEW r \in Records
  PROVE  Changed(s, r) \in SUBSET Records
BY DEF Changed

\* A fault is one of the faults that are left.
LEMMA FaultsBounded ==
  ASSUME faults \in 0..MaxFaults, NEW what, Fails(what)
  PROVE  faults' \in 0..MaxFaults
BY StateStoreAssumption DEF Fails

\* Types are kept by every step.
LEMMA TypeStep == TypeOK /\ [Next]_vars => TypeOK'
<1> SUFFICES ASSUME TypeOK, [Next]_vars PROVE TypeOK'
    OBVIOUS
<1> USE StateStoreAssumption, ContentsForms DEF TypeOK, Open, Procs, Steps
<1>1. CASE New
    BY <1>1 DEF New, memory, temp, disk, env
<1>2. CASE Load
    BY <1>2, FaultsBounded, ContentsCases DEF Load, temp, disk, env
<1>3. CASE Quarantine
    BY <1>3, FaultsBounded DEF Quarantine, temp, disk
<1>4. CASE Close
    BY <1>4 DEF Close, memory, temp, disk, env
<1>5. ASSUME NEW r \in Records, Begin(r) PROVE TypeOK'
    BY <1>5, ChangedIsState DEF Begin, temp, disk, env
<1>6. CASE Refuse
    BY <1>6, FaultsBounded DEF Refuse, Release, temp, disk, env
<1>7. CASE CreateTemp
    BY <1>7, FaultsBounded DEF CreateTemp, Release, temp, disk, env
<1>8. CASE Write
    BY <1>8, FaultsBounded, ValidForms DEF Write, Abandon, Release, disk, env
<1>9. CASE Sync
    BY <1>9, FaultsBounded DEF Sync, Abandon, Release, disk, env
<1>10. CASE Rename
    BY <1>10, FaultsBounded DEF Rename, Abandon, Release, disk, env
<1>11. CASE SyncDir
    BY <1>11, FaultsBounded DEF SyncDir, temp, env
<1>12. CASE Publish
    BY <1>12 DEF Publish, Release, temp, disk, env
<1>13. CASE Die
    BY <1>13 DEF Die, Forget, Release, disk
<1>14. CASE LosePower
    BY <1>14, ContentsCases DEF LosePower, Forget, Release
<1>15. CASE Damage
  <2>1. damages' \in 0..MaxDamages
    BY <1>15 DEF Damage
  <2>2. file' \in Contents /\ after' \in SUBSET Contents /\ saved' \in BOOLEAN
    BY <1>15 DEF Damage
  <2>3. QED
    BY <1>15, <2>1, <2>2 DEF Damage, memory, temp
<1>16. CASE UNCHANGED vars
    BY <1>16 DEF vars, memory, temp, disk, env
<1>17. QED
    BY <1>1, <1>2, <1>3, <1>4, <1>5, <1>6, <1>7, <1>8,
     <1>9, <1>10, <1>11, <1>12, <1>13, <1>14, <1>15, <1>16 DEF Next

\* The files and the update under way stay as the invariant says.
LEMMA FilesStep == TypeOK /\ Files /\ [Next]_vars => Files'
<1> SUFFICES ASSUME TypeOK, Files, [Next]_vars PROVE Files'
  OBVIOUS
<1> USE StateStoreAssumption, ContentsForms
    DEF Files, NeverTorn, DamagedIsKept, WriteInv, FileInv, TypeOK, Open, Procs, Steps
<1>1. CASE New
  BY <1>1 DEF New, memory, temp, disk, env
<1>2. CASE Load
  BY <1>2, ContentsCases DEF Load, temp, disk, env
<1>3. CASE Quarantine
  BY <1>3 DEF Quarantine, temp, disk
<1>4. CASE Close
  BY <1>4 DEF Close, memory, temp, disk, env
<1>5. ASSUME NEW r \in Records, Begin(r) PROVE Files'
  BY <1>5 DEF Begin, temp, disk, env
<1>6. CASE Refuse
  BY <1>6 DEF Refuse, Release, temp, disk, env
<1>7. CASE CreateTemp
  BY <1>7 DEF CreateTemp, Release, temp, disk, env
<1>8. CASE Write
  BY <1>8 DEF Write, Abandon, Release, disk, env
<1>9. CASE Sync
  BY <1>9 DEF Sync, Abandon, Release, disk, env
<1>10. CASE Rename
  BY <1>10, ValidForms DEF Rename, Abandon, Release, disk, env
<1>11. CASE SyncDir
  BY <1>11 DEF SyncDir, Fails, temp, env
<1>12. CASE Publish
  BY <1>12, ValidForms DEF Publish, Release, temp, disk, env
<1>13. CASE Die
  BY <1>13 DEF Die, Forget, Release, disk
<1>14. CASE LosePower
  BY <1>14, ContentsCases DEF LosePower, Forget, Release
<1>15. CASE Damage
  BY <1>15 DEF Damage, memory, temp
<1>16. CASE UNCHANGED vars
  BY <1>16 DEF vars, memory, temp, disk, env
<1>17. QED
  BY <1>1, <1>2, <1>3, <1>4, <1>5, <1>6, <1>7, <1>8,
     <1>9, <1>10, <1>11, <1>12, <1>13, <1>14, <1>15, <1>16 DEF Next

Inv == TypeOK /\ Files

\* The invariant holds at the start and through every step.
LEMMA InvCorrect == Spec => []Inv
<1>1. Init => Inv
  <2>1. Init => TypeOK
    <3> SUFFICES ASSUME Init PROVE TypeOK
      OBVIOUS
    <3>1. 0 \in 0..MaxDamages /\ 0 \in 0..MaxFaults
      BY StateStoreAssumption
    <3>2. {Absent} \in SUBSET Contents
      BY ContentsForms
    <3>3. QED
      BY <3>1, <3>2, ContentsForms DEF Init, TypeOK, Open, Procs, Steps
  <2>2. Init => NeverTorn /\ DamagedIsKept /\ FileInv
    BY ContentsForms DEF Init, NeverTorn, DamagedIsKept, FileInv, Open
  <2>3. Init => WriteInv
    BY DEF Init, WriteInv, Open
  <2>4. QED
    BY <2>1, <2>2, <2>3 DEF Inv, Files
<1>2. Inv /\ [Next]_vars => Inv'
  BY TypeStep, FilesStep DEF Inv
<1>3. QED
  BY <1>1, <1>2, PTL DEF Spec

\* Every variable keeps its type, and an update is under way exactly while
\* somebody holds the mutex of an open store.
THEOREM TypeCorrect == Spec => []TypeOK
BY InvCorrect, PTL DEF Inv

\* No loss of power leaves a partly written state.json, a failing sync of the
\* directory included.
THEOREM NeverTornCorrect == Spec => []NeverTorn
BY InvCorrect, PTL DEF Inv, Files

\* The only copy of a file that did not decode is never written over.
THEOREM DamagedKept == Spec => []DamagedIsKept
BY InvCorrect, PTL DEF Inv, Files

-----------------------------------------------------------------------------
(* The refinement.  A store that is not open counts with the file it would *)
(* load, an open one with its memory.                                      *)

Value == IF Open THEN state ELSE file.records
Owed  == {f.records : f \in after}

\* What state.json shows is among what a loss of power may leave.
LEMMA ValueOwed ==
  ASSUME Inv PROVE file.records \in Owed
BY DEF Inv, Files, FileInv, Owed

\* Every step of the store is a step of the durable set, or leaves it alone.
LEMMA StepImplements ==
  ASSUME Inv, [Next]_vars
  PROVE  [Durable!Next]_(Durable!vars)
<1> DEFINE Same == Open' = Open /\ Value' = Value /\ writer' = writer
                   /\ Owed' = Owed /\ lapsed' = lapsed /\ damages' = damages
<1> USE DEF Inv, Files
<1>0. ASSUME Same PROVE UNCHANGED Durable!vars
  BY <1>0 DEF Durable!vars, Value, Owed
<1>1. CASE New
  <2>1. CASE proc = "down"
    BY <1>1, <2>1, <1>0 DEF New, memory, temp, disk, env, Open, Value, Owed
  <2>2. CASE proc = "closed"
    <3>1. Open /\ ~Open' /\ file.records = state
      BY <1>1, <2>2 DEF New, Open, WriteInv, TypeOK
    <3>2. Durable!Stop
      BY <1>1, <3>1, ValueOwed DEF New, memory, disk, env, Durable!Stop, Owed
    <3>3. QED
      BY <3>2 DEF Durable!Next
  <2>3. QED
    BY <1>1, <2>1, <2>2 DEF New
<1>2. CASE Load
  <2>1. CASE proc' = "up"
    <3>1. ~Open /\ Open' /\ state' = file.records
      BY <1>2, <2>1 DEF Load, Open
    <3>2. Durable!Open
      BY <1>2, <3>1 DEF Load, disk, env, Durable!Open
    <3>3. QED
      BY <3>2 DEF Durable!Next
  <2>2. CASE proc' # "up"
    BY <1>2, <2>2, <1>0 DEF Load, disk, env, temp, Open, Value, Owed
  <2>3. QED
    BY <2>1, <2>2
<1>3. CASE Quarantine
  <2>1. file = Damaged /\ after = {Damaged} /\ ~Open
    BY <1>3 DEF Quarantine, FileInv, Open
  <2>2. CASE proc' = "up"
    <3>1. Open' /\ state' = {} /\ Owed' = Owed /\ file.records = {} /\ lapsed' = lapsed
      BY <1>3, <2>1, <2>2, ContentsForms DEF Quarantine, Open, Owed
    <3>2. Durable!Open
      BY <1>3, <2>1, <3>1 DEF Quarantine, Durable!Open, Owed
    <3>3. QED
      BY <3>2 DEF Durable!Next
  <2>3. CASE proc' # "up"
    BY <1>3, <2>3, <1>0 DEF Quarantine, disk, Open, Value, Owed
  <2>4. QED
    BY <2>2, <2>3
<1>4. CASE Close
  BY <1>4, <1>0 DEF Close, memory, temp, disk, env, Open, Value, Owed
<1>5. ASSUME NEW r \in Records, Begin(r) PROVE [Durable!Next]_(Durable!vars)
  <2>1. Durable!Start(r)
    BY <1>5 DEF Begin, temp, disk, env, Open, Durable!Start
  <2>2. QED
    BY <2>1 DEF Durable!Next
<1> DEFINE Failed == Open /\ Open' /\ writer # None /\ writer' = None /\ state' = state
                     /\ after' = after /\ lapsed' = lapsed /\ damages' = damages
<1>6. ASSUME Failed PROVE Durable!Fail
  BY <1>6 DEF Durable!Fail
<1>7. CASE Refuse
  <2>1. Failed
    BY <1>7 DEF Refuse, Release, disk, env, Open, TypeOK
  <2>2. QED
    BY <2>1, <1>6 DEF Durable!Next
<1>8. CASE CreateTemp \/ Write \/ Sync
  <2>1. CASE writer' = writer
    <3>1. Same
      BY <1>8, <2>1
         DEF CreateTemp, Write, Sync, Abandon, Release, disk, env, Open, Value, Owed
    <3>2. QED
      BY <3>1, <1>0
  <2>2. CASE writer' # writer
    <3>1. Failed
      BY <1>8, <2>2
         DEF CreateTemp, Write, Sync, Abandon, Release, disk, env, Open, TypeOK, WriteInv
    <3>2. QED
      BY <3>1, <1>6 DEF Durable!Next
  <2>3. QED
    BY <2>1, <2>2
<1>9. CASE Rename
  <2>1. Open /\ Open' /\ writer # None /\ next = Changed(state, writer)
    BY <1>9 DEF Rename, Open, WriteInv, TypeOK
  <2>2. CASE writer' = writer
    <3>1. tmp = Valid(next) /\ synced /\ tmp.records = next
      BY <1>9, ValidForms DEF Rename, WriteInv, TypeOK
    <3>2. after' = after \cup {tmp} /\ lapsed' = lapsed
      BY <1>9, <2>1, <2>2, <3>1 DEF Rename, Abandon, Release
    <3>3. Owed' = Owed \cup {next}
      BY <3>1, <3>2 DEF Owed
    <3>4. Durable!Reach
      BY <1>9, <2>1, <2>2, <3>2, <3>3
         DEF Rename, env, Durable!Reach, Durable!Wanted, Durable!Changed, Changed, Owed
    <3>5. QED
      BY <3>4 DEF Durable!Next
  <2>3. CASE writer' # writer
    <3>1. Failed
      BY <1>9, <2>1, <2>3 DEF Rename, Abandon, Release, disk, env
    <3>2. QED
      BY <3>1, <1>6 DEF Durable!Next
  <2>4. QED
    BY <2>2, <2>3
<1>10. CASE SyncDir
  <2>1. Open /\ Open' /\ writer # None /\ next = Changed(state, writer)
    BY <1>10 DEF SyncDir, Open, WriteInv, TypeOK
  <2>2. file.records = next /\ next \in Owed
    BY <1>10, ValidForms DEF SyncDir, WriteInv, FileInv, TypeOK, Owed
  <2>3. CASE after' = {file} /\ lapsed' = FALSE
    <3>1. Owed' = {next}
      BY <2>2, <2>3 DEF Owed
    <3>2. Durable!Settle
      BY <1>10, <2>1, <2>2, <2>3, <3>1
         DEF SyncDir, env, Durable!Settle, Durable!Wanted, Durable!Changed, Changed, Owed
    <3>3. QED
      BY <3>2 DEF Durable!Next
  <2>4. CASE after' = after /\ lapsed' = TRUE
    <3>1. Durable!Lapse
      BY <1>10, <2>1, <2>2, <2>4
         DEF SyncDir, env, Durable!Lapse, Durable!Wanted, Durable!Changed, Changed, Owed
    <3>2. QED
      BY <3>1 DEF Durable!Next
  <2>5. QED
    BY <1>10, <2>3, <2>4 DEF SyncDir
<1>11. CASE Publish
  <2>1. Open /\ Open' /\ writer # None /\ next = Changed(state, writer)
    BY <1>11 DEF Publish, Open, WriteInv, TypeOK
  <2>2. (after = {file} \/ lapsed) /\ file \in after /\ file.records = next
    BY <1>11, ValidForms DEF Publish, WriteInv, FileInv, TypeOK
  <2>3. Owed = {next} \/ (lapsed /\ next \in Owed)
    BY <2>2 DEF Owed
  <2>4. Durable!Succeed
    BY <1>11, <2>1, <2>3
       DEF Publish, Release, disk, env, Durable!Succeed, Durable!Wanted, Durable!Changed, Changed, Owed
  <2>5. QED
    BY <2>4 DEF Durable!Next
<1>12. CASE Die
  <2>1. Durable!Stop
    BY <1>12, ValueOwed DEF Die, Forget, Release, disk, Durable!Stop, Open, Owed
  <2>2. QED
    BY <2>1 DEF Durable!Next
<1>13. CASE LosePower
  <2>1. PICK f \in after : file' = f /\ after' = {f}
    BY <1>13 DEF LosePower
  <2>2. ~Open' /\ file'.records \in Owed /\ Owed' = {file'.records}
    BY <1>13, <2>1 DEF LosePower, Forget, Open, Owed
  <2>3. Durable!Stop
    BY <1>13, <2>2 DEF LosePower, Forget, Release, Durable!Stop, Owed
  <2>4. QED
    BY <2>3 DEF Durable!Next
<1>14. CASE Damage
  <2>1. ~Open /\ ~Open' /\ file'.records = {} /\ Owed' = {{}}
    BY <1>14, ContentsForms DEF Damage, Open, Owed
  <2>2. Durable!Damage
    BY <1>14, <2>1 DEF Damage, memory, Durable!Damage, Owed, Open
  <2>3. QED
    BY <2>2 DEF Durable!Next
<1>15. CASE UNCHANGED vars
  BY <1>15, <1>0 DEF vars, memory, temp, disk, env, Open, Value, Owed
<1>16. QED
  BY <1>1, <1>2, <1>3, <1>4, <1>5, <1>7, <1>8, <1>9, <1>10, <1>11, <1>12,
     <1>13, <1>14, <1>15 DEF Next

\* The store is a durable set of records: an update is done or not done, whatever
\* fails and whenever the process dies or the power is lost, and one that was
\* reported stays, unless the sync of the directory after it failed.
THEOREM Implementation == Spec => Implements
<1>1. Init => Durable!Init
  BY ContentsForms DEF Init, Durable!Init, Open
<1>2. Inv /\ [Next]_vars => [Durable!Next]_(Durable!vars)
  BY StepImplements
<1>3. QED
  BY <1>1, <1>2, InvCorrect, PTL DEF Spec, Implements, Durable!Spec

=============================================================================
