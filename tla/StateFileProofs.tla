--------------------------- MODULE StateFileProofs ---------------------------
(***************************************************************************)
(* Proofs about StateFile, for any Stores and Paths.  The invariant says   *)
(* what the lock buys: whoever is past it is alone there, so the document  *)
(* it read is the one at the name when it writes, unless somebody without  *)
(* the lock has come, and then what it moved aside is still a backup.      *)
(***************************************************************************)
EXTENDS StateFile, TLAPS

\* Whoever is past the lock holds it, alone.
LockInv == \A s \in Stores : pc[s] \notin {"idle", "waiting"} => lock = {s}

\* What each step knows of the document it read and of the one it moved.
Seen(s) ==
  /\ pc[s] = "write" => file = seen[s] /\ seen[s].kind \in {"absent", "sound"}
  /\ pc[s] \in {"aside", "rename", "moved", "renew"} => op[s].adds /\ seen[s].kind = "damaged"
  /\ pc[s] \in {"aside", "rename"} => file = Absent \/ file.edit > 0
  /\ pc[s] = "moved" => moved[s] \in backups
  /\ pc[s] = "renew" => moved[s] = seen[s] /\ moved[s] \in backups
  /\ pc[s] = "adopt" => Applied(s) \in shown

SeenInv == \A s \in Stores : Seen(s)

\* Only documents of somebody else's are set aside, each once.
EditInv ==
  /\ file.edit <= edits
  /\ file.kind \in {"damaged", "newer"} => file.edit > 0
  /\ \A d \in backups : d.edit > 0 /\ d.edit <= edits
  /\ file \notin backups

OwedInv == NothingUnreadLost /\ \A d \in owed : d.kind \in {"damaged", "newer"}

ShownInv == file.paths \in shown /\ MemoryWasOnDisk

IInv == TypeOK /\ LockInv /\ SeenInv /\ EditInv /\ OwedInv /\ ShownInv
-----------------------------------------------------------------------------
LEMMA InitIInv == Init => IInv
  BY StateFileAssumption DEF Init, IInv, TypeOK, LockInv, SeenInv, Seen, EditInv, OwedInv, ShownInv,
     NothingUnreadLost, MemoryWasOnDisk, Document, Kinds, Absent, Sound, Ops, NoOp, Steps

\* A change that has ended has the types of one that never began.
LEMMA LeaveTypes ==
  ASSUME TypeOK, NEW s \in Stores, Leave(s)
  PROVE  /\ lock' \subseteq Stores
         /\ pc' \in [Stores -> Steps]
         /\ op' \in [Stores -> Ops]
         /\ seen' \in [Stores -> Document]
         /\ moved' \in [Stores -> Document]
         /\ \A t \in Stores : pc'[t] = "idle" => seen'[t] = Absent /\ moved'[t] = Absent
<1>1. NoOp \in Ops /\ Absent \in Document
  BY StateFileAssumption DEF NoOp, Ops, Absent, Document, Kinds
<1>2. "idle" \in Steps
  BY DEF Steps
<1> QED
  BY <1>1, <1>2 DEF TypeOK, Leave, GoTo

\* Whatever is taken over and reported is made of paths, and what is taken over from the
\* file leaves nothing to be told of.
LEMMA TakesTypes ==
  ASSUME TypeOK, NEW s \in Stores, NEW ps \in SUBSET Paths, Takes(s, ps)
  PROVE  /\ mem' \in [Stores -> SUBSET Paths] /\ told' \in [Stores -> SUBSET Paths]
         /\ mem'[s] = ps \ told'[s]
         /\ \A t \in Stores \ {s} : mem'[t] = mem[t] /\ told'[t] = told[t]
  BY DEF TypeOK, Takes

LEMMA ReportsTypes ==
  ASSUME TypeOK, NEW s \in Stores, Reports(s)
  PROVE  reports' \in [Stores -> SUBSET Paths]
<1>1. op[s].path \in Paths
  BY DEF TypeOK, Ops
<1> QED
  BY <1>1 DEF TypeOK, Reports

LEMMA TakesShown ==
  ASSUME TypeOK, MemoryWasOnDisk, NEW s \in Stores, NEW ps \in SUBSET Paths, Takes(s, ps),
         ps \in shown, shown' = shown
  PROVE  MemoryWasOnDisk'
<1> SUFFICES ASSUME NEW t \in Stores PROVE \E qs \in shown' : mem'[t] = qs \ told'[t]
  BY DEF MemoryWasOnDisk
<1>1. CASE t = s
  BY <1>1, TakesTypes
<1>2. CASE t # s
  BY <1>2, TakesTypes DEF MemoryWasOnDisk
<1> QED
  BY <1>1, <1>2

\* Where one is past the lock, the others are before it.
LEMMA OthersWait ==
  ASSUME LockInv, NEW s \in Stores, pc[s] \notin {"idle", "waiting"}, NEW t \in Stores \ {s}
  PROVE  pc[t] \in {"idle", "waiting"}
  BY DEF LockInv

\* Whoever is before the lock knows nothing that could be wrong.
LEMMA NothingSeen ==
  ASSUME NEW t \in Stores, pc'[t] \in {"idle", "waiting"}
  PROVE  Seen(t)'
  BY DEF Seen

LEMMA BeginKeeps ==
  ASSUME IInv, NEW s \in Stores, Begin(s) PROVE IInv'
<1>1. TypeOK'
  BY DEF Begin, IInv, TypeOK, Document, Kinds, Ops, Steps, Absent, Sound, Applied, NoOp,
     GoTo, disk, work, memory, history
<1>2. LockInv'
  BY DEF Begin, IInv, TypeOK, LockInv, GoTo
<1>3. SeenInv'
  <2> SUFFICES ASSUME NEW t \in Stores PROVE Seen(t)'
    BY DEF SeenInv
  <2> QED
    BY DEF Begin, IInv, TypeOK, LockInv, SeenInv, Seen, Applied, GoTo, disk, memory, history
<1>4. EditInv'
  BY DEF IInv, EditInv, Begin, disk, memory, history
<1>5. OwedInv'
  BY DEF IInv, OwedInv, NothingUnreadLost, Begin, disk, memory, history
<1>6. ShownInv'
  BY DEF IInv, ShownInv, MemoryWasOnDisk, Begin, disk, memory, history
<1> QED
  BY <1>1, <1>2, <1>3, <1>4, <1>5, <1>6 DEF IInv

LEMMA EnterKeeps ==
  ASSUME IInv, NEW s \in Stores, Enter(s) PROVE IInv'
<1>1. TypeOK'
  BY DEF Enter, IInv, TypeOK, Document, Kinds, Ops, Steps, Absent, Sound, Applied, NoOp,
     GoTo, disk, work, memory, history
<1>2. LockInv'
  BY DEF Enter, IInv, TypeOK, LockInv, GoTo
<1>3. SeenInv'
  <2> SUFFICES ASSUME NEW t \in Stores PROVE Seen(t)'
    BY DEF SeenInv
  <2> QED
    BY DEF Enter, IInv, TypeOK, LockInv, SeenInv, Seen, Applied, GoTo, disk, memory, history
<1>4. EditInv'
  BY DEF IInv, EditInv, Enter, disk, memory, history
<1>5. OwedInv'
  BY DEF IInv, OwedInv, NothingUnreadLost, Enter, disk, memory, history
<1>6. ShownInv'
  BY DEF IInv, ShownInv, MemoryWasOnDisk, Enter, disk, memory, history
<1> QED
  BY <1>1, <1>2, <1>3, <1>4, <1>5, <1>6 DEF IInv

LEMMA ReadKeeps ==
  ASSUME IInv, NEW s \in Stores, Read(s) PROVE IInv'
<1>1. TypeOK'
  <2>1. CASE Leave(s)
    <3>1. UNCHANGED <<disk, history>> /\ file.paths \in SUBSET Paths
      BY DEF Read, IInv, TypeOK, Document
    <3>2. /\ mem' \in [Stores -> SUBSET Paths] /\ told' \in [Stores -> SUBSET Paths]
          /\ reports' \in [Stores -> SUBSET Paths]
      BY <3>1, TakesTypes, ReportsTypes DEF Read, IInv, TypeOK, memory
    <3> QED
      BY <2>1, <3>1, <3>2, LeaveTypes DEF IInv, TypeOK, disk, history
  <2>2. CASE ~Leave(s)
    <3>1. PICK step \in {"aside", "write"} :
            pc' = [pc EXCEPT ![s] = step] /\ seen' = [seen EXCEPT ![s] = file]
      BY <2>2 DEF Read, GoTo
    <3>2. UNCHANGED <<disk, memory, lock, op, moved, history>>
      BY <2>2 DEF Read
    <3> QED
      BY <3>1, <3>2 DEF IInv, TypeOK, Steps, disk, memory, history
  <2> QED
    BY <2>1, <2>2
<1>2. LockInv'
  BY DEF Read, Leave, IInv, TypeOK, LockInv, GoTo
<1>3. SeenInv'
  <2> SUFFICES ASSUME NEW t \in Stores PROVE Seen(t)'
    BY DEF SeenInv
  <2>1. CASE t # s
    <3>1. pc[t] \in {"idle", "waiting"} /\ pc'[t] = pc[t]
      BY <2>1, OthersWait DEF IInv, TypeOK, Read, Leave, GoTo
    <3> QED
      BY <3>1, NothingSeen
  <2>2. CASE t = s
    <3>1. CASE Leave(s)
      BY <2>2, <3>1, NothingSeen DEF Leave, GoTo, IInv, TypeOK
    <3>2. CASE ~Leave(s)
      BY <2>2, <3>2 DEF Read, IInv, TypeOK, SeenInv, Seen, EditInv, Document, Kinds, Absent,
     GoTo, disk, work, memory, history
    <3> QED
      BY <3>1, <3>2
  <2> QED
    BY <2>1, <2>2
<1>4. EditInv'
  BY DEF IInv, EditInv, Read, disk, memory, history
<1>5. OwedInv'
  BY DEF IInv, OwedInv, NothingUnreadLost, Read, disk, memory, history
<1>6. ShownInv'
  <2>1. UNCHANGED <<disk, history>> /\ file.paths \in SUBSET Paths
    BY DEF Read, IInv, TypeOK, Document
  <2>2. UNCHANGED memory \/ Takes(s, file.paths)
    BY DEF Read
  <2>3. MemoryWasOnDisk'
    <3>1. CASE UNCHANGED memory
      BY <2>1, <3>1 DEF IInv, ShownInv, MemoryWasOnDisk, memory, history
    <3>2. CASE Takes(s, file.paths)
      BY <2>1, <3>2, TakesShown DEF IInv, ShownInv, history
    <3> QED
      BY <2>2, <3>1, <3>2
  <2> QED
    BY <2>1, <2>3 DEF IInv, ShownInv, disk, history
<1> QED
  BY <1>1, <1>2, <1>3, <1>4, <1>5, <1>6 DEF IInv

LEMMA WriteKeeps ==
  ASSUME IInv, NEW s \in Stores, Write(s) PROVE IInv'
<1>1. TypeOK'
  BY DEF Write, Published, IInv, TypeOK, Document, Kinds, Ops, Steps, Absent, Sound,
     Applied, NoOp, GoTo, disk, work, memory, history
<1>2. LockInv'
  BY DEF Write, Published, IInv, TypeOK, LockInv, GoTo
<1>3. SeenInv'
  <2> SUFFICES ASSUME NEW t \in Stores PROVE Seen(t)'
    BY DEF SeenInv
  <2>1. CASE t # s
    <3>1. pc[t] \in {"idle", "waiting"} /\ pc'[t] = pc[t]
      BY <2>1, OthersWait DEF IInv, TypeOK, Write, Published, GoTo
    <3> QED
      BY <3>1, NothingSeen
  <2>2. CASE t = s
    BY <2>2 DEF Write, Published, IInv, TypeOK, SeenInv, Seen, Applied, GoTo
  <2> QED
    BY <2>1, <2>2
<1>4. EditInv'
  BY DEF IInv, TypeOK, Document, SeenInv, Seen, EditInv, Write, Published, Sound, Absent
<1>5. OwedInv'
  BY DEF IInv, SeenInv, Seen, OwedInv, NothingUnreadLost, Write, Published, Sound, Absent
<1>6. ShownInv'
  BY DEF IInv, ShownInv, MemoryWasOnDisk, Write, Published, Sound, memory
<1> QED
  BY <1>1, <1>2, <1>3, <1>4, <1>5, <1>6 DEF IInv

LEMMA AdoptKeeps ==
  ASSUME IInv, NEW s \in Stores, Adopt(s) PROVE IInv'
<1>1. TypeOK'
  <2>1. UNCHANGED <<file, backups, edits, owed, shown>> /\ Applied(s) \in SUBSET Paths
    BY DEF IInv, TypeOK, Document, Applied, Ops, disk, history, Adopt
  <2>2. mem' \in [Stores -> SUBSET Paths] /\ told' \in [Stores -> SUBSET Paths]
    BY <2>1, TakesTypes DEF Adopt, IInv
  <2>3. reports' \in [Stores -> SUBSET Paths]
    BY ReportsTypes DEF Adopt, IInv, TypeOK
  <2> QED
    BY <2>1, <2>2, <2>3, LeaveTypes DEF IInv, TypeOK, Adopt
<1>2. LockInv'
  BY DEF Adopt, Leave, IInv, TypeOK, LockInv, GoTo
<1>3. SeenInv'
  <2> SUFFICES ASSUME NEW t \in Stores PROVE Seen(t)'
    BY DEF SeenInv
  <2>1. CASE t # s
    <3>1. pc[t] \in {"idle", "waiting"} /\ pc'[t] = pc[t]
      BY <2>1, OthersWait DEF IInv, TypeOK, Adopt, Leave, GoTo
    <3> QED
      BY <3>1, NothingSeen
  <2>2. CASE t = s
    BY <2>2, NothingSeen DEF Adopt, Leave, GoTo, IInv, TypeOK
  <2> QED
    BY <2>1, <2>2
<1>4. EditInv'
  BY DEF IInv, EditInv, Adopt, disk, memory, history
<1>5. OwedInv'
  BY DEF IInv, OwedInv, NothingUnreadLost, Adopt, disk, memory, history
<1>6. ShownInv'
  <2>1. UNCHANGED <<disk, history>> /\ Applied(s) \in shown /\ Applied(s) \in SUBSET Paths
    BY DEF IInv, TypeOK, Document, SeenInv, Seen, ShownInv, Applied, Adopt
  <2>2. MemoryWasOnDisk'
    BY <2>1, TakesShown DEF Adopt, IInv, ShownInv, history
  <2> QED
    BY <2>1, <2>2 DEF IInv, ShownInv, disk, history
<1> QED
  BY <1>1, <1>2, <1>3, <1>4, <1>5, <1>6 DEF IInv

LEMMA CheckKeeps ==
  ASSUME IInv, NEW s \in Stores, Check(s) PROVE IInv'
<1>1. TypeOK'
  <2>1. CASE Leave(s)
    BY <2>1, LeaveTypes DEF IInv, TypeOK, Document, Kinds, Absent, disk, memory, history, Check
  <2>2. CASE ~Leave(s)
    BY <2>2 DEF IInv, TypeOK, Document, Kinds, Absent, Steps, GoTo, disk, memory, history, Check
  <2> QED
    BY <2>1, <2>2
<1>2. LockInv'
  BY DEF Check, Leave, IInv, TypeOK, LockInv, GoTo
<1>3. SeenInv'
  <2> SUFFICES ASSUME NEW t \in Stores PROVE Seen(t)'
    BY DEF SeenInv
  <2>1. CASE t # s
    <3>1. pc[t] \in {"idle", "waiting"} /\ pc'[t] = pc[t]
      BY <2>1, OthersWait DEF IInv, TypeOK, Check, Leave, GoTo
    <3> QED
      BY <3>1, NothingSeen
  <2>2. CASE t = s
    <3>1. CASE Leave(s)
      BY <2>2, <3>1, NothingSeen DEF Leave, GoTo, IInv, TypeOK
    <3>2. CASE ~Leave(s)
      BY <2>2, <3>2 DEF Check, IInv, TypeOK, SeenInv, Seen, EditInv, Document, Kinds,
     Absent, GoTo, disk, work, memory, history
    <3> QED
      BY <3>1, <3>2
  <2> QED
    BY <2>1, <2>2
<1>4. EditInv'
  BY DEF IInv, EditInv, Check, disk, memory, history
<1>5. OwedInv'
  BY DEF IInv, OwedInv, NothingUnreadLost, Check, disk, memory, history
<1>6. ShownInv'
  BY DEF IInv, ShownInv, MemoryWasOnDisk, Check, disk, memory, history
<1> QED
  BY <1>1, <1>2, <1>3, <1>4, <1>5, <1>6 DEF IInv

LEMMA RenameKeeps ==
  ASSUME IInv, NEW s \in Stores, Rename(s) PROVE IInv'
<1>1. TypeOK'
  <2>1. CASE Leave(s)
    BY <2>1, LeaveTypes DEF IInv, TypeOK, Document, Kinds, Absent, disk, memory, history, Rename
  <2>2. CASE ~Leave(s)
    <3>1. Absent \in Document
      BY DEF Absent, Document, Kinds
    <3>2. pc' = [pc EXCEPT ![s] = "moved"] /\ moved' = [moved EXCEPT ![s] = file]
      BY <2>2 DEF Rename, GoTo
    <3>3. file' = Absent /\ backups' = backups \cup {file} /\ shown' = shown \cup {{}}
      BY <2>2 DEF Rename, Absent
    <3>4. UNCHANGED <<memory, lock, op, seen, edits, owed>>
      BY <2>2 DEF Rename
    <3> QED
      BY <3>1, <3>2, <3>3, <3>4 DEF IInv, TypeOK, Steps, memory
  <2> QED
    BY <2>1, <2>2
<1>2. LockInv'
  BY DEF Rename, Leave, IInv, TypeOK, LockInv, GoTo
<1>3. SeenInv'
  <2> SUFFICES ASSUME NEW t \in Stores PROVE Seen(t)'
    BY DEF SeenInv
  <2>1. CASE t # s
    <3>1. pc[t] \in {"idle", "waiting"} /\ pc'[t] = pc[t]
      BY <2>1, OthersWait DEF IInv, TypeOK, Rename, Leave, GoTo
    <3> QED
      BY <3>1, NothingSeen
  <2>2. CASE t = s
    <3>1. CASE Leave(s)
      BY <2>2, <3>1, NothingSeen DEF Leave, GoTo, IInv, TypeOK
    <3>2. CASE ~Leave(s)
      BY <2>2, <3>2 DEF Rename, IInv, TypeOK, SeenInv, Seen, EditInv, Document, Kinds,
     Absent, GoTo, disk, work, memory, history
    <3> QED
      BY <3>1, <3>2
  <2> QED
    BY <2>1, <2>2
<1>4. EditInv'
  BY DEF IInv, TypeOK, Document, SeenInv, Seen, EditInv, Rename, disk, Absent
<1>5. OwedInv'
  BY DEF IInv, SeenInv, Seen, OwedInv, NothingUnreadLost, Rename, disk, Sound, Absent
<1>6. ShownInv'
  BY DEF IInv, ShownInv, MemoryWasOnDisk, Rename, disk, memory
<1> QED
  BY <1>1, <1>2, <1>3, <1>4, <1>5, <1>6 DEF IInv

LEMMA VerifyKeeps ==
  ASSUME IInv, NEW s \in Stores, Verify(s) PROVE IInv'
<1>1. TypeOK'
  <2>1. CASE Leave(s)
    <3>1. moved[s] \in Document /\ moved[s].paths \subseteq Paths
      BY DEF IInv, TypeOK, Document
    <3>2. file' \in Document /\ backups' \subseteq Document /\ shown' \subseteq SUBSET Paths
      BY <2>1, <3>1 DEF Verify, IInv, TypeOK, GoTo, disk
    <3>3. UNCHANGED <<memory, edits, owed>>
      BY DEF Verify
    <3> QED
      BY <2>1, <3>2, <3>3, LeaveTypes DEF IInv, TypeOK, memory
  <2>2. CASE ~Leave(s)
    BY <2>2 DEF IInv, TypeOK, Document, Kinds, Absent, Steps, GoTo, disk, memory, history, Verify
  <2> QED
    BY <2>1, <2>2
<1>2. LockInv'
  BY DEF Verify, Leave, IInv, TypeOK, LockInv, GoTo
<1>3. SeenInv'
  <2> SUFFICES ASSUME NEW t \in Stores PROVE Seen(t)'
    BY DEF SeenInv
  <2>1. CASE t # s
    <3>1. pc[t] \in {"idle", "waiting"} /\ pc'[t] = pc[t]
      BY <2>1, OthersWait DEF IInv, TypeOK, Verify, Leave, GoTo
    <3> QED
      BY <3>1, NothingSeen
  <2>2. CASE t = s
    <3>1. CASE Leave(s)
      BY <2>2, <3>1, NothingSeen DEF Leave, GoTo, IInv, TypeOK
    <3>2. CASE ~Leave(s)
      BY <2>2, <3>2 DEF Verify, IInv, TypeOK, SeenInv, Seen, EditInv, Document, Kinds,
     Absent, GoTo, disk, work, memory, history
    <3> QED
      BY <3>1, <3>2
  <2> QED
    BY <2>1, <2>2
<1>4. EditInv'
  BY DEF IInv, TypeOK, Document, SeenInv, Seen, EditInv, Verify, disk, Absent
<1>5. OwedInv'
  BY DEF IInv, SeenInv, Seen, OwedInv, NothingUnreadLost, Verify, disk, Sound, Absent
<1>6. ShownInv'
  BY DEF IInv, ShownInv, MemoryWasOnDisk, Verify, disk, memory
<1> QED
  BY <1>1, <1>2, <1>3, <1>4, <1>5, <1>6 DEF IInv

LEMMA RenewKeeps ==
  ASSUME IInv, NEW s \in Stores, Renew(s) PROVE IInv'
<1>1. TypeOK'
  BY DEF Renew, Published, IInv, TypeOK, Document, Kinds, Ops, Steps, Absent, Sound,
     Applied, NoOp, GoTo, disk, work, memory, history
<1>2. LockInv'
  BY DEF Renew, Published, IInv, TypeOK, LockInv, GoTo
<1>3. SeenInv'
  <2> SUFFICES ASSUME NEW t \in Stores PROVE Seen(t)'
    BY DEF SeenInv
  <2>1. CASE t # s
    <3>1. pc[t] \in {"idle", "waiting"} /\ pc'[t] = pc[t]
      BY <2>1, OthersWait DEF IInv, TypeOK, Renew, Published, GoTo
    <3> QED
      BY <3>1, NothingSeen
  <2>2. CASE t = s
    BY <2>2 DEF Renew, Published, IInv, TypeOK, SeenInv, Seen, Applied, GoTo
  <2> QED
    BY <2>1, <2>2
<1>4. EditInv'
  BY DEF IInv, TypeOK, Document, SeenInv, Seen, EditInv, Renew, Published, Sound, Absent
<1>5. OwedInv'
  BY DEF IInv, SeenInv, Seen, OwedInv, NothingUnreadLost, Renew, Published, Sound, Absent
<1>6. ShownInv'
  BY DEF IInv, ShownInv, MemoryWasOnDisk, Renew, Published, Sound, memory
<1> QED
  BY <1>1, <1>2, <1>3, <1>4, <1>5, <1>6 DEF IInv

LEMMA FailsKeeps ==
  ASSUME IInv, NEW s \in Stores, Fails(s) PROVE IInv'
<1>1. TypeOK'
  <2>1. UNCHANGED <<file, backups, memory, edits, owed, shown>>
    BY DEF disk, history, Fails
  <2> QED
    BY <2>1, LeaveTypes DEF IInv, TypeOK, Fails, memory
<1>2. LockInv'
  BY DEF Fails, Leave, IInv, TypeOK, LockInv, GoTo
<1>3. SeenInv'
  <2> SUFFICES ASSUME NEW t \in Stores PROVE Seen(t)'
    BY DEF SeenInv
  <2> QED
    BY DEF Fails, Leave, IInv, TypeOK, LockInv, SeenInv, Seen, Applied, GoTo, disk, memory, history
<1>4. EditInv'
  BY DEF IInv, EditInv, Fails, disk, memory, history
<1>5. OwedInv'
  BY DEF IInv, OwedInv, NothingUnreadLost, Fails, disk, memory, history
<1>6. ShownInv'
  BY DEF IInv, ShownInv, MemoryWasOnDisk, Fails, disk, memory, history
<1> QED
  BY <1>1, <1>2, <1>3, <1>4, <1>5, <1>6 DEF IInv

LEMMA ReopenKeeps ==
  ASSUME IInv, NEW s \in Stores, Reopen(s) PROVE IInv'
<1>1. TypeOK'
  <2>1. UNCHANGED <<file, backups, edits, owed, shown>> /\ file.paths \in SUBSET Paths
    BY DEF IInv, TypeOK, Document, Applied, Ops, disk, history, Reopen
  <2>2. mem' \in [Stores -> SUBSET Paths] /\ told' \in [Stores -> SUBSET Paths]
    BY <2>1, TakesTypes DEF Reopen, IInv
  <2>3. reports' \in [Stores -> SUBSET Paths]
    BY ReportsTypes DEF Reopen, IInv, TypeOK
  <2> QED
    BY <2>1, <2>2, <2>3, LeaveTypes DEF IInv, TypeOK, Reopen
<1>2. LockInv'
  BY DEF Reopen, Leave, IInv, TypeOK, LockInv, GoTo
<1>3. SeenInv'
  <2> SUFFICES ASSUME NEW t \in Stores PROVE Seen(t)'
    BY DEF SeenInv
  <2> QED
    BY DEF Reopen, Leave, IInv, TypeOK, LockInv, SeenInv, Seen, Applied, GoTo, disk, memory, history
<1>4. EditInv'
  BY DEF IInv, EditInv, Reopen, disk, memory, history
<1>5. OwedInv'
  BY DEF IInv, OwedInv, NothingUnreadLost, Reopen, disk, memory, history
<1>6. ShownInv'
  <2>1. UNCHANGED <<disk, history>> /\ file.paths \in shown /\ file.paths \in SUBSET Paths
    BY DEF IInv, TypeOK, Document, ShownInv, Applied, Reopen
  <2>2. MemoryWasOnDisk'
    BY <2>1, TakesShown DEF Reopen, IInv, ShownInv, history
  <2> QED
    BY <2>1, <2>2 DEF IInv, ShownInv, disk, history
<1> QED
  BY <1>1, <1>2, <1>3, <1>4, <1>5, <1>6 DEF IInv

\* What the window is told of disturbs its Store's value only.
LEMMA AdoptDiscardKeeps ==
  ASSUME IInv, NEW s \in Stores, NEW w \in Stores, NEW p \in Paths, AdoptDiscard(s, w, p)
  PROVE  IInv'
<1>1. /\ UNCHANGED <<file, backups, lock, pc, op, seen, moved, edits, owed, shown>>
      /\ reports' = [reports EXCEPT ![w] = {}]
      /\ mem' = [mem EXCEPT ![s] = mem[s] \ {p}]
      /\ told' = [told EXCEPT ![s] = told[s] \cup ({p} \cap mem[s])]
  BY DEF AdoptDiscard, disk, work, history
<1>2. TypeOK'
  BY <1>1 DEF IInv, TypeOK
<1>3. LockInv' /\ SeenInv' /\ EditInv' /\ OwedInv'
  BY <1>1 DEF IInv, LockInv, SeenInv, Seen, Applied, EditInv, OwedInv, NothingUnreadLost
<1>4. MemoryWasOnDisk'
  <2> SUFFICES ASSUME NEW t \in Stores PROVE \E ps \in shown : mem'[t] = ps \ told'[t]
    BY <1>1 DEF MemoryWasOnDisk
  <2>1. PICK ps \in shown : mem[t] = ps \ told[t]
    BY DEF IInv, ShownInv, MemoryWasOnDisk
  <2>2. CASE t = s
    <3>1. mem'[t] = mem[t] \ {p} /\ told'[t] = told[t] \cup ({p} \cap mem[t])
      BY <1>1, <2>2 DEF IInv, TypeOK
    <3>2. mem'[t] = ps \ told'[t]
      BY <2>1, <3>1
    <3> QED
      BY <3>2
  <2>3. CASE t # s
    BY <1>1, <2>1, <2>3 DEF IInv, TypeOK
  <2> QED
    BY <2>2, <2>3
<1> QED
  BY <1>1, <1>2, <1>3, <1>4 DEF IInv, ShownInv

LEMMA SomebodyKeeps ==
  ASSUME IInv, SomebodyElse PROVE IInv'
<1>1. TypeOK'
  BY DEF IInv, SomebodyElse, TypeOK, Document, Kinds, Absent, work, memory
<1>2. LockInv'
  BY DEF IInv, SomebodyElse, LockInv, work
<1>3. SeenInv'
  <2> SUFFICES ASSUME NEW t \in Stores PROVE Seen(t)'
    BY DEF SeenInv
  <2>1. Seen(t) /\ pc[t] # "write" /\ UNCHANGED <<pc, op, seen, moved, backups>>
    BY DEF IInv, SeenInv, SomebodyElse, work
  <2>2. Applied(t)' = Applied(t) /\ shown \subseteq shown'
    BY <2>1 DEF Applied, SomebodyElse
  <2>3. file' = Absent \/ file'.edit > 0
    BY DEF SomebodyElse, IInv, TypeOK
  <2> QED
    BY <2>1, <2>2, <2>3 DEF Seen
<1>4. EditInv'
  BY DEF IInv, SomebodyElse, TypeOK, EditInv, Document, Kinds, Absent
<1>5. OwedInv'
  BY DEF IInv, SomebodyElse, TypeOK, OwedInv, NothingUnreadLost, Document, Kinds, Absent
<1>6. ShownInv'
  BY DEF IInv, SomebodyElse, TypeOK, ShownInv, MemoryWasOnDisk, work, memory
<1> QED
  BY <1>1, <1>2, <1>3, <1>4, <1>5, <1>6 DEF IInv

-----------------------------------------------------------------------------
\* The invariant holds throughout: every step of every Store, and whatever others do to
\* the file, keeps it.
THEOREM StoreInvariant == Spec => []IInv
<1>1. ASSUME IInv, [Next]_vars PROVE IInv'
  <2>1. CASE SomebodyElse
    BY <1>1, <2>1, SomebodyKeeps
  <2>2. ASSUME NEW s \in Stores, Changes(s) PROVE IInv'
    BY <1>1, <2>2, BeginKeeps, EnterKeeps, ReadKeeps, WriteKeeps, AdoptKeeps, CheckKeeps,
       RenameKeeps, VerifyKeeps, RenewKeeps, FailsKeeps, ReopenKeeps DEF Changes
  <2>3. CASE UNCHANGED vars
    BY <1>1, <2>3 DEF vars, disk, work, memory, history, IInv, TypeOK, LockInv, SeenInv, Seen, Applied,
       EditInv, OwedInv, NothingUnreadLost, ShownInv, MemoryWasOnDisk
  <2> QED
    BY <1>1, <2>1, <2>2, <2>3, AdoptDiscardKeeps, StateFileAssumption DEF Next
<1> QED
  BY <1>1, InitIInv, PTL DEF Spec

\* Every variable keeps its type, whatever the Stores and paths are.
THEOREM StoreTypes == Spec => []TypeOK
  BY StoreInvariant, PTL DEF IInv

\* No document the application could not read is destroyed by it: it is at its name or
\* in a backup until its owner takes it away (preserve_faulted).
THEOREM UnreadIsKept == Spec => []NothingUnreadLost
<1>1. IInv => NothingUnreadLost
  BY DEF IInv, OwedInv
<1> QED
  BY <1>1, StoreInvariant, PTL

\* What a Store believes is a value the file had, less what it was told since that others
\* have removed (adopt_worker_discard); a change that failed has not changed it
\* (Favourites._mutate: file first, then memory).
THEOREM MemoryIsHonest == Spec => []MemoryWasOnDisk
<1>1. IInv => MemoryWasOnDisk
  BY DEF IInv, ShownInv
<1> QED
  BY <1>1, StoreInvariant, PTL

-----------------------------------------------------------------------------
(* The Stores implement SharedList.  Once one of them is past the lock the *)
(* list is what its step makes of it; with none there it is the file.      *)

ListAt(s) ==
  pc[s] \notin {"idle", "waiting"} =>
    /\ TheList = IF pc[s] \in {"moved", "renew"} /\ file = Absent THEN moved[s] ELSE file
    /\ TheKept = IF pc[s] = "moved" THEN backups \ {moved[s]} ELSE backups

Free == \A s \in Stores : pc[s] \in {"idle", "waiting"}

LEMMA ListInStep == LockInv => \A s \in Stores : ListAt(s)
<1> SUFFICES ASSUME LockInv, NEW s \in Stores, pc[s] \notin {"idle", "waiting"}
             PROVE  /\ TheList = IF pc[s] \in {"moved", "renew"} /\ file = Absent
                                 THEN moved[s] ELSE file
                    /\ TheKept = IF pc[s] = "moved" THEN backups \ {moved[s]} ELSE backups
  BY DEF ListAt
<1>1. \A t \in Stores : t # s => pc[t] \in {"idle", "waiting"}
  BY OthersWait
<1>2. CASE pc[s] \in {"moved", "renew"} /\ file = Absent
  <2>1. InFlight = {s}
    BY <1>1, <1>2 DEF InFlight
  <2>2. TheList = moved[s]
    BY <2>1 DEF TheList
  <2> QED
    BY <1>1, <1>2, <2>2 DEF TheKept
<1>3. CASE ~(pc[s] \in {"moved", "renew"} /\ file = Absent)
  <2>1. InFlight = {}
    BY <1>1, <1>3 DEF InFlight
  <2>2. TheList = file
    BY <2>1 DEF TheList
  <2> QED
    BY <1>1, <1>3, <2>2 DEF TheKept
<1> QED
  BY <1>2, <1>3

LEMMA ListWhenFree == Free => TheList = file /\ TheKept = backups
<1> SUFFICES ASSUME Free PROVE TheList = file /\ TheKept = backups
  OBVIOUS
<1>1. InFlight = {}
  BY DEF InFlight, Free
<1> QED
  BY <1>1 DEF TheList, TheKept, Free

\* The same of the next state.
LEMMA ListNextStep ==
  /\ (LockInv => \A s \in Stores : ListAt(s))'
  /\ (Free => TheList = file /\ TheKept = backups)'
<1>1. (LockInv => \A s \in Stores : ListAt(s))'
  BY ListInStep, PTL
<1>2. (Free => TheList = file /\ TheKept = backups)'
  BY ListWhenFree, PTL
<1> QED
  BY <1>1, <1>2

\* A step that touches neither the disk nor a document that has been moved is none of
\* the list's.
LEMMA Unmoved ==
  ASSUME IInv, IInv', UNCHANGED <<file, backups>>,
         \A t \in Stores : pc[t] \in {"moved", "renew"} \/ pc'[t] \in {"moved", "renew"}
                           => pc'[t] = pc[t] /\ moved'[t] = moved[t]
  PROVE  UNCHANGED <<TheList, TheKept>>
<1>1. CASE \E u \in Stores : pc[u] \in {"moved", "renew"}
  <2> PICK u \in Stores : pc[u] \in {"moved", "renew"}
    BY <1>1
  <2>1. ListAt(u) /\ ListAt(u)'
    BY ListInStep, ListNextStep DEF IInv
  <2> QED
    BY <2>1 DEF ListAt, Absent
<1>2. CASE \A u \in Stores : pc[u] \notin {"moved", "renew"}
  <2>1. InFlight = {} /\ InFlight' = {}
    BY <1>2 DEF InFlight
  <2>2. TheList = file /\ TheList' = file'
    BY <2>1 DEF TheList
  <2>3. TheKept = backups /\ TheKept' = backups'
    BY <1>2 DEF TheKept
  <2> QED
    BY <2>2, <2>3
<1> QED
  BY <1>1, <1>2

\* After the end of a change nobody is past the lock.
LEMMA LeftFree ==
  ASSUME IInv, NEW s \in Stores, pc[s] \notin {"idle", "waiting"}, Leave(s)
  PROVE  Free'
<1>1. \A t \in Stores : t # s => pc[t] \in {"idle", "waiting"}
  BY OthersWait DEF IInv
<1> QED
  BY <1>1 DEF Leave, GoTo, Free, IInv, TypeOK

\* A renewal that comes to nothing leaves what it moved in the backup.
LEMMA Dropped ==
  ASSUME IInv, NEW s \in Stores, pc[s] \in {"moved", "renew"}, Leave(s),
         UNCHANGED <<file, backups, edits>>
  PROVE  List!Keep \/ List!SetAside
<1>1. ListAt(s) /\ moved[s] \in backups
  BY ListInStep DEF IInv, SeenInv, Seen
<1>2. TheList' = file' /\ TheKept' = backups'
  BY LeftFree, ListNextStep
<1>3. CASE file = Absent
  BY <1>1, <1>2, <1>3 DEF ListAt, List!SetAside, List!Absent, Absent
<1>4. CASE file # Absent
  BY <1>1, <1>2, <1>4 DEF ListAt, List!Keep
<1> QED
  BY <1>3, <1>4

LEMMA InitRefines == Init => List!ListInit
<1> SUFFICES ASSUME Init PROVE List!ListInit
  OBVIOUS
<1>1. Free
  BY DEF Init, Free
<1> QED
  BY <1>1, ListWhenFree DEF Init, List!ListInit, List!Absent, List!Sound, Absent, Sound

\* What is published is one entry more or less of the list everybody saw.
LEMMA WriteRefines ==
  ASSUME IInv, IInv', NEW s \in Stores, Write(s)
  PROVE  \E p \in Paths : List!Add(p) \/ List!Discard(p)
<1>1. ListAt(s) /\ ListAt(s)' /\ Seen(s) /\ op[s] \in Ops
  BY ListInStep, ListNextStep DEF IInv, SeenInv, TypeOK
<1>2. pc[s] = "write" /\ pc'[s] = "adopt" /\ file' = Sound(Applied(s)) /\ UNCHANGED <<backups, edits>>
  BY DEF Write, Published, GoTo, IInv, TypeOK
<1>3. TheList = seen[s] /\ TheList' = Sound(Applied(s)) /\ UNCHANGED <<TheKept, edits>>
  BY <1>1, <1>2 DEF ListAt, Seen
<1>4. op[s].path \in Paths /\ List!Readable(TheList)
  BY <1>1, <1>2, <1>3 DEF Ops, Seen, List!Readable
<1>5. CASE op[s].adds
  BY <1>3, <1>4, <1>5 DEF Applied, Sound, List!Add, List!Sound
<1>6. CASE ~op[s].adds
  BY <1>3, <1>4, <1>6 DEF Applied, Sound, List!Discard, List!Sound
<1> QED
  BY <1>4, <1>5, <1>6

LEMMA RenewRefines ==
  ASSUME IInv, IInv', NEW s \in Stores, Renew(s)
  PROVE  \E p \in Paths : List!Renew(p)
<1>1. ListAt(s) /\ ListAt(s)' /\ Seen(s) /\ op[s] \in Ops
  BY ListInStep, ListNextStep DEF IInv, SeenInv, TypeOK
<1>2. /\ pc[s] = "renew" /\ pc'[s] = "adopt" /\ file = Absent
      /\ file' = Sound(Applied(s)) /\ UNCHANGED <<backups, edits>>
  BY DEF Renew, Published, GoTo, IInv, TypeOK
<1>3. /\ TheList = seen[s] /\ seen[s] \in TheKept /\ seen[s].kind = "damaged" /\ op[s].adds
      /\ TheList' = Sound(Applied(s)) /\ UNCHANGED <<TheKept, edits>>
  BY <1>1, <1>2 DEF ListAt, Seen
<1>4. List!Renew(op[s].path) /\ op[s].path \in Paths
  BY <1>1, <1>3 DEF Applied, Sound, Ops, List!Renew, List!Sound
<1> QED
  BY <1>4

LEMMA RenameRefines ==
  ASSUME IInv, IInv', NEW s \in Stores, Rename(s)
  PROVE  UNCHANGED <<TheList, TheKept, edits>>
<1>1. pc[s] = "rename" /\ ListAt(s) /\ ListAt(s)' /\ file \notin backups /\ UNCHANGED edits
  BY ListInStep, ListNextStep DEF IInv, EditInv, Rename
<1>2. CASE Leave(s) /\ UNCHANGED disk
  <2>1. TheList' = file' /\ TheKept' = backups'
    BY <1>1, <1>2, LeftFree, ListNextStep
  <2> QED
    BY <1>1, <1>2, <2>1 DEF ListAt, disk
<1>3. CASE ~(Leave(s) /\ UNCHANGED disk)
  <2>1. /\ pc'[s] = "moved" /\ moved'[s] = file
        /\ file' = Absent /\ backups' = backups \cup {file}
    BY <1>1, <1>3 DEF Rename, GoTo, IInv, TypeOK
  <2>2. TheList' = file /\ TheKept' = backups
    BY <1>1, <2>1 DEF ListAt, Absent
  <2> QED
    BY <1>1, <2>2 DEF ListAt
<1> QED
  BY <1>2, <1>3

LEMMA VerifyRefines ==
  ASSUME IInv, IInv', NEW s \in Stores, Verify(s)
  PROVE  List!Keep \/ UNCHANGED <<TheList, TheKept, edits>>
<1>1. /\ pc[s] = "moved" /\ UNCHANGED edits /\ moved[s] \in backups
      /\ ListAt(s) /\ ListAt(s)'
  BY ListInStep, ListNextStep DEF IInv, SeenInv, Seen, Verify
<1>2. CASE moved[s] = seen[s]
  <2>1. pc'[s] = "renew" /\ UNCHANGED <<disk, moved>>
    BY <1>2 DEF Verify, GoTo, IInv, TypeOK
  <2> QED
    BY <1>1, <2>1 DEF ListAt, List!Keep, Absent, disk
<1>3. CASE moved[s] # seen[s]
  <2>1. Leave(s)
    BY <1>3 DEF Verify
  <2>2. TheList' = file' /\ TheKept' = backups'
    BY <1>1, <2>1, LeftFree, ListNextStep
  <2>3. CASE file = Absent
    BY <1>1, <1>3, <2>2, <2>3 DEF Verify, ListAt
  <2>4. CASE file # Absent
    BY <1>1, <1>3, <2>2, <2>4 DEF Verify, ListAt, List!Keep, disk
  <2> QED
    BY <2>3, <2>4
<1> QED
  BY <1>2, <1>3

LEMMA SomebodyRefines ==
  ASSUME IInv, IInv', SomebodyElse
  PROVE  List!SomebodyElse
<1>1. edits' = edits + 1 /\ UNCHANGED <<backups, pc, moved>>
  BY DEF SomebodyElse, work
<1>2. TheKept' = TheKept
  BY <1>1 DEF TheKept
<1>3. TheList' \in Document
  <2>1. CASE Free'
    BY <2>1, ListNextStep DEF IInv, TypeOK
  <2>2. CASE ~Free'
    <3> PICK u \in Stores : pc'[u] \notin {"idle", "waiting"}
      BY <2>2 DEF Free
    <3>1. ListAt(u)' /\ moved'[u] \in Document /\ file' \in Document
      BY ListNextStep DEF IInv, TypeOK
    <3> QED
      BY <3>1 DEF ListAt
  <2> QED
    BY <2>1, <2>2
<1> QED
  BY <1>1, <1>2, <1>3 DEF List!SomebodyElse, List!Document, List!Kinds, Document, Kinds

\* The steps that are none of the list's.
LEMMA QuietStep ==
  ASSUME IInv, IInv', NEW s \in Stores,
         \/ Begin(s) \/ Enter(s) \/ Read(s) \/ Adopt(s) \/ Check(s)
         \/ (Fails(s) \/ Reopen(s)) /\ pc[s] \notin {"moved", "renew"}
  PROVE  UNCHANGED <<TheList, TheKept, edits>>
<1>1. UNCHANGED <<file, backups, edits>>
  BY DEF Begin, Enter, Read, Adopt, Check, Fails, Reopen, disk, memory, history
<1>2. \A t \in Stores : t # s => pc'[t] = pc[t] /\ moved'[t] = moved[t]
  BY DEF Begin, Enter, Read, Adopt, Check, Fails, Reopen, Leave, GoTo, IInv, TypeOK
<1>3. pc[s] \notin {"moved", "renew"} /\ pc'[s] \notin {"moved", "renew"}
  BY DEF Begin, Enter, Read, Adopt, Check, Fails, Reopen, Leave, GoTo, IInv, TypeOK
<1> QED
  BY <1>1, <1>2, <1>3, Unmoved

LEMMA StepRefines ==
  ASSUME IInv, IInv', [Next]_vars
  PROVE  [List!ListNext]_<<TheList, TheKept, edits>>
<1>1. CASE SomebodyElse
  BY <1>1, SomebodyRefines DEF List!ListNext
<1>2. ASSUME NEW s \in Stores, Changes(s)
      PROVE  [List!ListNext]_<<TheList, TheKept, edits>>
  <2>1. CASE Write(s)
    BY <2>1, WriteRefines DEF List!ListNext
  <2>2. CASE Renew(s)
    BY <2>2, RenewRefines DEF List!ListNext
  <2>3. CASE Rename(s)
    BY <2>3, RenameRefines
  <2>4. CASE Verify(s)
    BY <2>4, VerifyRefines DEF List!ListNext
  <2>5. CASE (Fails(s) \/ Reopen(s)) /\ pc[s] \in {"moved", "renew"}
    <3>1. Leave(s) /\ UNCHANGED <<file, backups, edits>>
      BY <2>5 DEF Fails, Reopen, disk, memory, history
    <3> QED
      BY <2>5, <3>1, Dropped DEF List!ListNext
  <2>6. CASE \/ Begin(s) \/ Enter(s) \/ Read(s) \/ Adopt(s) \/ Check(s)
             \/ (Fails(s) \/ Reopen(s)) /\ pc[s] \notin {"moved", "renew"}
    BY <2>6, QuietStep
  <2> QED
    BY <1>2, <2>1, <2>2, <2>3, <2>4, <2>5, <2>6 DEF Changes
<1>3. ASSUME NEW s \in Windows, NEW w \in Stores, NEW p \in Paths, AdoptDiscard(s, w, p)
      PROVE  UNCHANGED <<TheList, TheKept, edits>>
  <2>1. UNCHANGED <<file, backups, pc, moved, edits>>
    BY <1>3 DEF AdoptDiscard, disk, work, history
  <2> QED
    BY <2>1, Unmoved
<1>4. CASE UNCHANGED vars
  <2>1. UNCHANGED <<file, backups, pc, moved, edits>>
    BY <1>4 DEF vars, disk, work, history
  <2> QED
    BY <2>1, Unmoved
<1> QED
  BY <1>1, <1>2, <1>3, <1>4 DEF Next

\* Any number of Stores, with their locks, failures, deaths and renewals, are together
\* one shared list (SharedList), changed one entry at a time.
THEOREM StoresAreOneList == Spec => OneList
  BY InitRefines, StepRefines, StoreInvariant, PTL DEF Spec, OneList, List!ListSpec
=============================================================================
