--------------------------- MODULE UpgradeProofs ---------------------------
(***************************************************************************)
(* What the upgrade keeps, for any number of slots, edits and stops: texts *)
(* that were not translated, the way to resume, and the journal until its  *)
(* claims are emptied.                                                     *)
(*                                                                         *)
(* A text is written once, so it tells files apart.  FilesInv says that    *)
(* texts and times are from the past, so the next edit's are new; ApartInv *)
(* that no text is in two places; PlanInv that a text of the plan is the   *)
(* planned file; RunInv what the run relies on between its steps.  What    *)
(* comes after those is one theorem's own.                                 *)
(***************************************************************************)
EXTENDS UpgradeTransaction, TLAPS

Below(f) == f.ino < edits + 3 /\ f.stamp < edits + 3 /\ f.text < edits + 3

FilesInv ==
  /\ \A r \in Roles : Below(name[r]) /\ Below(journal.old[r]) /\ Below(run.plan.old[r])
  /\ \A r \in Roles, k \in Slots : Below(slots[r][k])
  /\ \A r \in Roles :
       \A f \in {name[r], journal.old[r], run.plan.old[r]} : f = NoFile \/ f.text > 0
  /\ \A r \in Roles : \A k \in Claims(r) : slots[r][k].text > 0
  /\ \A o \in owed : o[2] > 0 /\ o[2] < edits + 3

ApartInv ==
  \A r \in Roles : \A k \in Claims(r) :
    /\ slots[r][k].text # 2 /\ slots[r][k].text # name[r].text
    /\ \A j \in Claims(r) : slots[r][j].text = slots[r][k].text => j = k

PlanInv ==
  \A r \in Roles :
    /\ journal.old[r].text # 2 /\ run.plan.old[r].text # 2
    /\ name[r].text = run.plan.old[r].text => name[r] = run.plan.old[r]
    /\ name[r].text = journal.old[r].text => name[r] = journal.old[r]
    /\ \A k \in Claims(r) :
         /\ slots[r][k].text = run.plan.old[r].text => slots[r][k] = run.plan.old[r]
         /\ slots[r][k].text = journal.old[r].text => slots[r][k] = journal.old[r]

Ending == {"confirm", "retire", "empty", "unstage", "drop"}

RunInv ==
  /\ pc \notin {"idle", "planned"} => journal = run.plan /\ journal # NoPlan
  /\ pc = "planned" => journal = NoPlan /\ ~complete /\ run.plan # NoPlan
  /\ complete => pc \in Ending \cup {"idle"}
  /\ pc \in Ending => complete
  /\ journal = NoPlan /\ ~complete => \A r \in Roles : name[r].text # 2
  /\ pc \in {"check", "rename"} => slots[run.role][run.slot] = Used /\ ~Installed(run.role)
  /\ pc = "verify" => run.slot \in Claims(run.role)
  /\ pc = "empty" => (Same(slots[run.role][run.slot], run.plan.old[run.role]) =>
                        slots[run.role][run.slot] = run.plan.old[run.role])
  /\ complete => \A r \in Roles : <<r, journal.old[r].text>> \notin owed

UpInv ==
  TypeOK /\ FilesInv /\ ApartInv /\ PlanInv /\ RunInv /\ NothingUntranslatedLost

USE UpgradeAssumption

LEMMA Constants ==
  /\ Slots \subseteq Nat /\ 1 \in Slots /\ Roles = {"settings", "runtime"}
  /\ NoFile \in File /\ Used \in File /\ Earlier \in File /\ Translated \in File
  /\ NoFile # Used /\ NoFile.text = 0 /\ Used.text = 0 /\ Translated.text = 2
  /\ NoPlan \in Plan /\ \A r \in Roles : NoPlan.old[r] = NoFile
  /\ Idle.plan = NoPlan
  /\ Idle \in [plan : Plan, role : Roles, slot : Slots, later : BOOLEAN, settled : BOOLEAN]
BY DEF Slots, Roles, NoFile, Used, Earlier, Translated, File, NoPlan, Plan, Idle

LEMMA InitUpInv == Init => UpInv
<1> SUFFICES ASSUME Init PROVE UpInv
  OBVIOUS
<1>1. TypeOK
  BY Constants DEF Init, TypeOK, Pcs, Earlier
<1>2. \A r \in Roles : Claims(r) = {}
  BY DEF Init, Claims
<1>3. FilesInv
  BY <1>2, Constants DEF Init, FilesInv, Below, Earlier, NoFile
<1>4. ApartInv /\ PlanInv
  BY <1>2, Constants DEF Init, ApartInv, PlanInv, Earlier, NoFile
<1>5. RunInv
  BY Constants DEF Init, RunInv, Earlier, Ending
<1>6. NothingUntranslatedLost
  BY DEF Init, NothingUntranslatedLost, Earlier
<1> QED BY <1>1, <1>3, <1>4, <1>5, <1>6 DEF UpInv

LEMMA Counts ==
  ASSUME TypeOK
  PROVE  /\ New \in Nat /\ edits < New
         /\ Stops => stops' \in Nat
         /\ Change => edits' \in Nat /\ touched' \in BOOLEAN
<1>1. edits \in Nat /\ stops \in Nat
  BY DEF TypeOK
<1>2. New \in Nat /\ edits < New
  BY <1>1 DEF New
<1>3. Stops => stops' \in Nat
  BY <1>1 DEF Stops
<1>4. Change => edits' \in Nat
  BY <1>1 DEF Change
<1>5. Change => touched' \in BOOLEAN
  BY DEF Change
<1> QED BY <1>2, <1>3, <1>4, <1>5

LEMMA EditedIsAFile ==
  ASSUME NEW f \in File, NEW kept \in BOOLEAN, New \in Nat
  PROVE  /\ Edited(f, kept) \in File
         /\ Edited(f, kept).text = New /\ Edited(f, kept).ino = f.ino
         /\ Edited(f, kept).stamp = IF kept THEN f.stamp ELSE New
BY DEF Edited, File

LEMMA TypeStep == TypeOK /\ [Next]_vars => TypeOK'
<1> SUFFICES ASSUME TypeOK, [Next]_vars PROVE TypeOK'
  OBVIOUS
<1> USE Constants DEF TypeOK
<1>1. CASE Start
  <2>1. [old |-> name, authored |-> authored] \in Plan
    BY DEF Plan
  <2> QED BY <1>1, <2>1 DEF Start, GoTo, Pcs, disk, world
<1>2. CASE WriteJournal
  BY <1>2 DEF WriteJournal, GoTo, Pcs, Quietly, world, history
<1>3. CASE Prepare
  BY <1>3 DEF Prepare, GoTo, Over, Pcs, Quietly, world, history
<1>4. CASE Install
  BY <1>4 DEF Install, GoTo, Over, Mine, Pcs, Quietly, world, history, First, Unused
<1>5. CASE Check
  BY <1>5 DEF Check, GoTo, Over, Mine, Pcs, Quietly, disk, world, history
<1>6. CASE Rename
  BY <1>6 DEF Rename, GoTo, Over, Mine, Pcs, Quietly, world, history
<1>7. CASE Verify
  BY <1>7 DEF Verify, GoTo, Over, Mine, Pcs, Quietly, world, history
<1>8. CASE Write
  BY <1>8 DEF Write, GoTo, Over, Mine, Pcs, Quietly, world, history
<1>9. CASE Reread \/ Snapshot \/ Prove \/ Confirm
  BY <1>9 DEF Reread, Snapshot, Prove, Confirm, GoTo, Over, Mine, Pcs, Quietly, disk,
              world, history
<1>10. CASE PublishManifest \/ PublishStage
  BY <1>10 DEF PublishManifest, PublishStage, GoTo, Pcs, Quietly, world, history
<1>11. CASE Commit
  BY <1>11 DEF Commit, GoTo, Pcs, world
<1>12. CASE Retire
  <2>1. stops' \in Nat
    BY <1>12, Counts DEF Retire
  <2> QED BY <1>12, <2>1 DEF Retire, GoTo, NextRole, Claims, Pcs, disk, world, history
<1>13. CASE Empty
  <2>1. stops' \in Nat
    BY <1>13, Counts DEF Empty
  <2>2. slots' \in [Roles -> [Slots -> File]]
    BY <1>13 DEF Empty
  <2>3. run' \in [plan : Plan, role : Roles, slot : Slots, later : BOOLEAN, settled : BOOLEAN]
    BY <1>13 DEF Empty
  <2>4. pc' \in Pcs /\ pc' # "idle"
    BY <1>13 DEF Empty, NextRole, GoTo, Pcs
  <2> QED BY <1>13, <2>1, <2>2, <2>3, <2>4 DEF Empty, world, history
<1>14. CASE Unstage
  <2>1. stops' \in Nat
    BY <1>14, Counts DEF Unstage
  <2> QED BY <1>14, <2>1 DEF Unstage, GoTo, Pcs, world, history
<1>15. CASE Drop
  BY <1>15 DEF Drop, Over, Stops, Pcs, world, history
<1>16. CASE Stop
  BY <1>16 DEF Stop, Over, Stops, Pcs, disk, world, history
<1>17. CASE Authors
  BY <1>17 DEF Authors, Change, Pcs, disk
<1>18. ASSUME NEW r \in Roles, Replaces(r) PROVE TypeOK'
  <2>1. Fresh(New) \in File /\ New \in Nat
    BY DEF Fresh, New, File
  <2>2. PICK f \in {Fresh(New), NoFile} : name' = [name EXCEPT ![r] = f]
    BY <1>18 DEF Replaces
  <2>3. owed' \subseteq Roles \X Nat
    BY <1>18, <2>1 DEF Replaces, File
  <2> QED BY <1>18, <2>1, <2>2, <2>3 DEF Replaces, Change
<1>19. New \in Nat /\ (Change => edits' \in Nat /\ touched' \in BOOLEAN)
  BY Counts
<1>20. ASSUME NEW r \in Roles, Writes(r) PROVE TypeOK'
  <2>1. PICK kept \in BOOLEAN : name' = [name EXCEPT ![r] = Edited(name[r], kept)]
    BY <1>20 DEF Writes
  <2>2. name' \in [Roles -> File]
    BY <1>19, <2>1, EditedIsAFile
  <2>3. owed' \subseteq Roles \X Nat
    BY <1>19, <1>20 DEF Writes
  <2> QED BY <1>19, <1>20, <2>2, <2>3 DEF Writes
<1>21. ASSUME NEW r \in Roles, NEW k \in Slots, WritesLate(r, k) PROVE TypeOK'
  <2>1. PICK kept \in BOOLEAN : slots' = [slots EXCEPT ![r][k] = Edited(slots[r][k], kept)]
    BY <1>21 DEF WritesLate
  <2>2. Edited(slots[r][k], kept) \in File
    <3>1. slots[r][k] \in File
      OBVIOUS
    <3> HIDE DEF TypeOK
    <3> QED BY <3>1, <1>19, EditedIsAFile
  <2>4. slots' \in [Roles -> [Slots -> File]]
    BY <2>1, <2>2
  <2>3. owed' \subseteq Roles \X Nat
    BY <1>19, <1>21 DEF WritesLate
  <2> QED BY <1>19, <1>21, <2>4, <2>3 DEF WritesLate
<1>22. CASE UNCHANGED vars
  BY <1>22 DEF vars, disk, world, history
<1> QED
  BY <1>1, <1>2, <1>3, <1>4, <1>5, <1>6, <1>7, <1>8, <1>9, <1>10, <1>11, <1>12, <1>13,
     <1>14, <1>15, <1>16, <1>17, <1>18, <1>20, <1>21, <1>22 DEF Next, Steps, Others

\* What the upgrade is built from keeps its shape: every plan is of the earlier version's
\* files, and a run always has a role and a slot.
THEOREM UpgradeTypes == Spec => []TypeOK
<1>1. Init => TypeOK
  BY InitUpInv DEF UpInv
<1> QED BY <1>1, TypeStep, PTL DEF Spec

-----------------------------------------------------------------------------
LEMMA Shapes ==
  ASSUME TypeOK
  PROVE  /\ edits \in Nat
         /\ \A r \in Roles : name[r] \in File /\ journal.old[r] \in File /\ run.plan.old[r] \in File
         /\ \A r \in Roles, k \in Slots : slots[r][k] \in File
BY DEF TypeOK, Plan

Newly(f) == f.text = New /\ edits' = edits + 1 /\ f.ino < New + 1 /\ f.stamp < New + 1

\* A step only moves files, writes the new one, and lets somebody write a new text.
FilesMove ==
  /\ edits' = edits \/ edits' = edits + 1
  /\ \A r \in Roles :
       /\ \/ name'[r] \in {name[r], NoFile, Translated}
          \/ \E k \in Claims(r) : name'[r] = slots[r][k]
          \/ Newly(name'[r])
       /\ \A k \in Slots :
            slots'[r][k] \in {slots[r][k], NoFile, Used, name[r]} \/ Newly(slots'[r][k])
       /\ journal'.old[r] \in {journal.old[r], run.plan.old[r], NoFile}
       /\ \/ run'.plan.old[r] \in {run.plan.old[r], journal.old[r], NoFile}
          \/ /\ run'.plan.old[r] = name[r] /\ name[r].text # 2
             /\ name'[r] = name[r] /\ \A k \in Slots : slots'[r][k] = slots[r][k]
  /\ \A o \in owed' : o \in owed \/ (o[2] = New /\ edits' = edits + 1)

LEMMA MovedFiles ==
  ASSUME UpInv, FilesMove PROVE FilesInv'
<1>0. /\ NoFile \in File /\ Used \in File /\ Translated \in File
      /\ Below(NoFile) /\ Below(Used) /\ Below(Translated) /\ Translated.text > 0
  BY Constants, Shapes DEF UpInv, Below, NoFile, Used, Translated
<1>1. \A f \in File : Below(f) => Below(f)'
  BY Shapes DEF UpInv, FilesMove, Below, File
<1>2. ASSUME NEW f, Newly(f) PROVE Below(f)' /\ f.text > 0
  BY <1>2, Shapes DEF UpInv, Newly, Below, New
<1>3. ASSUME NEW r \in Roles
      PROVE  /\ Below(name[r])' /\ Below(journal.old[r])' /\ Below(run.plan.old[r])'
             /\ \A f \in {name'[r], journal'.old[r], run'.plan.old[r]} : f = NoFile \/ f.text > 0
  <2>1. \A k \in Claims(r) : k \in Slots
    BY DEF Claims
  <2>2. Below(name[r])' /\ (name'[r] = NoFile \/ name'[r].text > 0)
    BY <1>0, <1>1, <1>2, <2>1, Shapes DEF UpInv, FilesInv, FilesMove
  <2>3. /\ Below(journal.old[r])' /\ Below(run.plan.old[r])'
        /\ \A f \in {journal'.old[r], run'.plan.old[r]} : f = NoFile \/ f.text > 0
    BY <1>0, <1>1, Shapes DEF UpInv, FilesInv, FilesMove
  <2> QED BY <2>2, <2>3
<1>4. ASSUME NEW r \in Roles, NEW k \in Slots
      PROVE  Below(slots[r][k])' /\ (k \in Claims(r)' => slots'[r][k].text > 0)
  <2>1. k \in Claims(r)' => slots'[r][k] \notin {NoFile, Used}
    BY DEF Claims
  <2>2. k \in Claims(r) <=> slots[r][k] \notin {NoFile, Used}
    BY DEF Claims
  <2>3. \/ slots'[r][k] \in {slots[r][k], NoFile, Used, name[r]}
        \/ Newly(slots'[r][k])
    BY DEF FilesMove
  <2> QED BY <1>0, <1>1, <1>2, <2>1, <2>2, <2>3, Shapes DEF UpInv, FilesInv
<1>5. \A o \in owed' : o[2] > 0 /\ o[2] < edits' + 3
  <2> SUFFICES ASSUME NEW o \in owed' PROVE o[2] > 0 /\ o[2] < edits' + 3
    OBVIOUS
  <2>1. o \in owed => o[2] \in Nat /\ o[2] > 0 /\ o[2] < edits + 3
    BY DEF UpInv, TypeOK, FilesInv
  <2>2. o \in owed \/ (o[2] = New /\ edits' = edits + 1)
    BY DEF FilesMove
  <2>3. edits \in Nat /\ (edits' = edits \/ edits' = edits + 1)
    BY Shapes DEF UpInv, FilesMove
  <2> QED BY <2>1, <2>2, <2>3 DEF New
<1> QED BY <1>3, <1>4, <1>5 DEF FilesInv, Claims

LEMMA MovedPlan ==
  ASSUME UpInv, FilesMove PROVE PlanInv'
<1>1. ASSUME NEW r \in Roles PROVE journal'.old[r].text # 2 /\ run'.plan.old[r].text # 2
  <2>1. journal.old[r].text # 2 /\ run.plan.old[r].text # 2 /\ NoFile.text # 2
    BY DEF UpInv, PlanInv, NoFile
  <2>2. journal'.old[r] \in {journal.old[r], run.plan.old[r], NoFile}
    BY DEF FilesMove
  <2>3. \/ run'.plan.old[r] \in {run.plan.old[r], journal.old[r], NoFile}
        \/ run'.plan.old[r] = name[r] /\ name[r].text # 2
    BY DEF FilesMove
  <2> QED BY <2>1, <2>2, <2>3
<1>2. ASSUME NEW r \in Roles, NEW p \in {journal'.old[r], run'.plan.old[r]}
      PROVE  /\ name'[r].text = p.text => name'[r] = p
             /\ \A k \in Claims(r)' : slots'[r][k].text = p.text => slots'[r][k] = p
  <2>1. \/ p \in {run.plan.old[r], journal.old[r], NoFile}
        \/ /\ p = name[r] /\ name'[r] = name[r] /\ \A k \in Slots : slots'[r][k] = slots[r][k]
    BY DEF FilesMove
  <2>2. ASSUME NEW f, Newly(f) PROVE f.text # p.text
    <3>1. p \in File /\ Below(p) /\ edits \in Nat
      BY <2>1, Constants, Shapes DEF UpInv, FilesInv, Below, NoFile
    <3> QED BY <2>2, <3>1 DEF Newly, New, Below, File
  <2>3. p = NoFile \/ p.text > 0
    BY <2>1 DEF UpInv, FilesInv
  <2>4. name[r].text = p.text => name[r] = p
    BY <2>1, <2>3, Constants DEF UpInv, FilesInv, PlanInv
  <2>5. ASSUME NEW k \in Claims(r), slots[r][k].text = p.text PROVE slots[r][k] = p
    BY <2>1, <2>5, Constants DEF UpInv, FilesInv, PlanInv, ApartInv
  <2>6. p.text = 0 => p = NoFile
    BY <2>3
  <2>7. name'[r].text = p.text => name'[r] = p
    BY <1>1, <2>2, <2>4, <2>5, <2>6, Constants DEF FilesMove
  <2>8. ASSUME NEW k \in Claims(r)', slots'[r][k].text = p.text PROVE slots'[r][k] = p
    <3>1. k \in Slots /\ slots'[r][k] \notin {NoFile, Used}
      BY DEF Claims
    <3>2. k \in Claims(r) <=> slots[r][k] \notin {NoFile, Used}
      BY <3>1 DEF Claims
    <3> QED BY <2>2, <2>4, <2>5, <2>8, <3>1, <3>2 DEF FilesMove
  <2> QED BY <2>7, <2>8
<1> QED BY <1>1, <1>2 DEF PlanInv

-----------------------------------------------------------------------------
Still ==
  \/ Start \/ WriteJournal \/ Prepare \/ Check \/ Reread \/ PublishManifest \/ PublishStage
  \/ Snapshot \/ Prove \/ Commit \/ Confirm \/ Retire \/ Unstage \/ Drop \/ Stop \/ Authors

PlanStays == run'.plan = run.plan \/ run' = Idle

LEMMA StillSteps ==
  ASSUME UpInv, Still
  PROVE  FilesMove /\ UNCHANGED <<name, slots>> /\ owed' \subseteq owed
<1>1. UNCHANGED <<name, slots>> /\ owed' \subseteq owed /\ (edits' = edits \/ edits' = edits + 1)
  BY DEF Still, Start, WriteJournal, Prepare, Check, Reread, PublishManifest, PublishStage,
         Snapshot, Prove, Commit, Confirm, Retire, Unstage, Drop, Stop, Authors, Change,
         Quietly, disk, world, history
<1>2. journal' \in {journal, run.plan, NoPlan}
  BY DEF Still, Start, WriteJournal, Prepare, Check, Reread, PublishManifest, PublishStage,
         Snapshot, Prove, Commit, Confirm, Retire, Unstage, Drop, Stop, Authors, disk
<1>3. CASE Start
  <2>1. \/ run'.plan = journal
        \/ journal = NoPlan /\ ~complete /\ run'.plan = [old |-> name, authored |-> authored]
    BY <1>3, Constants DEF Start, Idle
  <2>2. journal = NoPlan /\ ~complete => \A r \in Roles : name[r].text # 2
    BY DEF UpInv, RunInv
  <2> QED BY <1>1, <1>2, <2>1, <2>2, Constants DEF FilesMove
<1>4. CASE ~Start
  <2>1. PlanStays
    BY <1>4 DEF Still, WriteJournal, Prepare, Check, Reread, PublishManifest, PublishStage,
         Snapshot, Prove, Commit, Confirm, Retire, Unstage, Drop, Stop, Authors, PlanStays,
         Over, UpInv, TypeOK
  <2> QED BY <1>1, <1>2, <2>1, Constants DEF FilesMove, PlanStays
<1> QED BY <1>1, <1>3, <1>4

LEMMA FilesStay ==
  ASSUME UpInv, UNCHANGED <<name, slots>>, owed' \subseteq owed
  PROVE  ApartInv' /\ NothingUntranslatedLost'
<1>1. \A r \in Roles : Claims(r)' = Claims(r)
  BY DEF Claims
<1> QED BY <1>1 DEF UpInv, ApartInv, NothingUntranslatedLost

\* A step of the run that moves files: nobody's edit, and no plan but the run's.
Moving == Install \/ Rename \/ Verify \/ Write \/ Empty

LEMMA MovingSteps ==
  ASSUME UpInv, Moving
  PROVE  /\ UNCHANGED <<journal, edits, owed>> /\ PlanStays
         /\ run.role \in Roles /\ run.slot \in Slots
         /\ name \in [Roles -> File] /\ slots \in [Roles -> [Slots -> File]]
<1>1. UNCHANGED <<journal, edits, owed>>
  BY DEF Moving, Install, Rename, Verify, Write, Empty, Quietly, world, history
<1>2. PlanStays
  BY DEF Moving, Install, Rename, Verify, Write, Empty, PlanStays, Over, UpInv, TypeOK
<1> QED BY <1>1, <1>2 DEF UpInv, TypeOK

LEMMA PlanMoves ==
  ASSUME PlanStays, NEW r \in Roles
  PROVE  run'.plan.old[r] \in {run.plan.old[r], journal.old[r], NoFile}
BY Constants DEF PlanStays

LEMMA InstallMoves ==
  ASSUME UpInv, Install PROVE FilesMove /\ ApartInv' /\ NothingUntranslatedLost'
<1>1. /\ UNCHANGED <<name, journal, edits, owed>> /\ PlanStays
      /\ slots \in [Roles -> [Slots -> File]]
  BY MovingSteps DEF Install, Moving
<1>2. \A r \in Roles, k \in Slots :
        slots'[r][k] = slots[r][k] \/ (slots[r][k] = NoFile /\ slots'[r][k] = Used)
  <2>1. CASE UNCHANGED slots
    BY <2>1
  <2>2. ASSUME NEW j \in First(Unused(run.role)),
               slots' = [slots EXCEPT ![run.role][j] = Used]
        PROVE  <1>2
    <3>1. j \in Slots /\ slots[run.role][j] = NoFile
      BY DEF First, Unused
    <3> QED BY <1>1, <2>2, <3>1
  <2> QED BY <2>1, <2>2 DEF Install, Mine
<1>3. FilesMove
  BY <1>1, <1>2, PlanMoves DEF FilesMove
<1>4. \A r \in Roles : \A k \in Claims(r)' : k \in Claims(r) /\ slots'[r][k] = slots[r][k]
  BY <1>2 DEF Claims
<1>5. ApartInv'
  BY <1>1, <1>4 DEF UpInv, ApartInv
<1>6. NothingUntranslatedLost'
  BY <1>1, <1>2, Constants DEF UpInv, TypeOK, FilesInv, NothingUntranslatedLost
<1> QED BY <1>3, <1>5, <1>6

\* One file goes from its name to its slot, or back.
LEMMA RenameMoves ==
  ASSUME UpInv, Rename PROVE FilesMove /\ ApartInv' /\ NothingUntranslatedLost'
<1> DEFINE r == run.role
           s == run.slot
<1>1. /\ UNCHANGED <<journal, edits, owed>> /\ PlanStays
      /\ r \in Roles /\ s \in Slots
      /\ name \in [Roles -> File] /\ slots \in [Roles -> [Slots -> File]]
  BY MovingSteps DEF Moving
<1>2. CASE UNCHANGED <<name, slots>>
  <2>1. FilesMove
    BY <1>1, <1>2, PlanMoves DEF FilesMove
  <2> QED BY <1>1, <1>2, <2>1, FilesStay
<1>3. CASE /\ slots' = [slots EXCEPT ![r][s] = name[r]]
           /\ name' = [name EXCEPT ![r] = NoFile]
           /\ name[r] # NoFile
  <2>1. slots[r][s] = Used /\ name[r].text # 2 /\ name[r].text > 0
    <3>1. slots[r][s] = Used /\ ~Installed(r)
      BY DEF UpInv, RunInv, Rename
    <3>2. name[r].text > 0
      BY <1>1, <1>3 DEF UpInv, FilesInv
    <3> QED BY <3>1, <3>2 DEF Installed, Translated
  <2>2. FilesMove
    BY <1>1, <1>3, PlanMoves DEF FilesMove
  <2>3. \A q \in Roles : name'[q] = IF q = r THEN NoFile ELSE name[q]
    BY <1>1, <1>3
  <2>4. \A q \in Roles, k \in Slots :
          slots'[q][k] = IF q = r /\ k = s THEN name[r] ELSE slots[q][k]
    BY <1>1, <1>3
  <2>5. \A q \in Roles : \A k \in Claims(q)' : k \in Slots /\ (k \in Claims(q) \/ (q = r /\ k = s))
    BY <2>4 DEF Claims
  <2>6. s \notin Claims(r)
    BY <2>1 DEF Claims
  <2>7. ApartInv'
    <3> SUFFICES ASSUME NEW q \in Roles, NEW k \in Claims(q)'
        PROVE  /\ slots'[q][k].text # 2 /\ slots'[q][k].text # name'[q].text
               /\ \A j \in Claims(q)' : slots'[q][j].text = slots'[q][k].text => j = k
      BY DEF ApartInv
    <3>1. \A i \in Claims(q) : /\ slots[q][i].text # 2 /\ slots[q][i].text # name[q].text
                              /\ slots[q][i].text # 0
                              /\ \A j \in Claims(q) :
                                   slots[q][j].text = slots[q][i].text => j = i
      BY DEF UpInv, ApartInv, FilesInv
    <3>2. CASE q # r
      BY <2>3, <2>4, <2>5, <3>1, <3>2
    <3>3. CASE q = r
      <4>1. name'[q].text = 0
        BY <2>3, <3>3, Constants
      <4>2. \A j \in Claims(q)' : \/ j = s /\ slots'[q][j].text = name[q].text
                                  \/ /\ j # s /\ j \in Claims(q)
                                     /\ slots'[q][j].text = slots[q][j].text
        BY <2>4, <2>5, <2>6, <3>3
      <4>3. name[q].text # 2 /\ name[q].text # 0
        BY <2>1, <3>3
      <4>4. slots'[q][k].text # 2 /\ slots'[q][k].text # name'[q].text
        BY <3>1, <4>1, <4>2, <4>3
      <4>5. ASSUME NEW j \in Claims(q)', slots'[q][j].text = slots'[q][k].text PROVE j = k
        BY <3>1, <4>2, <4>5
      <4> QED BY <4>4, <4>5
    <3> QED BY <3>2, <3>3
  <2>8. NothingUntranslatedLost'
    <3> SUFFICES ASSUME NEW o \in owed
        PROVE  \/ name'[o[1]].text = o[2]
               \/ \E k \in Slots : slots'[o[1]][k].text = o[2]
      BY <1>1 DEF NothingUntranslatedLost
    <3>1. o[1] \in Roles /\ o[2] # 0
      BY DEF UpInv, TypeOK, FilesInv
    <3>2. name[o[1]].text = o[2] \/ \E k \in Slots : slots[o[1]][k].text = o[2]
      BY DEF UpInv, NothingUntranslatedLost
    <3>3. slots[r][s].text = 0
      BY <2>1, Constants
    <3> QED BY <1>1, <2>3, <2>4, <3>1, <3>2, <3>3
  <2> QED BY <2>2, <2>7, <2>8
<1> QED BY <1>2, <1>3 DEF Rename, Mine

LEMMA VerifyMoves ==
  ASSUME UpInv, Verify PROVE FilesMove /\ ApartInv' /\ NothingUntranslatedLost'
<1> DEFINE r == run.role
           s == run.slot
<1>1. /\ UNCHANGED <<journal, edits, owed>> /\ PlanStays
      /\ r \in Roles /\ s \in Slots
      /\ name \in [Roles -> File] /\ slots \in [Roles -> [Slots -> File]]
  BY MovingSteps DEF Moving
<1>2. CASE UNCHANGED <<name, slots>>
  <2>1. FilesMove
    BY <1>1, <1>2, PlanMoves DEF FilesMove
  <2> QED BY <1>1, <1>2, <2>1, FilesStay
<1>3. CASE /\ slots' = [slots EXCEPT ![r][s] = Used]
           /\ name' = [name EXCEPT ![r] = slots[r][s]]
           /\ name[r] = NoFile
  <2>1. s \in Claims(r)
    BY DEF UpInv, RunInv, Verify
  <2>2. FilesMove
    BY <1>1, <1>3, <2>1, PlanMoves DEF FilesMove
  <2>3. \A q \in Roles : name'[q] = IF q = r THEN slots[r][s] ELSE name[q]
    BY <1>1, <1>3
  <2>4. \A q \in Roles, k \in Slots :
          slots'[q][k] = IF q = r /\ k = s THEN Used ELSE slots[q][k]
    BY <1>1, <1>3
  <2>5. \A q \in Roles : \A k \in Claims(q)' : k \in Slots /\ k \in Claims(q) /\ ~(q = r /\ k = s)
    BY <2>4 DEF Claims
  <2>7. ApartInv'
    BY <2>1, <2>3, <2>4, <2>5 DEF UpInv, ApartInv
  <2>8. NothingUntranslatedLost'
    BY <1>1, <1>3, <2>3, <2>4, Constants DEF UpInv, TypeOK, FilesInv, NothingUntranslatedLost
  <2> QED BY <2>2, <2>7, <2>8
<1> QED BY <1>2, <1>3 DEF Verify, Mine

LEMMA WriteMoves ==
  ASSUME UpInv, Write PROVE FilesMove /\ ApartInv' /\ NothingUntranslatedLost'
<1> DEFINE r == run.role
<1>1. /\ UNCHANGED <<slots, journal, edits, owed>> /\ PlanStays
      /\ r \in Roles /\ name \in [Roles -> File]
  BY MovingSteps DEF Moving, Write
<1>2. CASE UNCHANGED name
  <2>1. FilesMove
    BY <1>1, <1>2, PlanMoves DEF FilesMove
  <2> QED BY <1>1, <1>2, <2>1, FilesStay
<1>3. CASE name' = [name EXCEPT ![r] = Translated] /\ name[r] = NoFile
  <2>1. FilesMove
    BY <1>1, <1>3, PlanMoves DEF FilesMove
  <2>2. \A q \in Roles : name'[q] = IF q = r THEN Translated ELSE name[q]
    BY <1>1, <1>3
  <2>3. \A q \in Roles : Claims(q)' = Claims(q)
    BY <1>1 DEF Claims
  <2>4. ApartInv'
    BY <1>1, <2>2, <2>3, Constants DEF UpInv, ApartInv
  <2>5. NothingUntranslatedLost'
    BY <1>1, <1>3, <2>2, Constants DEF UpInv, TypeOK, FilesInv, NothingUntranslatedLost
  <2> QED BY <2>1, <2>4, <2>5
<1> QED BY <1>2, <1>3 DEF Write, Mine

\* What is emptied is exactly what was translated, and nobody is owed that any more.
LEMMA EmptyMoves ==
  ASSUME UpInv, Empty PROVE FilesMove /\ ApartInv' /\ NothingUntranslatedLost'
<1> DEFINE r == run.role
           s == run.slot
<1>1. /\ UNCHANGED <<name, journal, edits, owed>> /\ PlanStays
      /\ r \in Roles /\ s \in Slots
      /\ name \in [Roles -> File] /\ slots \in [Roles -> [Slots -> File]]
  BY MovingSteps DEF Moving, Empty
<1>2. CASE UNCHANGED slots
  <2>1. FilesMove
    BY <1>1, <1>2, PlanMoves DEF FilesMove
  <2> QED BY <1>1, <1>2, <2>1, FilesStay
<1>3. ASSUME NEW left \in {NoFile, Used}, slots' = [slots EXCEPT ![r][s] = left],
             Same(slots[r][s], run.plan.old[r])
      PROVE  FilesMove /\ ApartInv' /\ NothingUntranslatedLost'
  <2>1. slots[r][s] = journal.old[r] /\ <<r, journal.old[r].text>> \notin owed
    BY <1>1, <1>3 DEF UpInv, RunInv, Empty, Ending
  <2>2. \A q \in Roles, k \in Slots :
          slots'[q][k] = IF q = r /\ k = s THEN left ELSE slots[q][k]
    BY <1>1, <1>3
  <2>3. FilesMove
    BY <1>1, <2>2, PlanMoves DEF FilesMove
  <2>4. \A q \in Roles : \A k \in Claims(q)' : k \in Claims(q) /\ slots'[q][k] = slots[q][k]
    BY <2>2 DEF Claims
  <2>5. ApartInv'
    BY <1>1, <2>4 DEF UpInv, ApartInv
  <2>6. NothingUntranslatedLost'
    <3> SUFFICES ASSUME NEW o \in owed
        PROVE  \/ name[o[1]].text = o[2]
               \/ \E k \in Slots : slots'[o[1]][k].text = o[2]
      BY <1>1 DEF NothingUntranslatedLost
    <3>1. o = <<o[1], o[2]>> /\ o[1] \in Roles
      BY DEF UpInv, TypeOK
    <3>2. name[o[1]].text = o[2] \/ \E k \in Slots : slots[o[1]][k].text = o[2]
      BY DEF UpInv, NothingUntranslatedLost
    <3>3. o[1] = r => o[2] # slots[r][s].text
      BY <2>1, <3>1
    <3> QED BY <2>2, <3>1, <3>2, <3>3
  <2> QED BY <2>3, <2>5, <2>6
<1> QED BY <1>2, <1>3 DEF Empty, Mine

-----------------------------------------------------------------------------
\* Everything an edit writes is new.
LEMMA NewIsNew ==
  ASSUME UpInv
  PROVE  /\ New \in Nat /\ New # 2 /\ New # 0
         /\ \A r \in Roles : name[r].text # New
         /\ \A r \in Roles, k \in Slots : slots[r][k].text # New
         /\ \A o \in owed : o[2] # New
<1>1. edits \in Nat /\ \A f \in File : Below(f) => f.text # New
  BY Shapes DEF UpInv, Below, New, File
<1>2. New \in Nat /\ New # 2 /\ New # 0
  BY <1>1 DEF New
<1>3. \A o \in owed : o[2] \in Nat /\ o[2] < edits + 3
  BY DEF UpInv, TypeOK, FilesInv
<1>4. \A o \in owed : o[2] # New
  BY <1>1, <1>3 DEF New
<1> QED BY <1>1, <1>2, <1>4, Shapes DEF UpInv, FilesInv

Rewrites(r) == Replaces(r) \/ Writes(r)

LEMMA RewritesMove ==
  ASSUME UpInv, NEW r \in Roles, Rewrites(r)
  PROVE  FilesMove /\ ApartInv' /\ NothingUntranslatedLost'
<1>1. UNCHANGED <<slots, journal, run>> /\ edits' = edits + 1
  BY DEF Rewrites, Replaces, Writes, Change
<1>2. PICK f : /\ name' = [name EXCEPT ![r] = f] /\ (f = NoFile \/ Newly(f))
               /\ owed' = (owed \ {<<r, name[r].text>>}) \cup
                          {<<r, g.text>> : g \in {f} \ {NoFile}}
  <2>1. CASE Replaces(r)
    <3>1. Newly(Fresh(New))
      BY <1>1, NewIsNew DEF Newly, Fresh
    <3> QED BY <2>1, <3>1 DEF Replaces
  <2>2. CASE Writes(r)
    <3>1. PICK kept \in BOOLEAN : name' = [name EXCEPT ![r] = Edited(name[r], kept)]
      BY <2>2 DEF Writes
    <3>2. Newly(Edited(name[r], kept)) /\ Edited(name[r], kept) # NoFile
      <4>1. /\ Edited(name[r], kept).text = New /\ Edited(name[r], kept).ino = name[r].ino
            /\ Edited(name[r], kept).stamp = IF kept THEN name[r].stamp ELSE New
        BY NewIsNew, Shapes, EditedIsAFile DEF UpInv
      <4>2. name[r].ino < New + 1 /\ name[r].stamp < New + 1 /\ New < New + 1
        BY Shapes DEF UpInv, FilesInv, Below, File, New
      <4> QED BY <1>1, <4>1, <4>2, NewIsNew, Constants DEF Newly
    <3> DEFINE f == Edited(name[r], kept)
    <3>3. owed' = (owed \ {<<r, name[r].text>>}) \cup {<<r, New>>} /\ f.text = New
      BY <2>2, <3>2 DEF Writes, Newly
    <3> HIDE DEF f
    <3>4. {<<r, g.text>> : g \in {f} \ {NoFile}} = {<<r, New>>}
      BY <3>2, <3>3 DEF f
    <3> QED BY <3>1, <3>2, <3>3, <3>4 DEF f
  <2> QED BY <2>1, <2>2 DEF Rewrites
<1>3. \A q \in Roles : name'[q] = IF q = r THEN f ELSE name[q]
  BY <1>2 DEF UpInv, TypeOK
<1>4. f = NoFile \/ f.text = New
  BY <1>2 DEF Newly
<1>5. FilesMove
  BY <1>1, <1>2, <1>3, <1>4 DEF FilesMove
<1>6. \A q \in Roles : Claims(q)' = Claims(q)
  BY <1>1 DEF Claims
<1>7. ApartInv'
  <2>1. \A k \in Claims(r) : slots[r][k].text # f.text
    BY <1>4, NewIsNew, Constants DEF UpInv, FilesInv, Claims
  <2> QED BY <1>1, <1>3, <1>6, <2>1 DEF UpInv, ApartInv
<1>8. NothingUntranslatedLost'
  <2> SUFFICES ASSUME NEW o \in owed'
      PROVE  name'[o[1]].text = o[2] \/ \E k \in Slots : slots[o[1]][k].text = o[2]
    BY <1>1 DEF NothingUntranslatedLost
  <2>1. CASE o \in owed /\ o # <<r, name[r].text>>
    <3>1. o = <<o[1], o[2]>> /\ o[1] \in Roles
      BY <2>1 DEF UpInv, TypeOK
    <3> QED BY <1>3, <2>1, <3>1 DEF UpInv, NothingUntranslatedLost
  <2>2. CASE o = <<r, f.text>>
    BY <1>3, <2>2
  <2> QED BY <1>2, <2>1, <2>2
<1> QED BY <1>5, <1>7, <1>8

LEMMA LateWritesMove ==
  ASSUME UpInv, NEW r \in Roles, NEW k \in Slots, WritesLate(r, k)
  PROVE  FilesMove /\ ApartInv' /\ NothingUntranslatedLost'
<1>1. /\ UNCHANGED <<name, journal, run>> /\ edits' = edits + 1 /\ k \in Claims(r)
      /\ owed' = (owed \ {<<r, slots[r][k].text>>}) \cup {<<r, New>>}
  BY DEF WritesLate, Change
<1>2. PICK f : slots' = [slots EXCEPT ![r][k] = f] /\ Newly(f) /\ f.text = New
  <2>1. PICK kept \in BOOLEAN : slots' = [slots EXCEPT ![r][k] = Edited(slots[r][k], kept)]
    BY DEF WritesLate
  <2>2. Newly(Edited(slots[r][k], kept))
    <3>1. /\ Edited(slots[r][k], kept).text = New
          /\ Edited(slots[r][k], kept).ino = slots[r][k].ino
          /\ Edited(slots[r][k], kept).stamp = IF kept THEN slots[r][k].stamp ELSE New
      BY NewIsNew, Shapes, EditedIsAFile DEF UpInv
    <3>2. slots[r][k].ino < New + 1 /\ slots[r][k].stamp < New + 1 /\ New < New + 1
      BY Shapes DEF UpInv, FilesInv, Below, File, New
    <3> QED BY <1>1, <3>1, <3>2 DEF Newly
  <2> QED BY <2>1, <2>2 DEF Newly
<1>3. \A q \in Roles, j \in Slots :
        slots'[q][j] = IF q = r /\ j = k THEN f ELSE slots[q][j]
  BY <1>2 DEF UpInv, TypeOK
<1>4. FilesMove
  BY <1>1, <1>2, <1>3 DEF FilesMove
<1>5. \A q \in Roles : \A j \in Claims(q)' : j \in Claims(q)
  BY <1>1, <1>3 DEF Claims
<1>6. ApartInv'
  BY <1>1, <1>2, <1>3, <1>5, NewIsNew DEF UpInv, ApartInv, Claims
<1>7. NothingUntranslatedLost'
  <2> SUFFICES ASSUME NEW o \in owed'
      PROVE  name[o[1]].text = o[2] \/ \E j \in Slots : slots'[o[1]][j].text = o[2]
    BY <1>1 DEF NothingUntranslatedLost
  <2>1. CASE o \in owed /\ o # <<r, slots[r][k].text>>
    <3>1. o = <<o[1], o[2]>> /\ o[1] \in Roles
      BY <2>1 DEF UpInv, TypeOK
    <3> QED BY <1>3, <2>1, <3>1 DEF UpInv, NothingUntranslatedLost
  <2>2. CASE o = <<r, New>>
    BY <1>2, <1>3, <2>2
  <2> QED BY <1>1, <2>1, <2>2
<1> QED BY <1>4, <1>6, <1>7

-----------------------------------------------------------------------------
LEMMA RunStep ==
  ASSUME UpInv, Next PROVE RunInv'
<1> USE DEF GoTo, Ending, Mine
<1>0. RunInv /\ TypeOK
  BY DEF UpInv
<1>1. CASE Start
  <2>1. \A r \in Roles : name[r] # NoFile => [old |-> name, authored |-> authored] # NoPlan
    BY Constants DEF NoPlan
  <2> QED BY <1>0, <1>1, <2>1, Constants DEF Start, Idle, RunInv, disk
<1>2. CASE WriteJournal
  BY <1>0, <1>2 DEF WriteJournal, RunInv, Quietly, history
<1>3. CASE Prepare \/ Check \/ Reread \/ PublishManifest \/ PublishStage \/ Snapshot \/ Prove
  BY <1>0, <1>3 DEF Prepare, Check, Reread, PublishManifest, PublishStage, Snapshot, Prove,
         Over, RunInv, Quietly, disk, history, Installed, TypeOK
<1>4. CASE Install
  <2>1. CASE UNCHANGED slots /\ pc' # "check"
    BY <1>0, <1>4, <2>1 DEF Install, Over, RunInv, Quietly, history
  <2>2. ASSUME NEW k \in First(Unused(run.role)), Claimable(run.role, run.plan),
               slots' = [slots EXCEPT ![run.role][k] = Used],
               run' = [run EXCEPT !.slot = k], pc' = "check"
        PROVE  RunInv'
    <3>1. k \in Slots /\ run.role \in Roles
      BY <1>0 DEF First, Unused, TypeOK
    <3>2. ~Installed(run.role)
      BY <2>2, <3>1 DEF Claimable, Installed, Translated, UpInv, PlanInv
    <3>3. slots'[run.role][k] = Used
      BY <1>0, <2>2, <3>1 DEF TypeOK
    <3>4. run'.role = run.role /\ run'.slot = k /\ run'.plan = run.plan
      BY <1>0, <2>2 DEF TypeOK
    <3> QED BY <1>0, <1>4, <2>2, <3>2, <3>3, <3>4 DEF Install, RunInv, Quietly, history, Installed
  <2> QED BY <1>4, <2>1, <2>2 DEF Install, Over
<1>5. CASE Rename
  <2>1. run.role \in Roles /\ run.slot \in Slots /\ slots \in [Roles -> [Slots -> File]]
    BY <1>0 DEF TypeOK
  <2>2. name[run.role] # NoFile => name[run.role] # Used
    BY <2>1, Constants DEF UpInv, FilesInv
  <2>3. pc' = "verify" => (run.slot \in Claims(run.role))'
    <3> SUFFICES ASSUME pc' = "verify" PROVE (run.slot \in Claims(run.role))'
      OBVIOUS
    <3>1. run' = run /\ name[run.role] # NoFile
          /\ slots' = [slots EXCEPT ![run.role][run.slot] = name[run.role]]
      BY <1>5 DEF Rename, Over
    <3> QED BY <2>1, <2>2, <3>1 DEF Claims
  <2>4. \A q \in Roles : name'[q] \in {name[q], NoFile}
    BY <1>0, <1>5 DEF Rename, TypeOK
  <2>5. UNCHANGED <<journal, complete, owed>> /\ run' \in {run, Idle}
    BY <1>5 DEF Rename, Over, Quietly, history
  <2>6. pc' \in {"verify", "idle"} /\ pc = "rename" /\ (pc' = "verify" => run' = run)
    BY <1>5 DEF Rename, Over
  <2> QED BY <1>0, <2>3, <2>4, <2>5, <2>6, Constants DEF RunInv
<1>6. CASE Verify
  BY <1>0, <1>6, Constants DEF Verify, Over, RunInv, Quietly, history
<1>7. CASE Write
  BY <1>0, <1>7 DEF Write, Over, RunInv, Quietly, history
<1>8. CASE Commit
  BY <1>0, <1>8 DEF Commit, RunInv, world
<1>9. CASE Confirm \/ Unstage \/ Stop
  BY <1>0, <1>9 DEF Confirm, Unstage, Stop, Over, RunInv, Quietly, disk, history, TypeOK
<1>10. CASE Retire
  BY <1>0, <1>10 DEF Retire, NextRole, Exact, RunInv, disk, history, TypeOK
<1>11. CASE Empty
  <2>1. pc' \in {"retire", "unstage"} /\ run'.plan = run.plan
    BY <1>0, <1>11 DEF Empty, NextRole, TypeOK
  <2> QED BY <1>0, <1>11, <2>1 DEF Empty, RunInv, history
<1>12. CASE Drop
  <2>1. \A r \in Roles : <<r, 0>> \notin owed
    BY DEF UpInv, FilesInv
  <2> QED BY <1>0, <1>12, <2>1, Constants DEF Drop, Over, RunInv, history
<1>13. CASE Authors
  BY <1>0, <1>13 DEF Authors, RunInv, disk, Installed, Claims
<1>14. \A r \in Roles : journal.old[r].text # New /\ run.plan.old[r].stamp # New
  <2>1. \A f \in File : Below(f) => f.text # New /\ f.stamp # New
    BY Shapes DEF UpInv, Below, New, File
  <2> QED BY <2>1, Shapes DEF UpInv, FilesInv
<1>15. ASSUME NEW r \in Roles, Rewrites(r) PROVE RunInv'
  <2>1. UNCHANGED <<slots, journal, complete, pc, run>>
    BY <1>15 DEF Rewrites, Replaces, Writes
  <2>2. \A q \in Roles : name'[q].text \in {name[q].text, 0, New}
    <3>1. name \in [Roles -> File] /\ Fresh(New).text = New
      BY <1>0 DEF TypeOK, Fresh
    <3>2. \A kept \in BOOLEAN : Edited(name[r], kept).text = New
      BY NewIsNew, <3>1, EditedIsAFile
    <3> QED BY <1>15, <3>1, <3>2, Constants DEF Rewrites, Replaces, Writes
  <2>3. \A o \in owed' : o \in owed \/ o[2] = New
    BY <1>15, Constants DEF Rewrites, Replaces, Writes, Fresh
  <2>4. \A q \in Roles : ~Installed(q) => ~Installed(q)'
    BY <2>2, NewIsNew DEF Installed, Translated
  <2>5. complete => \A q \in Roles : <<q, journal.old[q].text>> \notin owed'
    BY <1>0, <1>14, <2>3 DEF RunInv
  <2>6. journal = NoPlan /\ ~complete => \A q \in Roles : name'[q].text # 2
    BY <1>0, <2>2, NewIsNew DEF RunInv
  <2>7. pc \in {"check", "rename"} => ~Installed(run.role)'
    BY <1>0, <2>1, <2>4 DEF RunInv, TypeOK, Installed
  <2> QED BY <1>0, <2>1, <2>5, <2>6, <2>7 DEF RunInv, Claims
<1>16. ASSUME NEW r \in Roles, NEW k \in Slots, WritesLate(r, k) PROVE RunInv'
  <2>1. UNCHANGED <<name, journal, complete, pc, run>> /\ k \in Claims(r)
    BY <1>16 DEF WritesLate
  <2>2. run.role \in Roles /\ run.slot \in Slots /\ slots \in [Roles -> [Slots -> File]]
    BY <1>0 DEF TypeOK
  <2>3. PICK kept \in BOOLEAN :
          slots' = [slots EXCEPT ![r][k] = Edited(slots[r][k], kept)] /\ (kept => pc # "empty")
    BY <1>16 DEF WritesLate
  <2>4. /\ Edited(slots[r][k], kept).text = New
        /\ Edited(slots[r][k], kept).stamp = IF kept THEN slots[r][k].stamp ELSE New
    BY NewIsNew, <2>2, EditedIsAFile
  <2>5. \A q \in Roles, j \in Slots : slots'[q][j] = slots[q][j] \/
          /\ q = r /\ j = k /\ slots'[q][j].text = New
          /\ pc = "empty" => slots'[q][j].stamp = New
    BY <2>2, <2>3, <2>4
  <2>6. \A q \in Roles : \A j \in Claims(q) : j \in Claims(q)'
    BY <2>5, NewIsNew, Constants DEF Claims
  <2>7. pc \in {"check", "rename"} => slots'[run.role][run.slot] = Used
    BY <1>0, <2>1, <2>2, <2>5 DEF RunInv, Claims
  <2>8. pc = "empty" => (Same(slots'[run.role][run.slot], run.plan.old[run.role]) =>
                           slots'[run.role][run.slot] = run.plan.old[run.role])
    BY <1>0, <1>14, <2>1, <2>2, <2>5 DEF RunInv, Same
  <2>9. \A o \in owed' : o \in owed \/ o[2] = New
    BY <1>16 DEF WritesLate
  <2>10. complete => \A q \in Roles : <<q, journal.old[q].text>> \notin owed'
    BY <1>0, <1>14, <2>9 DEF RunInv
  <2>11. pc = "verify" => run.slot \in Claims(run.role)'
    BY <1>0, <2>1, <2>2, <2>6 DEF RunInv
  <2> QED BY <1>0, <2>1, <2>7, <2>8, <2>10, <2>11 DEF RunInv, Installed
<1> QED
  BY <1>1, <1>2, <1>3, <1>4, <1>5, <1>6, <1>7, <1>8, <1>9, <1>10, <1>11, <1>12, <1>13,
     <1>15, <1>16 DEF Next, Steps, Others, Rewrites

LEMMA UpStep == UpInv /\ [Next]_vars => UpInv'
<1> SUFFICES ASSUME UpInv, [Next]_vars PROVE UpInv'
  OBVIOUS
<1>1. TypeOK'
  BY TypeStep DEF UpInv
<1>2. CASE UNCHANGED vars
  BY <1>2 DEF vars, disk, world, history, UpInv, TypeOK, FilesInv, ApartInv, PlanInv, RunInv,
         NothingUntranslatedLost, Claims, Below, Installed
<1>3. CASE Next
  <2>1. FilesMove /\ ApartInv' /\ NothingUntranslatedLost'
    <3>1. CASE Still
      BY <3>1, StillSteps, FilesStay
    <3>2. CASE Install \/ Rename \/ Verify \/ Write \/ Empty
      BY <3>2, InstallMoves, RenameMoves, VerifyMoves, WriteMoves, EmptyMoves
    <3>3. ASSUME NEW r \in Roles, Rewrites(r) PROVE <2>1
      BY <3>3, RewritesMove
    <3>4. ASSUME NEW r \in Roles, NEW k \in Slots, WritesLate(r, k) PROVE <2>1
      BY <3>4, LateWritesMove
    <3> QED BY <1>3, <3>1, <3>2, <3>3, <3>4 DEF Next, Steps, Others, Still, Rewrites
  <2> QED BY <1>1, <1>3, <2>1, MovedFiles, MovedPlan, RunStep DEF UpInv
<1> QED BY <1>2, <1>3

LEMMA UpgradeInvariant == Spec => []UpInv
BY InitUpInv, UpStep, PTL DEF Spec

\* (1) A text that was not translated is at its name or in a claim slot, whoever writes
\* when, wherever the run stops and however often it is started again: the claims of
\* _install_exact_replacement and their retirement lose nobody's edit.
THEOREM NothingIsLost == Spec => []NothingUntranslatedLost
<1>1. UpInv => NothingUntranslatedLost
  BY DEF UpInv
<1> QED BY <1>1, UpgradeInvariant, PTL

-----------------------------------------------------------------------------
(* The journal and its claims.                                             *)

Owed(r, k) == <<r, slots[r][k].text>> \in owed

\* This run has looked at the claim and left it where it is.
Judged(r, k) ==
  \/ pc \in {"unstage", "drop"} /\ run.settled
  \/ pc \in {"retire", "empty"} /\ run.settled /\ run.role = "runtime" /\ r = "settings"
  \/ pc = "empty" /\ run.role = r /\ run.slot # k

ClaimsInv ==
  \A r \in Roles :
    /\ ~complete => name[r] = NoFile \/ Installed(r) \/ <<r, name[r].text>> \in owed
    /\ \A k \in Claims(r) :
         /\ Owed(r, k) \/ (complete /\ slots[r][k] = journal.old[r])
         /\ Judged(r, k) => Owed(r, k)

LEMMA ClaimsStep ==
  ASSUME UpInv, ClaimsInv, Next PROVE ClaimsInv'
<1> USE DEF GoTo, Mine
<1>0. /\ run.role \in Roles /\ run.slot \in Slots
      /\ name \in [Roles -> File] /\ slots \in [Roles -> [Slots -> File]]
      /\ run \in [plan : Plan, role : Roles, slot : Slots, later : BOOLEAN, settled : BOOLEAN]
      /\ RunInv /\ Roles = {"settings", "runtime"}
  BY DEF UpInv, TypeOK, Roles
<1> DEFINE Quiet == UNCHANGED <<name, slots, owed>>
<1>1. Quiet => \A r \in Roles :
        Claims(r)' = Claims(r) /\ (Installed(r)' <=> Installed(r))
        /\ \A k \in Slots : Owed(r, k)' <=> Owed(r, k)
  BY DEF Claims, Installed, Owed
<1>2. CASE \/ Start \/ WriteJournal \/ Prepare \/ Check \/ Reread \/ PublishManifest
           \/ PublishStage \/ Snapshot \/ Prove \/ Confirm \/ Stop
  <2>1. Quiet /\ complete' = complete /\ (complete => journal' = journal)
    BY <1>0, <1>2 DEF Start, WriteJournal, Prepare, Check, Reread, PublishManifest,
           PublishStage, Snapshot, Prove, Confirm, Stop, Quietly, disk, history, RunInv
  <2>2. pc' \notin {"unstage", "drop", "empty"} /\ (pc' = "retire" => run'.role = "settings")
    BY <1>0, <1>2 DEF Start, WriteJournal, Prepare, Check, Reread, PublishManifest,
           PublishStage, Snapshot, Prove, Confirm, Stop, Over, Idle
  <2> QED BY <1>1, <2>1, <2>2 DEF ClaimsInv, Judged, Claims
<1>3. CASE Authors
  BY <1>1, <1>3 DEF Authors, ClaimsInv, Judged, disk, Claims
<1>4. CASE Commit
  <2>1. UNCHANGED <<name, slots, journal>> /\ complete' /\ ~complete /\ pc' = "confirm"
        /\ owed' = owed \ {<<r, run.plan.old[r].text>> : r \in Roles}
        /\ journal = run.plan
    BY <1>0, <1>4 DEF Commit, RunInv, Ending
  <2>2. ASSUME NEW r \in Roles, NEW k \in Claims(r)
        PROVE  Owed(r, k)' \/ slots[r][k] = journal.old[r]
    <3>1. Owed(r, k)
      BY <2>1 DEF ClaimsInv
    <3>2. slots[r][k].text = journal.old[r].text => slots[r][k] = journal.old[r]
      BY DEF UpInv, PlanInv
    <3> QED BY <2>1, <3>1, <3>2 DEF Owed
  <2>3. \A r \in Roles : Claims(r)' = Claims(r)
    BY <2>1 DEF Claims
  <2> QED BY <2>1, <2>2, <2>3 DEF ClaimsInv, Judged
<1>5. CASE Retire
  <2>1. Quiet /\ UNCHANGED <<complete, journal>> /\ complete /\ journal = run.plan
    BY <1>0, <1>5 DEF Retire, disk, history, RunInv, Ending
  <2>2. ASSUME NEW k \in Claims(run.role), Exact(slots[run.role][k]),
               \/ run' = [run EXCEPT !.slot = k]
               \/ run' = [run EXCEPT !.slot = k, !.settled = FALSE],
               pc' = "empty"
        PROVE  ClaimsInv'
    <3>1. ASSUME NEW j \in Claims(run.role), j # k PROVE Owed(run.role, j)
      <4>1. slots[run.role][j] # slots[run.role][k]
        BY <1>0, <3>1 DEF UpInv, ApartInv
      <4> QED BY <1>0, <2>1, <2>2, <4>1 DEF ClaimsInv, Exact
    <3>2. run'.role = run.role /\ run'.slot = k /\ (run'.settled => run.settled)
      BY <1>0, <2>2
    <3>3. \A r \in Roles : \A j \in Claims(r) : Judged(r, j)' => Owed(r, j)
      <4> SUFFICES ASSUME NEW r \in Roles, NEW j \in Claims(r), Judged(r, j)' PROVE Owed(r, j)
        OBVIOUS
      <4>1. \/ r = run.role /\ j # k
            \/ run.settled /\ run.role = "runtime" /\ r = "settings"
        BY <2>2, <3>2 DEF Judged
      <4> QED BY <1>5, <3>1, <4>1 DEF Retire, ClaimsInv, Judged
    <3> QED BY <1>1, <2>1, <3>3 DEF ClaimsInv, Claims
  <2>3. ASSUME ~\E k \in Claims(run.role) : Exact(slots[run.role][k]),
               run' = [run EXCEPT !.role = "runtime"],
               pc' = IF run.role = "settings" THEN "retire" ELSE "unstage"
        PROVE  ClaimsInv'
    <3>1. \A j \in Claims(run.role) : Owed(run.role, j)
      BY <1>0, <2>1, <2>3 DEF ClaimsInv, Exact
    <3>2. run'.role = "runtime" /\ run'.slot = run.slot /\ run'.settled = run.settled
      BY <1>0, <2>3
    <3>3. \A r \in Roles : \A j \in Claims(r) : Judged(r, j)' => Owed(r, j)
      BY <1>0, <1>5, <2>3, <3>1, <3>2 DEF Retire, ClaimsInv, Judged
    <3> QED BY <1>1, <2>1, <3>3 DEF ClaimsInv, Claims
  <2>4. ASSUME run' = [run EXCEPT !.role = "runtime", !.settled = FALSE],
               pc' = IF run.role = "settings" THEN "retire" ELSE "unstage"
        PROVE  ClaimsInv'
    <3>1. ~run'.settled /\ pc' \in {"retire", "unstage"}
      BY <1>0, <2>4
    <3> QED BY <1>1, <2>1, <3>1 DEF ClaimsInv, Claims, Judged
  <2> QED BY <1>5, <2>2, <2>3, <2>4 DEF Retire, NextRole
<1>6. CASE Empty
  <2>1. UNCHANGED <<name, owed, complete, journal>> /\ complete /\ journal = run.plan
    BY <1>0, <1>6 DEF Empty, history, RunInv, Ending
  <2>2. \A r \in Roles : \A k \in Claims(r)' :
          k \in Claims(r) /\ slots'[r][k] = slots[r][k] /\ (Owed(r, k)' <=> Owed(r, k))
    <3>1. UNCHANGED slots \/ \E left \in {NoFile, Used} :
            slots' = [slots EXCEPT ![run.role][run.slot] = left]
      BY <1>6 DEF Empty
    <3>2. \A r \in Roles, k \in Slots : slots'[r][k] \in {slots[r][k], NoFile, Used}
      BY <1>0, <3>1
    <3> QED BY <2>1, <3>2 DEF Claims, Owed
  <2>3. \A r \in Roles : \A k \in Claims(r)' : Judged(r, k)' => Owed(r, k)
    <3>1. /\ pc' = IF run.role = "settings" THEN "retire" ELSE "unstage"
          /\ run'.role = "runtime" /\ (run'.settled => run.settled)
      BY <1>0, <1>6 DEF Empty, NextRole
    <3>2. ASSUME run'.settled, NEW r \in Roles, r = run.role, NEW k \in Claims(r)'
          PROVE  Owed(r, k)
      <4>1. k \in Claims(r)
        BY <2>2
      <4>2. CASE k # run.slot
        BY <1>0, <1>6, <3>2, <4>1, <4>2 DEF Empty, ClaimsInv, Judged
      <4>3. CASE k = run.slot
        <5>1. ~Same(slots[r][k], run.plan.old[r])
          <6>1. ASSUME NEW left \in {NoFile, Used},
                       slots' = [slots EXCEPT ![r][k] = left]
                PROVE  FALSE
            <7>1. slots'[r][k] = left
              BY <1>0, <6>1, <3>2, <4>1 DEF Claims
            <7> QED BY <3>2, <7>1 DEF Claims
          <6> QED BY <1>0, <1>6, <3>2, <4>3, <6>1 DEF Empty
        <5> QED BY <1>0, <2>1, <4>1, <5>1 DEF ClaimsInv, Same
      <4> QED BY <4>2, <4>3
    <3>3. \A k \in Claims("settings") :
            run.settled /\ run.role = "runtime" => Owed("settings", k)
      BY <1>0, <1>6 DEF Empty, ClaimsInv, Judged
    <3> SUFFICES ASSUME NEW r \in Roles, NEW k \in Claims(r)', Judged(r, k)' PROVE Owed(r, k)
      OBVIOUS
    <3>4. run'.settled /\ run.settled /\ (r = run.role \/ (r = "settings" /\ run.role = "runtime"))
      BY <1>0, <3>1 DEF Judged
    <3> QED BY <2>2, <3>2, <3>3, <3>4
  <2> QED BY <2>1, <2>2, <2>3 DEF ClaimsInv
<1>7. CASE Unstage
  <2>1. Quiet /\ UNCHANGED <<complete, journal, run>> /\ pc = "unstage" /\ pc' = "drop"
    BY <1>7 DEF Unstage, history
  <2> QED BY <1>1, <2>1 DEF ClaimsInv, Judged, Claims
<1>8. CASE Drop
  <2>1. Quiet /\ complete' = complete /\ pc = "drop" /\ pc' = "idle"
        /\ (journal' = journal \/ run.settled)
    BY <1>8 DEF Drop, Over, history
  <2> QED BY <1>1, <2>1 DEF ClaimsInv, Judged, Claims
<1>9. CASE Install \/ Rename \/ Verify \/ Write
  <2>1. /\ UNCHANGED <<owed, complete>> /\ ~complete
        /\ pc' \notin {"unstage", "drop", "empty", "retire"}
    BY <1>0, <1>9 DEF Install, Rename, Verify, Write, Over, Quietly, history, RunInv, Ending
  <2> SUFFICES /\ \A r \in Roles : \/ name'[r] = NoFile \/ name'[r].text = 2
                                   \/ <<r, name'[r].text>> \in owed
               /\ \A r \in Roles : \A k \in Claims(r)' : <<r, slots'[r][k].text>> \in owed
    BY <2>1 DEF ClaimsInv, Judged, Owed, Installed, Translated
  <2>2. /\ \A r \in Roles : name[r] = NoFile \/ name[r].text = 2 \/ <<r, name[r].text>> \in owed
        /\ \A r \in Roles : \A k \in Claims(r) : <<r, slots[r][k].text>> \in owed
    BY <2>1 DEF ClaimsInv, Owed, Installed, Translated
  <2>3. /\ \A r \in Roles : \/ name'[r] \in {name[r], NoFile, Translated}
                            \/ \E k \in Claims(r) : name'[r] = slots[r][k]
        /\ \A r \in Roles, k \in Slots : \/ slots'[r][k] \in {slots[r][k], NoFile, Used}
                                         \/ slots'[r][k] = name[r] /\ name[r].text # 2
    <3>1. CASE Install
      BY <1>0, <3>1 DEF Install, First
    <3>2. CASE Rename
      <4>1. name[run.role].text # 2
        BY <1>0, <3>2 DEF Rename, RunInv, Installed, Translated
      <4> QED BY <1>0, <3>2, <4>1 DEF Rename
    <3>3. CASE Verify
      BY <1>0, <3>3 DEF Verify, RunInv
    <3>4. CASE Write
      BY <1>0, <3>4 DEF Write
    <3> QED BY <1>9, <3>1, <3>2, <3>3, <3>4
  <2>4. \A r \in Roles : \A k \in Claims(r)' :
          k \in Slots /\ slots'[r][k] \notin {NoFile, Used}
    BY DEF Claims
  <2>5. \A r \in Roles, k \in Slots : slots[r][k] \notin {NoFile, Used} => k \in Claims(r)
    BY DEF Claims
  <2>6. ASSUME NEW r \in Roles
        PROVE  name'[r] = NoFile \/ name'[r].text = 2 \/ <<r, name'[r].text>> \in owed
    BY <2>2, <2>3 DEF Translated
  <2>7. ASSUME NEW r \in Roles, NEW k \in Claims(r)' PROVE <<r, slots'[r][k].text>> \in owed
    <3>1. slots'[r][k] = slots[r][k] \/ (slots'[r][k] = name[r] /\ name[r].text # 2)
      BY <2>3, <2>4
    <3> QED BY <2>2, <2>4, <2>5, <3>1
  <2> QED BY <2>6, <2>7
<1>10. ASSUME NEW r \in Roles, Rewrites(r) PROVE ClaimsInv'
  <2>1. UNCHANGED <<slots, journal, complete, pc, run>>
        /\ \A q \in Roles : q # r => name'[q] = name[q]
    BY <1>0, <1>10 DEF Rewrites, Replaces, Writes
  <2>2. \A o \in owed : o # <<r, name[r].text>> => o \in owed'
    BY <1>10 DEF Rewrites, Replaces, Writes
  <2>3. name'[r] = NoFile \/ <<r, name'[r].text>> \in owed'
    <3>1. CASE Replaces(r)
      BY <1>0, <3>1 DEF Replaces
    <3>2. CASE Writes(r)
      <4>1. \A kept \in BOOLEAN : Edited(name[r], kept).text = New
        BY <1>0, NewIsNew, EditedIsAFile
      <4> QED BY <1>0, <3>2, <4>1 DEF Writes
    <3> QED BY <1>10, <3>1, <3>2 DEF Rewrites
  <2>4. \A q \in Roles : \A k \in Claims(q) : Owed(q, k) => Owed(q, k)'
    BY <2>1, <2>2 DEF Owed, UpInv, ApartInv
  <2>5. \A q \in Roles : Claims(q)' = Claims(q) /\ \A k \in Slots : Judged(q, k)' <=> Judged(q, k)
    BY <2>1 DEF Claims, Judged
  <2>6. \A q \in Roles : q # r =>
          (~complete => name'[q] = NoFile \/ Installed(q)' \/ <<q, name'[q].text>> \in owed')
    BY <2>1, <2>2 DEF ClaimsInv, Installed
  <2> QED BY <2>1, <2>3, <2>4, <2>5, <2>6 DEF ClaimsInv, Claims
<1>11. ASSUME NEW r \in Roles, NEW k \in Slots, WritesLate(r, k) PROVE ClaimsInv'
  <2>1. UNCHANGED <<name, journal, complete, pc, run>> /\ k \in Claims(r)
        /\ owed' = (owed \ {<<r, slots[r][k].text>>}) \cup {<<r, New>>}
    BY <1>11 DEF WritesLate
  <2>2. \A kept \in BOOLEAN : Edited(slots[r][k], kept).text = New
    BY <1>0, NewIsNew, EditedIsAFile
  <2>3. slots'[r][k].text = New
        /\ \A q \in Roles, j \in Slots : ~(q = r /\ j = k) => slots'[q][j] = slots[q][j]
    BY <1>0, <1>11, <2>2 DEF WritesLate
  <2>4. \A q \in Roles : \A j \in Claims(q)' : j \in Claims(q)
    BY <2>1, <2>3 DEF Claims
  <2>5. Owed(r, k)'
    BY <2>1, <2>3 DEF Owed
  <2>6. \A q \in Roles : \A j \in Claims(q) : Owed(q, j) => Owed(q, j)'
    <3> SUFFICES ASSUME NEW q \in Roles, NEW j \in Claims(q), Owed(q, j), ~(q = r /\ j = k)
                 PROVE  Owed(q, j)'
      BY <2>5
    <3>1. j \in Slots /\ slots'[q][j] = slots[q][j]
      BY <2>3 DEF Claims
    <3>2. <<q, slots[q][j].text>> # <<r, slots[r][k].text>>
      BY <2>1 DEF UpInv, ApartInv
    <3> QED BY <2>1, <3>1, <3>2 DEF Owed
  <2>7. \A q \in Roles :
          ~complete => name[q] = NoFile \/ Installed(q) \/ <<q, name[q].text>> \in owed'
    BY <2>1 DEF ClaimsInv, UpInv, ApartInv
  <2>8. \A q \in Roles, j \in Slots : Judged(q, j)' <=> Judged(q, j)
    BY <2>1 DEF Judged
  <2> QED BY <2>1, <2>3, <2>4, <2>5, <2>6, <2>7, <2>8 DEF ClaimsInv, Claims, Installed
<1> QED
  BY <1>2, <1>3, <1>4, <1>5, <1>6, <1>7, <1>8, <1>9, <1>10, <1>11
     DEF Next, Steps, Others, Rewrites

\* (3) While a claim is to be emptied on the journal's word the journal is there: only a
\* run that has looked at every slot drops it, whatever failed in between.
THEOREM JournalGoesLast == Spec => []JournalOutlivesClaims
<1>1. Init => ClaimsInv
  BY DEF Init, ClaimsInv, Claims, Earlier
<1>2. UpInv /\ ClaimsInv /\ [Next]_vars => ClaimsInv'
  <2> SUFFICES ASSUME UpInv, ClaimsInv, [Next]_vars PROVE ClaimsInv'
    OBVIOUS
  <2>1. CASE UNCHANGED vars
    BY <2>1 DEF vars, disk, world, history, ClaimsInv, Claims, Owed, Installed, Judged
  <2> QED BY <2>1, ClaimsStep
<1>3. UpInv /\ ClaimsInv => JournalOutlivesClaims
  <2> SUFFICES ASSUME UpInv, ClaimsInv, complete, journal = NoPlan,
                      NEW r \in Roles, NEW k \in Claims(r)
               PROVE  Owed(r, k)
    BY DEF JournalOutlivesClaims, Owed
  <2>1. slots[r][k] # journal.old[r]
    BY Constants DEF Claims
  <2> QED BY <2>1 DEF ClaimsInv
<1> QED BY <1>1, <1>2, <1>3, UpgradeInvariant, PTL DEF Spec

-----------------------------------------------------------------------------
(* The way to resume.                                                      *)

Begun == ~touched /\ ~complete

Holding(r, k) == pc \in {"check", "rename"} /\ run.role = r /\ run.slot = k

\* A file nobody has claimed yet, and the slots that stopped runs made for it.
Waiting(r) ==
  /\ name[r] = journal.old[r] /\ name[r] # NoFile /\ Claims(r) = {}
  /\ \A k \in Slots :
       slots[r][k] = NoFile \/ k <= stops \/ (Holding(r, k) /\ k = stops + 1)

ResumeInv ==
  Begun =>
    /\ pc # "idle" => run.plan.authored = authored
    /\ pc = "planned" => \A r \in Roles : name[r] = run.plan.old[r] /\ name[r] # NoFile
    /\ journal # NoPlan =>
         /\ journal.authored = authored
         /\ \A r \in Roles : Installed(r) \/ Claimed(r, journal) \/ Waiting(r)
    /\ pc \in {"check", "rename"} => Waiting(run.role)
    /\ pc \in {"verify", "write"} => Claimed(run.role, journal)

LEMMA ResumeStep ==
  ASSUME UpInv, ResumeInv, Next PROVE ResumeInv'
<1> SUFFICES ASSUME Begun' PROVE ResumeInv'
  BY DEF ResumeInv
<1> USE DEF GoTo, Mine
<1>0. /\ run.role \in Roles /\ run.slot \in Slots /\ stops \in Nat /\ Slots \subseteq Nat
      /\ name \in [Roles -> File] /\ slots \in [Roles -> [Slots -> File]]
      /\ run \in [plan : Plan, role : Roles, slot : Slots, later : BOOLEAN, settled : BOOLEAN]
      /\ RunInv
  BY Constants DEF UpInv, TypeOK
<1>1. ~Start => Begun
  BY DEF Begun, Next, Steps, Others, WriteJournal, Prepare, Install, Check, Rename, Verify,
         Write, Reread, PublishManifest, PublishStage, Snapshot, Prove, Commit, Confirm,
         Retire, Empty, Unstage, Drop, Stop, Authors, Replaces, Writes, WritesLate, Change,
         Quietly, disk, history
<1> DEFINE Stays == UNCHANGED <<name, slots, journal, authored>>
<1>2. Stays => \A r \in Roles :
        /\ Installed(r)' <=> Installed(r)
        /\ Claimed(r, journal)' <=> Claimed(r, journal)
        /\ Claims(r)' = Claims(r)
  BY DEF Installed, Claimed, Claims, Altered, Same
<1>3. CASE Start
  <2>1. CASE journal # NoPlan
    <3>1. Begun /\ Stays /\ pc = "idle" /\ pc' = "prepare" /\ run'.plan = journal
          /\ stops' = stops
      BY <1>3, <2>1 DEF Start, Begun, disk, world, Idle
    <3>2. \A r \in Roles : Waiting(r) => Waiting(r)'
      BY <1>2, <3>1 DEF Waiting, Holding
    <3> QED BY <1>2, <2>1, <3>1, <3>2 DEF ResumeInv
  <2>2. CASE journal = NoPlan
    <3>1. Stays /\ pc' = "planned" /\ run'.plan = [old |-> name, authored |-> authored]
          /\ \A r \in Roles : name[r] # NoFile
      BY <1>3, <2>2 DEF Start, Begun, disk, world, Idle
    <3>2. run'.plan.authored = authored /\ \A r \in Roles : run'.plan.old[r] = name[r]
      BY <3>1
    <3> QED BY <2>2, <3>1, <3>2 DEF ResumeInv
  <2> QED BY <2>1, <2>2
<1>4. CASE WriteJournal
  <2>1. /\ journal' = run.plan /\ pc' = "prepare" /\ pc = "planned" /\ run.plan.authored = authored
        /\ UNCHANGED <<name, slots, run, authored>>
        /\ \A r \in Roles : name[r] = run.plan.old[r] /\ name[r] # NoFile
        /\ \A r \in Roles : \A k \in Slots : slots[r][k] = NoFile
    BY <1>1, <1>4 DEF WriteJournal, ResumeInv, Quietly, world, Unused, Start
  <2>2. \A r \in Roles : Waiting(r)'
    BY <2>1 DEF Waiting, Claims
  <2> QED BY <2>1, <2>2 DEF ResumeInv
<1>5. CASE Prepare \/ Reread \/ PublishManifest \/ PublishStage \/ Snapshot \/ Prove
  <2>1. Stays /\ stops' = stops /\ pc \notin {"idle", "planned", "check", "rename", "verify", "write"}
    BY <1>5 DEF Prepare, Reread, PublishManifest, PublishStage, Snapshot, Prove, disk,
           Quietly, world
  <2>2. pc' \notin {"planned", "check", "rename", "verify", "write"}
    BY <1>5 DEF Prepare, Reread, PublishManifest, PublishStage, Snapshot, Prove, Over
  <2>3. pc' # "idle" => run'.plan = run.plan
    BY <1>0, <1>5 DEF Prepare, Reread, PublishManifest, PublishStage, Snapshot, Prove, Over
  <2>4. \A r \in Roles : Waiting(r) => Waiting(r)'
    BY <1>2, <2>1 DEF Waiting, Holding
  <2>5. Begun
    BY <1>1, <2>1 DEF Start
  <2> QED BY <1>2, <2>1, <2>2, <2>3, <2>4, <2>5 DEF ResumeInv
<1>6. CASE Check
  <2>1. Begun /\ Stays /\ stops' = stops /\ pc = "check" /\ journal = run.plan
        /\ journal # NoPlan
    BY <1>0, <1>1, <1>6 DEF Check, Start, RunInv, disk, Quietly, world
  <2>2. Waiting(run.role)
    BY <2>1 DEF ResumeInv
  <2>3. pc' = "rename" /\ run' = run
    BY <1>6, <2>1, <2>2 DEF Check, Waiting, Same
  <2>4. \A r \in Roles : Waiting(r) => Waiting(r)'
    BY <1>2, <2>1, <2>3 DEF Waiting, Holding
  <2> QED BY <1>0, <1>2, <2>1, <2>2, <2>3, <2>4 DEF ResumeInv
<1>7. CASE Install
  <2>1. /\ Begun /\ pc = "install" /\ journal = run.plan /\ journal # NoPlan
        /\ UNCHANGED <<name, journal, authored, stops>>
    BY <1>0, <1>1, <1>7 DEF Install, Start, RunInv, Quietly, world
  <2>2. CASE UNCHANGED slots /\ pc' \in {"idle", "installed", "write"} /\
             (pc' # "idle" => run' = run) /\ (pc' = "write" => Claimed(run.role, run.plan))
    <3>1. \A r \in Roles : Waiting(r) => Waiting(r)'
      BY <1>2, <2>1, <2>2 DEF Waiting, Holding
    <3> QED BY <1>0, <1>2, <2>1, <2>2, <3>1 DEF ResumeInv
  <2>3. ASSUME NEW k \in First(Unused(run.role)), Claimable(run.role, run.plan),
               slots' = [slots EXCEPT ![run.role][k] = Used],
               run' = [run EXCEPT !.slot = k], pc' = "check"
        PROVE  ResumeInv'
    <3>1. /\ k \in Slots /\ slots[run.role][k] = NoFile
          /\ \A j \in Slots : slots[run.role][j] = NoFile => k <= j
      BY DEF First, Unused
    <3>2. run'.role = run.role /\ run'.slot = k /\ run'.plan = run.plan
      BY <1>0, <2>3
    <3>3. \A r \in Roles, j \in Slots :
            slots'[r][j] = IF r = run.role /\ j = k THEN Used ELSE slots[r][j]
      BY <1>0, <2>3, <3>1
    <3>4. \A r \in Roles : Claims(r)' = Claims(r)
      BY <3>1, <3>3 DEF Claims
    <3>5. Waiting(run.role)
      <4>1. ~Installed(run.role)
        BY <1>0, <2>3 DEF Claimable, Installed, Translated, UpInv, PlanInv
      <4>2. ~Claimed(run.role, journal)
        BY <2>3 DEF Claimable, Claimed
      <4> QED BY <1>0, <2>1, <4>1, <4>2 DEF ResumeInv
    <3>6. k <= stops \/ k = stops + 1
      <4>1. CASE stops + 1 \in Slots
        <5>1. slots[run.role][stops + 1] = NoFile
          BY <1>0, <2>1, <3>5, <4>1 DEF Waiting, Holding
        <5> QED BY <1>0, <3>1, <4>1, <5>1
      <4>2. CASE stops + 1 \notin Slots
        BY <1>0, <3>1, <4>2 DEF Slots
      <4> QED BY <4>1, <4>2
    <3>7. \A r \in Roles : Waiting(r) => Waiting(r)'
      <4> SUFFICES ASSUME NEW r \in Roles, Waiting(r), NEW j \in Slots
          PROVE  slots'[r][j] = NoFile \/ j <= stops \/ (Holding(r, j)' /\ j = stops + 1)
        BY <2>1, <3>4 DEF Waiting
      <4>1. CASE r = run.role /\ j = k
        BY <2>3, <3>2, <3>6, <4>1 DEF Holding
      <4>2. CASE ~(r = run.role /\ j = k)
        BY <2>1, <3>3, <4>2 DEF Waiting, Holding
      <4> QED BY <4>1, <4>2
    <3>8. \A r \in Roles :
            (Installed(r)' <=> Installed(r)) /\ (Claimed(r, journal)' <=> Claimed(r, journal))
      <4>1. \A r \in Roles : \A j \in Claims(r) : slots'[r][j] = slots[r][j]
        BY <3>1, <3>3 DEF Claims
      <4> QED BY <2>1, <3>4, <4>1 DEF Installed, Claimed, Altered
    <3>9. Waiting(run.role)'
      BY <1>0, <3>2, <3>5, <3>7
    <3> QED BY <2>1, <2>3, <3>2, <3>7, <3>8, <3>9 DEF ResumeInv
  <2> QED BY <1>7, <2>2, <2>3 DEF Install, Over
<1>8. CASE Rename
  <2>1. /\ Begun /\ pc = "rename" /\ journal = run.plan /\ journal # NoPlan
        /\ UNCHANGED <<journal, authored, stops>>
    BY <1>0, <1>1, <1>8 DEF Rename, Start, RunInv, Quietly, world
  <2>2. Waiting(run.role)
    BY <2>1 DEF ResumeInv
  <2>3. /\ slots' = [slots EXCEPT ![run.role][run.slot] = name[run.role]]
        /\ name' = [name EXCEPT ![run.role] = NoFile]
        /\ pc' = "verify" /\ run' = run
    BY <1>8, <2>2 DEF Rename, Waiting
  <2>4. name[run.role] \notin {NoFile, Used} /\ name[run.role] = journal.old[run.role]
    BY <1>0, <2>2, Constants DEF Waiting, UpInv, FilesInv
  <2>5. Claimed(run.role, journal)'
    <3>1. name'[run.role] = NoFile /\ slots'[run.role][run.slot] = name[run.role]
          /\ \A k \in Slots : k # run.slot => slots'[run.role][k] = slots[run.role][k]
      BY <1>0, <2>3
    <3>2. \A k \in Slots : slots[run.role][k] \in {NoFile, Used}
      BY <2>2 DEF Waiting, Claims
    <3>3. Claims(run.role)' = {run.slot}
      BY <1>0, <2>3, <2>4, <3>1, <3>2 DEF Claims
    <3> QED BY <2>1, <2>3, <2>4, <3>1, <3>3 DEF Claimed, Altered, Same
  <2>6. ASSUME NEW r \in Roles, r # run.role
        PROVE  /\ Installed(r)' <=> Installed(r)
               /\ Claimed(r, journal)' <=> Claimed(r, journal)
               /\ Waiting(r) => Waiting(r)'
    <3>1. name'[r] = name[r] /\ \A k \in Slots : slots'[r][k] = slots[r][k]
      BY <1>0, <2>3, <2>6
    <3>2. Claims(r)' = Claims(r)
      BY <3>1 DEF Claims
    <3> QED BY <2>1, <2>6, <3>1, <3>2 DEF Installed, Claimed, Claims, Altered, Waiting, Holding
  <2>7. \A r \in Roles : Installed(r)' \/ Claimed(r, journal)' \/ Waiting(r)'
    <3> SUFFICES ASSUME NEW r \in Roles PROVE Installed(r)' \/ Claimed(r, journal)' \/ Waiting(r)'
      OBVIOUS
    <3>1. CASE r = run.role
      BY <2>3, <2>5, <3>1
    <3>2. CASE r # run.role
      BY <2>1, <2>6, <3>2 DEF ResumeInv
    <3> QED BY <3>1, <3>2
  <2> QED BY <1>0, <2>1, <2>3, <2>5, <2>7 DEF ResumeInv
<1>9. CASE Verify
  <2>1. /\ Begun /\ pc = "verify" /\ journal = run.plan /\ journal # NoPlan
        /\ UNCHANGED <<journal, authored, stops>> /\ run.slot \in Claims(run.role)
    BY <1>0, <1>1, <1>9 DEF Verify, Start, RunInv, Quietly, world
  <2>2. Claimed(run.role, journal)
    BY <2>1 DEF ResumeInv
  <2>3. UNCHANGED <<name, slots, run>> /\ pc' = "write"
    BY <1>9, <2>1, <2>2 DEF Verify, Claimed, Altered
  <2>4. \A r \in Roles : Waiting(r) => Waiting(r)'
    BY <1>2, <2>1, <2>3 DEF Waiting, Holding
  <2> QED BY <1>0, <1>2, <2>1, <2>2, <2>3, <2>4 DEF ResumeInv
<1>10. CASE Write
  <2>1. /\ Begun /\ pc = "write" /\ journal = run.plan /\ journal # NoPlan
        /\ UNCHANGED <<slots, journal, authored, stops>> /\ pc' \in {"reread", "idle"}
        /\ (pc' = "reread" => run' = run)
        /\ name' = name \/ name' = [name EXCEPT ![run.role] = Translated]
    BY <1>0, <1>1, <1>10 DEF Write, Over, Start, RunInv, Quietly, world
  <2>2. ASSUME NEW r \in Roles PROVE Installed(r)' \/ Claimed(r, journal)' \/ Waiting(r)'
    <3>1. CASE name'[r] = name[r]
      <4>1. Claims(r)' = Claims(r)
        BY <2>1 DEF Claims
      <4> QED BY <2>1, <3>1, <4>1 DEF ResumeInv, Installed, Claimed, Altered, Waiting, Holding, Claims
    <3>2. CASE name'[r] # name[r]
      BY <1>0, <2>1, <3>2 DEF Installed
    <3> QED BY <3>1, <3>2
  <2> QED BY <2>1, <2>2 DEF ResumeInv
<1>11. CASE Stop
  <2>1. Begun /\ Stays /\ stops' = stops + 1 /\ pc' = "idle"
    BY <1>1, <1>11 DEF Stop, Stops, Over, Start, disk, world
  <2>2. \A r \in Roles : Waiting(r) => Waiting(r)'
    <3> SUFFICES ASSUME NEW r \in Roles, Waiting(r), NEW k \in Slots
                 PROVE  slots[r][k] = NoFile \/ k <= stops + 1
      BY <1>2, <2>1 DEF Waiting
    <3> QED BY <1>0 DEF Waiting
  <2> QED BY <1>2, <2>1, <2>2 DEF ResumeInv
<1>12. ~(Commit \/ Confirm \/ Retire \/ Empty \/ Unstage \/ Drop)
  BY <1>0, <1>1 DEF Begun, Commit, Confirm, Retire, Empty, Unstage, Drop, Start, RunInv, Ending
<1>13. ~Others
  BY DEF Begun, Others, Authors, Replaces, Writes, WritesLate, Change
<1> QED
  BY <1>3, <1>4, <1>5, <1>6, <1>7, <1>8, <1>9, <1>10, <1>11, <1>12, <1>13 DEF Next, Steps

\* (2) An upgrade that stopped can be carried on, if nobody has changed anything since it
\* was planned and it has not stopped as often as there are slots: of a claim slot made
\* and not filled there is one for each stop.
THEOREM ResumeWorks == Spec => []ResumeIsPossible
<1>1. Init => ResumeInv
  BY DEF Init, ResumeInv
<1>2. UpInv /\ ResumeInv /\ [Next]_vars => ResumeInv'
  <2> SUFFICES ASSUME UpInv, ResumeInv, [Next]_vars PROVE ResumeInv'
    OBVIOUS
  <2>1. CASE UNCHANGED vars
    BY <2>1 DEF vars, disk, world, history, ResumeInv, Begun, Claims, Installed, Claimed,
           Waiting, Holding, Altered
  <2> QED BY <2>1, ResumeStep
<1>3. UpInv /\ ResumeInv => ResumeIsPossible
  <2> SUFFICES ASSUME UpInv, ResumeInv, pc = "idle", journal # NoPlan, Begun, stops < MaxSlots
               PROVE  journal.authored = authored /\ \A r \in Roles : Replaceable(r, journal)
    BY DEF ResumeIsPossible, Begun
  <2>1. stops + 1 \in Slots /\ ~(stops + 1 <= stops)
    BY DEF Slots, UpInv, TypeOK
  <2>2. ASSUME NEW r \in Roles, Waiting(r) PROVE Claimable(r, journal)
    <3>1. slots[r][stops + 1] = NoFile
      BY <2>1, <2>2 DEF Waiting, Holding
    <3> QED BY <2>1, <2>2, <3>1 DEF Waiting, Claimable, Unused
  <2> QED BY <2>2 DEF ResumeInv, Replaceable
<1> QED BY <1>1, <1>2, <1>3, UpgradeInvariant, PTL DEF Spec
=============================================================================
