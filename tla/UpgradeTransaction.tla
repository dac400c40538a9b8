------------------------- MODULE UpgradeTransaction -------------------------
(***************************************************************************)
(* Migrating a deployed profile in place: the settings and the runtime     *)
(* document of an earlier version are replaced by what a journal says they *)
(* become, and a completion marker ends it.  Whoever runs it holds the     *)
(* profile's lock and every lock of this version's writers, so there is    *)
(* one run at a time.  It may stop anywhere, and the next start resumes.   *)
(*                                                                         *)
(* Programs of the earlier version and editors take none of those locks.   *)
(* A file is therefore replaced by moving exactly the journaled file into  *)
(* a private claim slot and writing the new one where nothing is.  Slots   *)
(* are bounded, and one that was made and not filled is never used again.  *)
(* Once the marker is written, the claims that still hold exactly what was *)
(* translated are emptied, and the journal, which is the proof, goes last. *)
(***************************************************************************)
EXTENDS Naturals

CONSTANTS
  MaxSlots,          \* MAX_CLAIM_TOKEN_ATTEMPTS
  MaxEdits, MaxStops \* bounds of the checked runs

ASSUME UpgradeAssumption == MaxSlots \in Nat \ {0} /\ MaxEdits \in Nat /\ MaxStops \in Nat

VARIABLES
  name,      \* the file at each public name
  slots,     \* what each claim slot holds
  journal,   \* what was planned
  complete,  \* the completion marker
  made,      \* what else was published, stage last
  authored,  \* changes of the stores the plan has read
  pc, run,   \* the run's step and what it works on
  edits, stops,
  owed,      \* (history) texts nobody but the transaction has taken away, by role
  touched    \* (history) somebody has changed something since the plan was made

disk    == <<name, slots, journal, complete, made>>
world   == <<authored, edits>>
history == <<owed, touched>>
vars    == <<disk, world, pc, run, stops, history>>

Roles  == {"settings", "runtime"}
Slots  == 1..MaxSlots

\* stamp: size and modification time.  text 1: the earlier version's; 2: its
\* translation; the others are somebody's edits.
NoFile     == [ino |-> 0, stamp |-> 0, text |-> 0]
Used       == [ino |-> 0, stamp |-> 1, text |-> 0]
Earlier    == [ino |-> 1, stamp |-> 1, text |-> 1]
Translated == [ino |-> 2, stamp |-> 2, text |-> 2]
Fresh(n)   == [ino |-> n, stamp |-> n, text |-> n]

NoPlan == [old |-> [r \in Roles |-> NoFile], authored |-> 0]
Idle   == [plan |-> NoPlan, role |-> "settings", slot |-> 1, later |-> FALSE, settled |-> TRUE]

Init ==
  /\ name = [r \in Roles |-> Earlier]
  /\ slots = [r \in Roles |-> [k \in Slots |-> NoFile]]
  /\ journal = NoPlan /\ complete = FALSE /\ made = {}
  /\ authored = 0 /\ edits = 0 /\ stops = 0
  /\ pc = "idle" /\ run = Idle
  /\ owed = Roles \X {1}
  /\ touched = FALSE

-----------------------------------------------------------------------------
Same(f, g)    == f.ino = g.ino /\ f.stamp = g.stamp
Claims(r)     == {k \in Slots : slots[r][k] \notin {NoFile, Used}}
Unused(r)     == {k \in Slots : slots[r][k] = NoFile}
First(S)      == {k \in S : \A j \in S : k <= j}

\* _recover_claim_slots: every slot is looked at, and an altered claim is an error.
Altered(r, p) == \E k \in Claims(r) : ~Same(slots[r][k], p.old[r])

\* Mutant: a claim is looked for in the first slot only.
ClaimedFirst(r, p) == name[r] = NoFile /\ 1 \in Claims(r) /\ ~Altered(r, p)

\* What _install_exact_replacement finds, and the read-only probe before it: the new
\* file, the old one in its claim and nothing at the name, or the old one at the name.
Installed(r)     == name[r].text = Translated.text
Claimed(r, p)    == name[r] = NoFile /\ Claims(r) # {} /\ ~Altered(r, p)
Claimable(r, p)  == name[r] = p.old[r] /\ Claims(r) = {} /\ Unused(r) # {}
Replaceable(r, p) == Installed(r) \/ Claimed(r, p) \/ Claimable(r, p)

GoTo(step)  == pc' = step

Over        == pc' = "idle" /\ run' = Idle
Stops       == stops < MaxStops /\ stops' = stops + 1
Mine        == run.role
Quietly     == UNCHANGED <<world, stops, history>>

-----------------------------------------------------------------------------
(* Starting: the probe, the plan and the journal.                          *)

\* Mutant: a completed upgrade has nothing left to do.
StartOpen ==
  /\ pc = "idle" /\ ~complete
  /\ \/ /\ journal # NoPlan
        /\ journal.authored = authored /\ \A r \in Roles : Replaceable(r, journal)
        /\ run' = [Idle EXCEPT !.plan = journal] /\ GoTo("prepare")
        /\ UNCHANGED touched
     \/ /\ journal = NoPlan /\ NoFile \notin {name[r] : r \in Roles}
        /\ run' = [Idle EXCEPT !.plan = [old |-> name, authored |-> authored]]
        /\ GoTo("planned")
        /\ touched' = FALSE
  /\ UNCHANGED <<disk, world, stops, owed>>

\* A completed upgrade is cleaned up after; one that was begun is resumed if it still
\* can be; else a profile of the earlier version is planned for.
Start ==
  /\ pc = "idle"
  /\ \/ /\ complete /\ journal # NoPlan
        /\ run' = [Idle EXCEPT !.plan = journal, !.later = TRUE] /\ GoTo("retire")
        /\ UNCHANGED touched
     \/ /\ ~complete /\ journal # NoPlan
        /\ journal.authored = authored /\ \A r \in Roles : Replaceable(r, journal)
        /\ run' = [Idle EXCEPT !.plan = journal] /\ GoTo("prepare")
        /\ UNCHANGED touched
     \/ /\ ~complete /\ journal = NoPlan /\ NoFile \notin {name[r] : r \in Roles}
        /\ run' = [Idle EXCEPT !.plan = [old |-> name, authored |-> authored]]
        /\ touched' = FALSE
        /\ GoTo("planned")
  /\ UNCHANGED <<disk, world, stops, owed>>

\* No slot of the new operation may exist before its journal does.
WriteJournal ==
  /\ pc = "planned"
  /\ \A r \in Roles : Unused(r) = Slots
  /\ journal' = run.plan
  /\ GoTo("prepare")
  /\ UNCHANGED <<name, slots, complete, made, run>> /\ Quietly

Unchanged == authored = run.plan.authored

\* The evidence is proved again, and the captures get their sidecars.
Prepare ==
  /\ pc = "prepare"
  /\ \/ Unchanged /\ made' = made \cup {"sidecars"} /\ GoTo("install") /\ UNCHANGED run
     \/ ~Unchanged /\ Over /\ UNCHANGED made
  /\ UNCHANGED <<name, slots, journal, complete>> /\ Quietly

-----------------------------------------------------------------------------
(* One exact replacement.                                                  *)

\* The old file is pinned and a slot made for it, unless a run that stopped had
\* claimed it already, or had gone on to write the new one.
Install ==
  LET r == Mine IN
  /\ pc = "install"
  /\ \/ Installed(r) /\ GoTo("installed") /\ UNCHANGED <<slots, run>>
     \/ Claimed(r, run.plan) /\ GoTo("write") /\ UNCHANGED <<slots, run>>
     \/ /\ Claimable(r, run.plan)
        /\ \E k \in First(Unused(r)) :
             /\ slots' = [slots EXCEPT ![r][k] = Used]
             /\ run' = [run EXCEPT !.slot = k]
        /\ GoTo("check")
     \/ ~Replaceable(r, run.plan) /\ Over /\ UNCHANGED slots
  /\ UNCHANGED <<name, journal, complete, made>> /\ Quietly

Check ==
  /\ pc = "check"
  /\ \/ Same(name[Mine], run.plan.old[Mine]) /\ GoTo("rename") /\ UNCHANGED run
     \/ ~Same(name[Mine], run.plan.old[Mine]) /\ Over
  /\ UNCHANGED disk /\ Quietly

\* The rename takes whatever has the name by then.
Rename ==
  LET r == Mine IN
  /\ pc = "rename"
  /\ \/ /\ name[r] # NoFile
        /\ slots' = [slots EXCEPT ![r][run.slot] = name[r]]
        /\ name' = [name EXCEPT ![r] = NoFile]
        /\ GoTo("verify") /\ UNCHANGED run
     \/ name[r] = NoFile /\ Over /\ UNCHANGED <<name, slots>>
  /\ UNCHANGED <<journal, complete, made>> /\ Quietly

\* Another file goes back where nothing has come meanwhile, or stays in the slot.
Verify ==
  LET r == Mine
      same == Same(slots[r][run.slot], run.plan.old[r])
  IN
  /\ pc = "verify"
  /\ \/ same /\ GoTo("write") /\ UNCHANGED <<name, slots, run>>
     \/ /\ ~same /\ name[r] = NoFile
        /\ name' = [name EXCEPT ![r] = slots[r][run.slot]]
        /\ slots' = [slots EXCEPT ![r][run.slot] = Used]
        /\ Over
     \/ ~same /\ name[r] # NoFile /\ Over /\ UNCHANGED <<name, slots>>
  /\ UNCHANGED <<journal, complete, made>> /\ Quietly

\* write_atomic_text(replace_existing=False).  On failure the claim stays: the next run
\* finds it.
Write ==
  /\ pc = "write"
  /\ \/ /\ name[Mine] = NoFile
        /\ name' = [name EXCEPT ![Mine] = Translated]
        /\ GoTo("reread") /\ UNCHANGED run
     \/ name[Mine] # NoFile /\ Over /\ UNCHANGED name
  /\ UNCHANGED <<slots, journal, complete, made>> /\ Quietly

Reread ==
  /\ pc = "reread"
  /\ \/ Installed(Mine) /\ GoTo("installed") /\ UNCHANGED run
     \/ ~Installed(Mine) /\ Over
  /\ UNCHANGED disk /\ Quietly

-----------------------------------------------------------------------------
(* After the settings the manifest and the stage, after the runtime the    *)
(* marker.                                                                 *)

PublishManifest ==
  /\ pc = "installed" /\ Mine = "settings"
  /\ made' = made \cup {"manifest"}
  /\ GoTo("stage")
  /\ UNCHANGED <<name, slots, journal, complete, run>> /\ Quietly

PublishStage ==
  /\ pc = "stage"
  /\ made' = made \cup {"stage"}
  /\ GoTo("snapshot")
  /\ UNCHANGED <<name, slots, journal, complete, run>> /\ Quietly

\* _validate_cutover_snapshot, before the runtime is replaced ...
Snapshot ==
  /\ pc = "snapshot"
  /\ \/ /\ Unchanged /\ Installed("settings")
        /\ run' = [run EXCEPT !.role = "runtime"] /\ GoTo("install")
     \/ ~(Unchanged /\ Installed("settings")) /\ Over
  /\ UNCHANGED disk /\ Quietly

\* ... and after, with the runtime itself.
Prove ==
  /\ pc = "installed" /\ Mine = "runtime"
  /\ \/ Unchanged /\ (\A r \in Roles : Installed(r)) /\ GoTo("commit") /\ UNCHANGED run
     \/ ~(Unchanged /\ \A r \in Roles : Installed(r)) /\ Over
  /\ UNCHANGED disk /\ Quietly

\* What was translated is only an older copy from here on.
Commit ==
  /\ pc = "commit"
  /\ complete' = TRUE
  /\ owed' = owed \ {<<r, run.plan.old[r].text>> : r \in Roles}
  /\ GoTo("confirm")
  /\ UNCHANGED <<name, slots, journal, made, world, run, stops, touched>>

\* _validate_published_completion: an edit that came in between leaves the cleaning
\* to a later start.
Confirm ==
  /\ pc = "confirm"
  /\ \/ /\ Unchanged /\ \A r \in Roles : Installed(r)
        /\ run' = [run EXCEPT !.role = "settings"] /\ GoTo("retire")
     \/ ~(Unchanged /\ \A r \in Roles : Installed(r)) /\ Over
  /\ UNCHANGED disk /\ Quietly

-----------------------------------------------------------------------------
(* What is left over.                                                      *)

\* Mutant: the file's identity and time are proof enough.
ExactByStamp(f) == Same(f, run.plan.old[Mine])
Exact(f) == f = run.plan.old[Mine]

NextRole == GoTo(IF Mine = "settings" THEN "retire" ELSE "unstage")

\* Each slot is proved by its whole contents; there can be one exact predecessor.  One
\* that cannot be looked at now keeps the journal.
Retire ==
  /\ pc = "retire"
  /\ \/ \E k \in Claims(Mine) :
          /\ Exact(slots[Mine][k]) /\ GoTo("empty")
          /\ \/ run' = [run EXCEPT !.slot = k] /\ UNCHANGED stops
             \/ run' = [run EXCEPT !.slot = k, !.settled = FALSE] /\ Stops
     \/ /\ ~\E k \in Claims(Mine) : Exact(slots[Mine][k])
        /\ run' = [run EXCEPT !.role = "runtime"] /\ NextRole
        /\ UNCHANGED stops
     \/ /\ Stops
        /\ run' = [run EXCEPT !.role = "runtime", !.settled = FALSE] /\ NextRole
  /\ UNCHANGED <<disk, world, history>>

\* ClaimedPath.discard looks at the file once more; its directory may be left behind.
Empty ==
  LET f == slots[Mine][run.slot]
      changed == ~Same(f, run.plan.old[Mine])
  IN
  /\ pc = "empty"
  /\ \/ /\ ~changed
        /\ \E left \in {NoFile, Used} : slots' = [slots EXCEPT ![Mine][run.slot] = left]
        /\ run' = [run EXCEPT !.role = "runtime"] /\ NextRole
        /\ UNCHANGED stops
     \/ /\ changed
        /\ run' = [run EXCEPT !.role = "runtime"] /\ NextRole
        /\ UNCHANGED <<slots, stops>>
     \/ /\ Stops
        /\ run' = [run EXCEPT !.role = "runtime", !.settled = FALSE] /\ NextRole
        /\ UNCHANGED slots
  /\ UNCHANGED <<name, journal, complete, made, world, history>>

\* _discard_exact_artifact swallows its errors.
Unstage ==
  /\ pc = "unstage"
  /\ \/ made' = made \ {"stage"} /\ UNCHANGED stops
     \/ Stops /\ UNCHANGED made
  /\ GoTo("drop")
  /\ UNCHANGED <<name, slots, journal, complete, world, run, history>>

\* Mutant: the journal goes whatever became of the claims.
DropAnyway ==
  /\ pc = "drop"
  /\ journal' = NoPlan
  /\ Over
  /\ UNCHANGED <<name, slots, complete, made>> /\ Quietly

\* The proof goes last, and only when there is nothing left to prove; a later start
\* keeps it for the stage too.
Drop ==
  LET done == run.settled /\ (run.later => "stage" \notin made) IN
  /\ pc = "drop"
  /\ \/ done /\ journal' = NoPlan /\ UNCHANGED stops
     \/ ~done /\ UNCHANGED <<journal, stops>>
     \/ Stops /\ UNCHANGED journal
  /\ Over
  /\ UNCHANGED <<name, slots, complete, made, world, history>>

-----------------------------------------------------------------------------
\* The run dies, or a call fails: either way it ends where it is.
Stop ==
  /\ pc # "idle"
  /\ Stops /\ Over
  /\ UNCHANGED <<disk, world, history>>

(* Programs of the earlier version, editors, and the person.               *)

Change == edits < MaxEdits /\ edits' = edits + 1 /\ touched' = TRUE
New == edits + 3

\* A file is put at a public name by a rename, or taken away.
Replaces(r) ==
  /\ Change
  /\ \E f \in {Fresh(New), NoFile} :
       /\ name' = [name EXCEPT ![r] = f]
       /\ owed' = (owed \ {<<r, name[r].text>>}) \cup
                  {<<r, g.text>> : g \in {f} \ {NoFile}}
  /\ UNCHANGED <<slots, journal, complete, made, authored, pc, run, stops>>

Edited(f, kept) ==
  [f EXCEPT !.text = New, !.stamp = IF kept THEN @ ELSE New]

\* An edit in place, of the file at the name ...
Writes(r) ==
  /\ Change /\ name[r] # NoFile
  /\ \E kept \in BOOLEAN : name' = [name EXCEPT ![r] = Edited(@, kept)]
  /\ owed' = (owed \ {<<r, name[r].text>>}) \cup {<<r, New>>}
  /\ UNCHANGED <<slots, journal, complete, made, authored, pc, run, stops>>

\* ... or through a descriptor opened before it was moved into a slot.  That one which
\* also keeps the time falls between the proof of the contents and the truncation is
\* assumed away, as ClaimedPath.read_bytes says of itself.
WritesLate(r, k) ==
  /\ Change /\ k \in Claims(r)
  /\ \E kept \in BOOLEAN :
       /\ kept => pc # "empty"
       /\ slots' = [slots EXCEPT ![r][k] = Edited(@, kept)]
  /\ owed' = (owed \ {<<r, slots[r][k].text>>}) \cup {<<r, New>>}
  /\ UNCHANGED <<name, journal, complete, made, authored, pc, run, stops>>

\* A playlist, a schedule, a favourite is changed.
Authors ==
  /\ Change
  /\ authored' = authored + 1
  /\ UNCHANGED <<disk, pc, run, stops, owed>>

Steps ==
  \/ WriteJournal \/ Prepare \/ Install \/ Check \/ Rename \/ Verify \/ Write \/ Reread
  \/ PublishManifest \/ PublishStage \/ Snapshot \/ Prove \/ Commit \/ Confirm
  \/ Retire \/ Empty \/ Unstage \/ Drop

Others ==
  \/ Authors
  \/ \E r \in Roles : Replaces(r) \/ Writes(r) \/ \E k \in Slots : WritesLate(r, k)

Next == Start \/ Steps \/ Stop \/ Others

Spec == Init /\ [][Next]_vars

\* The application is started again, and a run that is not stopped goes on.
FairSpec == Spec /\ WF_vars(Start) /\ WF_vars(Steps)

-----------------------------------------------------------------------------
File == [ino : Nat, stamp : Nat, text : Nat]
Plan == [old : [Roles -> File], authored : Nat]
Pcs  == {"idle", "planned", "prepare", "install", "check", "rename", "verify", "write",
         "reread", "installed", "stage", "snapshot", "commit", "confirm", "retire",
         "empty", "unstage", "drop"}

TypeOK ==
  /\ name \in [Roles -> File]
  /\ slots \in [Roles -> [Slots -> File]]
  /\ journal \in Plan
  /\ complete \in BOOLEAN
  /\ made \subseteq {"sidecars", "manifest", "stage"}
  /\ authored \in Nat /\ edits \in Nat /\ stops \in Nat
  /\ pc \in Pcs
  /\ run \in [plan : Plan, role : Roles, slot : Slots, later : BOOLEAN, settled : BOOLEAN]
  /\ owed \subseteq Roles \X Nat
  /\ touched \in BOOLEAN
  /\ pc = "idle" => run = Idle

\* (1) No text is lost that was not translated: an edit made at any moment, also in the
\* file after it was claimed, is at its name or in a slot until its author replaces it,
\* and so is the earlier version's until the upgrade is complete.
NothingUntranslatedLost ==
  \A o \in owed : name[o[1]].text = o[2] \/ \E k \in Slots : slots[o[1]][k].text = o[2]

\* (2) Wherever a run stopped, the next start can carry it on if nobody has changed
\* anything meanwhile.
ResumeIsPossible ==
  pc = "idle" /\ journal # NoPlan /\ ~complete /\ ~touched /\ stops < MaxSlots =>
    /\ journal.authored = authored
    /\ \A r \in Roles : Replaceable(r, journal)

\* (3) The journal is not dropped while a claim is still to be emptied on its word: what
\* is then left in a slot is somebody's edit.
JournalOutlivesClaims ==
  complete /\ journal = NoPlan =>
    \A r \in Roles : \A k \in Claims(r) : <<r, slots[r][k].text>> \in owed

\* Nobody but the person can say what becomes of what was changed during the upgrade.
NeedsThePerson ==
  /\ ~complete /\ touched
  /\ \/ journal = NoPlan /\ NoFile \in {name[r] : r \in Roles}
     \/ journal # NoPlan /\ journal.authored # authored
     \/ journal # NoPlan /\ \E r \in Roles : ~Replaceable(r, journal)

\* (4) The upgrade is completed and cleaned up after, or stands still for the person.
UpgradeSettles == <>[]((complete /\ journal = NoPlan) \/ NeedsThePerson)
=============================================================================
