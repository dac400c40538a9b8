------------------------------ MODULE StateFile ------------------------------
(***************************************************************************)
(* The state files of the library: favourites, and in the same way the     *)
(* playlists, pairings, displays and schedules.  Every process, and in the *)
(* window every lane, has a Store of its own: a value it read once, and    *)
(* the file.  A change takes the file's mutation lock, reads the file      *)
(* again, applies itself to what it read, writes a temporary and renames   *)
(* it over the name; only then does the Store adopt the new value.  What a *)
(* worker's Store has removed is told to the window's, which drops it from *)
(* its own value without looking at the file.                              *)
(*                                                                         *)
(* A document the build does not understand is never written over: one of  *)
(* a newer version refuses every change, and a damaged one is renamed to   *)
(* a backup first, which the person at an editor may be repairing at that  *)
(* very moment, for no editor takes the lock.                              *)
(***************************************************************************)
EXTENDS Naturals

CONSTANTS
  Stores,    \* the Store objects of all processes
  Windows,   \* those of windows, which are told what the others have removed
  Paths,     \* wallpapers a favourite can be
  MaxEdits   \* bound on what others do to the file

ASSUME StateFileAssumption == MaxEdits \in Nat /\ Paths # {} /\ Windows \subseteq Stores

VARIABLES
  file,     \* the document at the name
  backups,  \* the .broken documents
  mem,      \* the value of each Store
  reports,  \* what each Store has taken out of the file and a window is still to be told of
  lock,     \* who holds the mutation lock, at most one
  pc, op,   \* each Store's step and change
  seen,     \* the document its locked read saw
  moved,    \* the document its rename to the backup moved
  edits,
  owed,     \* (history) unreadable documents that others have not taken away themselves
  shown,    \* (history) every value the file has had
  told      \* (history) what each Store was told to drop since it last read the file

disk    == <<file, backups>>
memory  == <<mem, told, reports>>
work    == <<pc, op, seen, moved>>
history == <<edits, owed, shown>>
vars    == <<disk, memory, lock, work, history>>

Kinds     == {"absent", "sound", "damaged", "newer"}
Absent    == [kind |-> "absent", paths |-> {}, edit |-> 0]
Sound(ps) == [kind |-> "sound", paths |-> ps, edit |-> 0]
Ops       == [adds : BOOLEAN, path : Paths]
NoOp      == [adds |-> FALSE, path |-> CHOOSE p \in Paths : TRUE]

Init ==
  /\ file \in {Absent} \cup {Sound(ps) : ps \in SUBSET Paths}
  /\ backups = {}
  /\ mem = [s \in Stores |-> file.paths]
  /\ lock = {}
  /\ pc = [s \in Stores |-> "idle"]
  /\ op = [s \in Stores |-> NoOp]
  /\ seen = [s \in Stores |-> Absent]
  /\ moved = [s \in Stores |-> Absent]
  /\ reports = [s \in Stores |-> {}] /\ told = [s \in Stores |-> {}]
  /\ edits = 0 /\ owed = {} /\ shown = {file.paths}

GoTo(s, step) == pc' = [pc EXCEPT ![s] = step]

\* What the change of s makes of the value it read.
Applied(s) ==
  IF op[s].adds THEN seen[s].paths \cup {op[s].path} ELSE seen[s].paths \ {op[s].path}

\* A Store takes a value over that was read from the file, or written to it.
Takes(s, ps) ==
  /\ mem' = [mem EXCEPT ![s] = ps]
  /\ told' = [told EXCEPT ![s] = {}]

\* A worker's removal is reported, whether or not it had an effect.
Reports(s) ==
  reports' = [reports EXCEPT ![s] =
    IF op[s].adds \/ s \in Windows THEN {} ELSE {op[s].path}]

\* The end of mutation_lock, whichever way the change ended.
Leave(s) ==
  /\ GoTo(s, "idle")
  /\ lock' = lock \ {s}
  /\ op' = [op EXCEPT ![s] = NoOp]
  /\ seen' = [seen EXCEPT ![s] = Absent]
  /\ moved' = [moved EXCEPT ![s] = Absent]

-----------------------------------------------------------------------------
\* A worker's lane is free again once its result has been adopted.
Begin(s) ==
  /\ pc[s] = "idle" /\ reports[s] = {}
  /\ \E o \in Ops : op' = [op EXCEPT ![s] = o]
  /\ GoTo(s, "waiting")
  /\ UNCHANGED <<disk, memory, lock, seen, moved, history>>

\* Mutant: the file's atomic replacement is taken for enough.
EnterBeside(s) ==
  /\ pc[s] = "waiting"
  /\ GoTo(s, "locked")
  /\ UNCHANGED <<disk, memory, lock, op, seen, moved, history>>

\* The process's gate, then the companion lock file.
Enter(s) ==
  /\ pc[s] = "waiting"
  /\ lock = {} /\ lock' = {s}
  /\ GoTo(s, "locked")
  /\ UNCHANGED <<disk, memory, op, seen, moved, history>>

\* Mutant: a damaged document is written over like any other.
ReadLightly(s) ==
  /\ pc[s] = "locked" /\ file.kind # "newer"
  /\ seen' = [seen EXCEPT ![s] = file]
  /\ GoTo(s, "write")
  /\ UNCHANGED <<disk, memory, lock, op, moved, history>>

\* The read under the lock.  A newer version refuses; so does a damaged document, to
\* whoever would take something out of it; a change without effect adopts what it saw.
Read(s) ==
  LET has == op[s].path \in file.paths IN
  /\ pc[s] = "locked"
  /\ \/ /\ file.kind = "newer" \/ (file.kind = "damaged" /\ ~op[s].adds)
        /\ Leave(s) /\ UNCHANGED memory
     \/ /\ file.kind # "newer" /\ (file.kind = "damaged" => op[s].adds)
        /\ has = op[s].adds
        /\ Takes(s, file.paths) /\ Reports(s)
        /\ Leave(s)
     \/ /\ file.kind # "newer" /\ (file.kind = "damaged" => op[s].adds)
        /\ has # op[s].adds
        /\ seen' = [seen EXCEPT ![s] = file]
        /\ GoTo(s, IF file.kind = "damaged" THEN "aside" ELSE "write")
        /\ UNCHANGED <<memory, lock, op, moved>>
  /\ UNCHANGED <<disk, history>>

Published(s) ==
  /\ file' = Sound(Applied(s))
  /\ shown' = shown \cup {Applied(s)}
  /\ GoTo(s, "adopt")
  /\ UNCHANGED <<backups, memory, lock, op, seen, moved, edits, owed>>

\* os.replace.  A parent folder that cannot be synced afterwards changes nothing.
Write(s) == pc[s] = "write" /\ Published(s)

\* File first, then memory.
Adopt(s) ==
  /\ pc[s] = "adopt"
  /\ Takes(s, Applied(s)) /\ Reports(s)
  /\ Leave(s)
  /\ UNCHANGED <<disk, history>>

\* adopt_worker_discard: the window is told of what a worker's Store has removed and drops
\* it from its own, without lock or read, whatever step a change of that Store has reached.
AdoptDiscard(s, w, p) ==
  /\ p \in reports[w]
  /\ reports' = [reports EXCEPT ![w] = {}]
  /\ mem' = [mem EXCEPT ![s] = @ \ {p}]
  /\ told' = [told EXCEPT ![s] = @ \cup ({p} \cap mem[s])]
  /\ UNCHANGED <<disk, lock, work, history>>

-----------------------------------------------------------------------------
(* preserve_faulted: only the very document that was read goes to the      *)
(* backup, and what is written in its place replaces nothing.              *)

Check(s) ==
  /\ pc[s] = "aside"
  /\ \/ file = seen[s] /\ GoTo(s, "rename") /\ UNCHANGED <<lock, op, seen, moved>>
     \/ file # seen[s] /\ Leave(s)
  /\ UNCHANGED <<disk, memory, history>>

\* The rename takes whatever has the name by then.
Rename(s) ==
  /\ pc[s] = "rename"
  /\ \/ /\ file # Absent
        /\ backups' = backups \cup {file}
        /\ moved' = [moved EXCEPT ![s] = file]
        /\ file' = Absent
        /\ GoTo(s, "moved")
        /\ UNCHANGED <<lock, op, seen>>
     \/ file = Absent /\ Leave(s) /\ UNCHANGED disk
  /\ shown' = shown \cup {file'.paths}
  /\ UNCHANGED <<memory, edits, owed>>

\* Another document goes back, unless yet another has come meanwhile.
Verify(s) ==
  /\ pc[s] = "moved"
  /\ \/ /\ moved[s] = seen[s]
        /\ GoTo(s, "renew")
        /\ UNCHANGED <<disk, lock, op, seen, moved, shown>>
     \/ /\ moved[s] # seen[s] /\ file = Absent
        /\ file' = moved[s]
        /\ backups' = backups \ {moved[s]}
        /\ shown' = shown \cup {moved[s].paths}
        /\ Leave(s)
     \/ /\ moved[s] # seen[s] /\ file # Absent
        /\ Leave(s)
        /\ UNCHANGED <<disk, shown>>
  /\ UNCHANGED <<memory, edits, owed>>

\* write_atomic_bytes(replace_existing=False): a repair that came first wins.
Renew(s) == pc[s] = "renew" /\ file = Absent /\ Published(s)

-----------------------------------------------------------------------------
\* Mutant: memory first, then the file.
FailsAdopted(s) ==
  /\ pc[s] \in {"waiting", "locked", "write", "aside", "renew"}
  /\ Takes(s, Applied(s))
  /\ Leave(s)
  /\ UNCHANGED <<disk, reports, history>>

\* A lock that did not come in time, a file that could not be read, a write or a move
\* that did not happen: the Store stays on the value it has.
Fails(s) ==
  /\ pc[s] \in {"waiting", "locked", "write", "aside", "renew"}
  /\ Leave(s)
  /\ UNCHANGED <<disk, memory, history>>

\* The process dies wherever it is, and its report with it, or its work is done; the next
\* one opens its Store.
Reopen(s) ==
  /\ Takes(s, file.paths)
  /\ reports' = [reports EXCEPT ![s] = {}]
  /\ Leave(s)
  /\ UNCHANGED <<disk, history>>

\* Somebody else changes the file, without the lock.  Nothing orders them after a sound
\* document has been read for writing: that this never falls there is assumed.
SomebodyElse ==
  /\ edits < MaxEdits
  /\ \A s \in Stores : pc[s] # "write"
  /\ edits' = edits + 1
  /\ \/ file' = Absent
     \/ \E kind \in Kinds \ {"absent"}, ps \in SUBSET Paths :
          file' = [kind |-> kind, paths |-> ps, edit |-> edits + 1]
  /\ owed' = (owed \ {file}) \cup (IF file'.kind \in {"damaged", "newer"} THEN {file'} ELSE {})
  /\ shown' = shown \cup {file'.paths}
  /\ UNCHANGED <<backups, memory, lock, work>>

Changes(s) ==
  \/ Begin(s) \/ Enter(s) \/ Read(s) \/ Write(s) \/ Adopt(s)
  \/ Check(s) \/ Rename(s) \/ Verify(s) \/ Renew(s) \/ Fails(s) \/ Reopen(s)

Next ==
  \/ SomebodyElse
  \/ \E s \in Stores : Changes(s)
  \/ \E s \in Windows, w \in Stores, p \in Paths : AdoptDiscard(s, w, p)

Spec == Init /\ [][Next]_vars

-----------------------------------------------------------------------------
Document == [kind : Kinds, paths : SUBSET Paths, edit : Nat]
Steps    == {"idle", "waiting", "locked", "write", "adopt", "aside", "rename", "moved", "renew"}

TypeOK ==
  /\ file \in Document
  /\ backups \subseteq Document
  /\ mem \in [Stores -> SUBSET Paths] /\ told \in [Stores -> SUBSET Paths]
  /\ reports \in [Stores -> SUBSET Paths]
  /\ lock \subseteq Stores
  /\ pc \in [Stores -> Steps]
  /\ op \in [Stores -> Ops]
  /\ seen \in [Stores -> Document]
  /\ moved \in [Stores -> Document]
  /\ edits \in Nat
  /\ owed \subseteq Document
  /\ shown \subseteq SUBSET Paths
  /\ \A s \in Stores : pc[s] = "idle" => seen[s] = Absent /\ moved[s] = Absent

\* (1) What the application could not read, it never destroys: a damaged document, or
\* one of a newer version, is at its name or in a backup until its owner takes it away.
NothingUnreadLost == owed \subseteq {file} \cup backups

\* (2) What a Store believes is a value that was in the file, less what it was told since
\* that other Stores have removed ("a semantic delta, not a snapshot replacement",
\* adopt_worker_discard): a change that failed has not changed it.
MemoryWasOnDisk == \A s \in Stores : \E ps \in shown : mem[s] = ps \ told[s]

\* (3) The Stores together are one list: every change is of the value everybody sees at
\* that moment, so none undoes another's, and a repair is never written over.  In the
\* middle of a renewal the document that was moved aside still stands for the list.
InFlight == {s \in Stores : pc[s] \in {"moved", "renew"} /\ file = Absent}

TheList == IF InFlight = {} THEN file ELSE moved[CHOOSE s \in InFlight : TRUE]
TheKept == backups \ {moved[s] : s \in {t \in Stores : pc[t] = "moved"}}

List == INSTANCE SharedList WITH doc <- TheList, kept <- TheKept

OneList == List!ListSpec
=============================================================================
