---------------------------- MODULE Publication ----------------------------
(***************************************************************************)
(* How an authored change reaches the playback service's files.            *)
(*                                                                         *)
(* Publishers (the window's compile lane, the synchronous `--service'      *)
(* lane, `--write-config', the health sync) compile what the person saved  *)
(* into runtime.toml and runtime-overrides.toml.  The files are two        *)
(* separate atomic renames made under one compiler lock; the web setting   *)
(* is kept still by a second lock.                                         *)
(*                                                                         *)
(* A file is an inode (a fresh number per rename) and what it says; the    *)
(* document says which save it was compiled from and whether it allows web *)
(* wallpapers.  Its text, its schema and its refusal for a service that    *)
(* cannot read the schema are abstracted.                                  *)
(***************************************************************************)
EXTENDS Naturals

CONSTANTS
  Publishers,    \* processes (or lanes) that compile and publish
  Overrides,     \* what the overrides file can be compiled to; may hold Absent
  Absent,        \* "no overrides file"
  Attempts,      \* WEB_SETTING_ATTEMPTS
  MaxSaves, MaxFailures, MaxCrashes  \* bounds of the checked runs

ASSUME PublicationAssumption ==
  /\ Attempts \in Nat \ {0}
  /\ MaxSaves \in Nat /\ MaxFailures \in Nat /\ MaxCrashes \in Nat

VARIABLES
  saved,    \* [gen, over, web]: the authoring stores and settings.toml
  doc,      \* runtime.toml: [id, gen, web]
  side,     \* runtime-overrides.toml: [id, over]; id 0 when there is none
  nextId,   \* the next inode a rename installs
  pc,       \* each publisher's step
  work,     \* what it compiles with and compiled; prior: previous_overrides
  lock,     \* the holder of the compiler lock, as a set of at most one
  due,      \* publishers that have something to publish
  whole,    \* (history) the pair the last completed publication left
  torn,     \* (history) a crash or a failed restore has split it since
  saves, failures, crashes

files  == <<doc, side, nextId>>
publ   == <<pc, work, lock, due>>
ghosts == <<whole, torn>>
bounds == <<saves, failures, crashes>>
vars   == <<saved, files, publ, ghosts, bounds>>

NoWork == [web |-> FALSE, tries |-> 0, gen |-> 0, over |-> Absent, prior |-> Absent]

\* Mutant: the setting is let go before the document is installed.
SettingLetGoEarly == \E p \in Publishers : work[p].web /\ pc[p] = "publish"

\* _web_setting_held: a document compiled for web wallpapers on keeps the lock
\* of settings.toml from its check of the setting to the end of its install.
SettingHeld ==
  \E p \in Publishers : work[p].web /\ pc[p] \in {"publish", "document", "restore"}

Contents(d, s) == [gen |-> d.gen, web |-> d.web, over |-> s.over]

Init ==
  \E o \in Overrides :
    /\ saved = [gen |-> 0, over |-> o, web |-> FALSE]
    /\ doc = [id |-> 1, gen |-> 0, web |-> FALSE]
    /\ side = [id |-> IF o = Absent THEN 0 ELSE 2, over |-> o]
    /\ nextId = 3
    /\ pc = [p \in Publishers |-> "idle"]
    /\ work = [p \in Publishers |-> NoWork]
    /\ lock = {} /\ due = {}
    /\ whole = Contents(doc, side) /\ torn = FALSE
    /\ saves = 0 /\ failures = 0 /\ crashes = 0

-----------------------------------------------------------------------------
(* The person.  A save changes what the document says (g), the overrides,  *)
(* the web setting or several of them; one that changes the setting takes  *)
(* the setting's lock.  Publisher p is the one asked to publish it.        *)

Save(p, g, o, w) ==
  /\ saves < MaxSaves
  /\ w # saved.web => ~SettingHeld
  /\ saved' = [gen |-> saved.gen + g, over |-> o, web |-> w]
  /\ saved' # saved
  /\ saves' = saves + 1
  /\ due' = due \cup {p}
  /\ UNCHANGED <<files, pc, work, lock, ghosts, failures, crashes>>

-----------------------------------------------------------------------------
(* A publisher.  It need not be due: `--write-config' is run by hand too.  *)

\* Mutant: the compiler lock is not waited for.
TakeNoLock(p) ==
  /\ pc[p] = "idle"
  /\ lock' = {p}
  /\ pc' = [pc EXCEPT ![p] = "compile"]
  /\ work' = [work EXCEPT ![p].web = saved.web]
  /\ due' = due \ {p}
  /\ UNCHANGED <<saved, files, ghosts, bounds>>

\* compiler_lock; the settings and then the stores are read under it.
TakeLock(p) ==
  /\ pc[p] = "idle"
  /\ lock = {}
  /\ lock' = {p}
  /\ pc' = [pc EXCEPT ![p] = "compile"]
  /\ work' = [work EXCEPT ![p].web = saved.web]
  /\ due' = due \ {p}
  /\ UNCHANGED <<saved, files, ghosts, bounds>>

\* The wait for the compiler lock timed out; nothing was written.
GiveUp(p) ==
  /\ pc[p] = "idle" /\ p \in due
  /\ lock # {}
  /\ failures < MaxFailures
  /\ failures' = failures + 1
  /\ due' = due \ {p}
  /\ UNCHANGED <<saved, files, pc, work, lock, ghosts, saves, crashes>>

Compile(p) ==
  /\ pc[p] = "compile"
  /\ work' = [work EXCEPT ![p] =
       [@ EXCEPT !.gen = saved.gen, !.over = saved.over, !.prior = side.over]]
  /\ pc' = [pc EXCEPT ![p] = "compiled"]
  /\ UNCHANGED <<saved, files, lock, due, ghosts, bounds>>

\* _web_setting_held: the setting still is what was compiled for ...
SettingAgrees(p) ==
  /\ pc[p] = "compiled"
  /\ saved.web = work[p].web
  /\ pc' = [pc EXCEPT ![p] = "publish"]
  /\ UNCHANGED <<saved, files, work, lock, due, ghosts, bounds>>

\* The publication is over, and its process's share of the locks is let go.
Ends(p) ==
  /\ pc' = [pc EXCEPT ![p] = "idle"]
  /\ work' = [work EXCEPT ![p] = NoWork]
  /\ lock' = lock \ {p}

\* Mutant: one attempt too many.
SettingMovedOnceMore(p) ==
  /\ pc[p] = "compiled"
  /\ saved.web # work[p].web
  /\ IF work[p].tries < Attempts
     THEN /\ work' = [work EXCEPT ![p] =
               [@ EXCEPT !.web = saved.web, !.tries = work[p].tries + 1]]
          /\ UNCHANGED <<pc, lock>>
     ELSE Ends(p)
  /\ UNCHANGED <<saved, files, due, ghosts, bounds>>

\* ... or it moved (_WebSettingMovedError): the same stores are compiled again
\* for what it says now, WEB_SETTING_ATTEMPTS times at most.
SettingMoved(p) ==
  /\ pc[p] = "compiled"
  /\ saved.web # work[p].web
  /\ IF work[p].tries + 1 < Attempts
     THEN /\ work' = [work EXCEPT ![p] =
               [@ EXCEPT !.web = saved.web, !.tries = work[p].tries + 1]]
          /\ UNCHANGED <<pc, lock>>
     ELSE Ends(p)
  /\ UNCHANGED <<saved, files, due, ghosts, bounds>>

DocumentChanged(p)  == work[p].gen # doc.gen \/ work[p].web # doc.web
OverridesChanged(p) == work[p].over # side.over

\* The pair on disk is the one this publication compiled.
Completes(p) ==
  /\ Ends(p)
  /\ whole' = [gen |-> work[p].gen, web |-> work[p].web, over |-> work[p].over]
  /\ torn' = FALSE

\* publish_changes found both files current.
NothingToWrite(p) ==
  /\ pc[p] = "publish"
  /\ ~DocumentChanged(p) /\ ~OverridesChanged(p)
  /\ Completes(p)
  /\ UNCHANGED <<saved, files, due, bounds>>

\* _publish_overrides: a new inode, or an unlink.
PutSide(o) ==
  IF o = Absent THEN side' = [id |-> 0, over |-> Absent] /\ UNCHANGED nextId
                ELSE side' = [id |-> nextId, over |-> o] /\ nextId' = nextId + 1

\* _publish: the overrides first ...
PublishOverrides(p) ==
  /\ pc[p] = "publish"
  /\ OverridesChanged(p)
  /\ PutSide(work[p].over)
  /\ IF DocumentChanged(p)
     THEN /\ pc' = [pc EXCEPT ![p] = "document"]
          /\ UNCHANGED <<work, lock, ghosts>>
     ELSE Completes(p)
  /\ UNCHANGED <<saved, doc, due, bounds>>

SkipOverrides(p) ==
  /\ pc[p] = "publish"
  /\ DocumentChanged(p) /\ ~OverridesChanged(p)
  /\ pc' = [pc EXCEPT ![p] = "document"]
  /\ UNCHANGED <<saved, files, work, lock, due, ghosts, bounds>>

\* ... then runtime.toml (_install).
InstallDocument(p) ==
  /\ pc[p] = "document"
  /\ doc' = [id |-> nextId, gen |-> work[p].gen, web |-> work[p].web]
  /\ nextId' = nextId + 1
  /\ Completes(p)
  /\ UNCHANGED <<saved, side, due, bounds>>

\* This publication's overrides are on disk beside the previous document.
OverridesAhead(p) ==
  pc[p] \in {"document", "restore"} /\ side.over # work[p].prior

\* Mutant: overrides that are ahead stay there.
WriteFailsAlone(p) ==
  /\ \/ pc[p] = "document"
     \/ pc[p] = "publish" /\ OverridesChanged(p)
  /\ failures < MaxFailures
  /\ failures' = failures + 1
  /\ Ends(p)
  /\ UNCHANGED <<saved, files, due, ghosts, saves, crashes>>

\* A write failed before its rename, so the old file is in place.  If it was
\* runtime.toml's, overrides published just before are to be put back.
WriteFails(p) ==
  /\ \/ pc[p] = "document"
     \/ pc[p] = "publish" /\ OverridesChanged(p)
  /\ failures < MaxFailures
  /\ failures' = failures + 1
  /\ IF OverridesAhead(p)
     THEN pc' = [pc EXCEPT ![p] = "restore"] /\ UNCHANGED <<work, lock>>
     ELSE Ends(p)
  /\ UNCHANGED <<saved, files, due, ghosts, saves, crashes>>

Restore(p) ==
  /\ pc[p] = "restore"
  /\ PutSide(work[p].prior)
  /\ Ends(p)
  /\ UNCHANGED <<saved, doc, due, ghosts, bounds>>

RestoreFails(p) ==
  /\ pc[p] = "restore"
  /\ failures < MaxFailures
  /\ failures' = failures + 1
  /\ Ends(p)
  /\ torn' = TRUE
  /\ UNCHANGED <<saved, files, due, whole, saves, crashes>>

\* The process dies: its flocks go with it, what it renamed stays.
PublisherCrash(p) ==
  /\ pc[p] # "idle"
  /\ crashes < MaxCrashes
  /\ crashes' = crashes + 1
  /\ Ends(p)
  /\ torn' = (torn \/ OverridesAhead(p))
  /\ UNCHANGED <<saved, files, due, whole, saves, failures>>

-----------------------------------------------------------------------------
Publishes(p) ==
  \/ Compile(p) \/ SettingAgrees(p) \/ SettingMoved(p)
  \/ NothingToWrite(p) \/ PublishOverrides(p) \/ SkipOverrides(p)
  \/ InstallDocument(p) \/ WriteFails(p) \/ Restore(p) \/ RestoreFails(p)

Next ==
  \/ \E p \in Publishers, g \in 0..1, o \in Overrides, w \in BOOLEAN : Save(p, g, o, w)
  \/ \E p \in Publishers :
       TakeLock(p) \/ GiveUp(p) \/ Publishes(p) \/ PublisherCrash(p)

Spec == Init /\ [][Next]_vars

-----------------------------------------------------------------------------
Bodies    == Overrides \cup {Absent}
Documents == [id : Nat, gen : Nat, web : BOOLEAN]
Sidecars  == [id : Nat, over : Bodies]
Jobs      == [web : BOOLEAN, tries : 0..(Attempts - 1), gen : Nat, over : Bodies, prior : Bodies]
Steps     == {"idle", "compile", "compiled", "publish", "document", "restore"}

\* Every variable keeps its type; a publisher compiles Attempts times at most
\* (WEB_SETTING_ATTEMPTS).
TypeOK ==
  /\ saved \in [gen : Nat, over : Overrides, web : BOOLEAN]
  /\ doc \in Documents /\ side \in Sidecars /\ nextId \in Nat
  /\ pc \in [Publishers -> Steps]
  /\ work \in [Publishers -> Jobs]
  /\ lock \in SUBSET Publishers /\ due \in SUBSET Publishers
  /\ whole \in [gen : Nat, web : BOOLEAN, over : Bodies] /\ torn \in BOOLEAN
  /\ saves \in Nat /\ failures \in Nat /\ crashes \in Nat

\* A publication that read the stores earlier never replaces the document of
\* one that read them later, however publishers interleave, fail or crash:
\* "that newer GUI generation must land after this older snapshot rather than
\* be rolled back by it" (cli.py, _write_runtime_config).
NeverRolledBack == [][doc'.gen >= doc.gen]_doc

\* No document that allows web wallpapers is installed while settings.toml says
\* they are off, even when the person turns them off while it is compiled
\* (_web_setting_held).
WebOffKept == [][doc' # doc /\ doc'.web => saved.web]_vars

\* Whenever no publication is in progress the files are the pair one whole
\* publication compiled: a failed one leaves, or puts back, what it found,
\* unless a crash or a failed restore split the pair (_publish).
PairKept == lock = {} /\ ~torn => Contents(doc, side) = whole

-----------------------------------------------------------------------------
\* What a publication that has read the stores will publish, or give up.
InProgress ==
  {[gen |-> work[p].gen, over |-> work[p].over] :
     p \in {q \in Publishers : pc[q] \in {"compiled", "publish", "document", "restore"}}}

\* What the files say while nobody publishes, and said before somebody began to.
PairSeen == IF lock = {} /\ ~torn THEN Contents(doc, side) ELSE whole

Pairs == INSTANCE AtomicPair WITH
           stores <- saved, pair <- PairSeen, split <- torn, read <- InProgress

\* Publishers implement AtomicPair: between two renames, a restore and a retry nobody who
\* looks when they are done sees half a publication, nor an older one after a newer.
PairIsAtomic == Pairs!PairSpec
=============================================================================
