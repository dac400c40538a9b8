----------------------------- MODULE HealthSync -----------------------------
(***************************************************************************)
(* How a wallpaper the service could not play becomes a mark among the     *)
(* Pairings, and how the person takes the mark back.  The service only     *)
(* reads: what it found is `session' until a document that carries the     *)
(* mark has been loaded, then `durable'.  Two writers take its findings    *)
(* over, a timer's one-shot (cli._sync_runtime_health) and the window      *)
(* (ui/app.py, _ingest_runtime_health); `Try again', a removal and a new   *)
(* download go against them.                                               *)
(*                                                                         *)
(* A generation is the hash of a document: two documents with the same     *)
(* wallpapers and marks are one generation, whatever happened in between.  *)
(* Everything here but the service and a download holds the profile lock   *)
(* while it writes.  The window works with the Library it accepted last,   *)
(* which may name wallpapers that are gone: its inventory is valid or not. *)
(***************************************************************************)
EXTENDS Naturals

CONSTANTS
  Wallpapers,
  MaxFailures, MaxEvents   \* bounds of the checked runs: failures; edits and faults

ASSUME HealthAssumption == MaxFailures \in Nat /\ MaxEvents \in Nat

VARIABLES
  files,      \* the wallpapers there are
  marks,      \* those the Pairings say cannot be played
  installed,  \* the published document
  due,        \* the service has not looked at that document yet
  svc,        \* the document it holds and what it found
  timer,      \* the one-shot: its step, its status, the wallpapers it scanned
  library,    \* the wallpapers of the Library the window accepted
  valid,      \* that Library is an inventory: it may be published
  window,     \* the window's probe, the step of its health transaction, its requests
  compile,    \* the window's compile lane: a publication due, a reload to send
  lock,       \* the profile lock: who holds it
  retracted,  \* history: the wallpapers whose mark was taken back for good
  spent       \* failures, and edits and faults, so far

vars == <<files, marks, installed, due, svc, timer, library, valid, window, compile,
          lock, retracted, spent>>
disk == <<files, marks>>
inventory == <<library, valid>>

Document == [items : SUBSET Wallpapers, marks : SUBSET Wallpapers]
Status   == [doc : Document, taboo : [Wallpapers -> {"none", "session", "durable"}]]
Request  == [status : Status, lib : SUBSET Wallpapers, current : BOOLEAN]

\* compiled_as_published: what the stores say now of these wallpapers.
Authored(lib) == [items |-> lib, marks |-> marks \cap lib]

\* configured_taboo: a service that starts knows what the document says.
Seeded(doc) ==
  [doc |-> doc, taboo |-> [w \in Wallpapers |-> IF w \in doc.marks THEN "durable" ELSE "none"]]

Reported(status) == {w \in Wallpapers : status.taboo[w] # "none"}
Fresh(status)    == {w \in Wallpapers : status.taboo[w] = "session"}

NoStatus  == Seeded([items |-> {}, marks |-> {}])
NoRequest == [status |-> NoStatus, lib |-> {}, current |-> FALSE]
TimerIdle == [step |-> "idle", status |-> NoStatus, lib |-> {}]
WindowIdle == [probe |-> NoStatus, step |-> "idle", request |-> NoRequest, latest |-> NoRequest]

Init ==
  /\ files = Wallpapers /\ marks = {}
  /\ installed = Authored(files) /\ due = FALSE
  /\ svc = Seeded(installed)
  /\ timer = TimerIdle /\ window = WindowIdle
  /\ library = files /\ valid = TRUE
  /\ compile = [due |-> FALSE, told |-> FALSE]
  /\ lock = "free"
  /\ retracted = {}
  /\ spent = [failures |-> 0, events |-> 0]

\* What the person does and what goes wrong are counted together.
Event == /\ spent.events < MaxEvents
         /\ spent' = [spent EXCEPT !.events = @ + 1]
Fault == Event
Edit  == Event

-----------------------------------------------------------------------------
(* The service.                                                            *)

\* mark_taboo: an entry that may play fails.
Fail(w) ==
  /\ w \in svc.doc.items /\ svc.taboo[w] = "none"
  /\ spent.failures < MaxFailures
  /\ spent' = [spent EXCEPT !.failures = @ + 1]
  /\ svc' = [svc EXCEPT !.taboo[w] = "session"]
  /\ retracted' = retracted \ {w}
  /\ UNCHANGED <<disk, installed, due, timer, inventory, window, compile, lock>>

\* reconcile_configured_taboo: the document's marks win, what was durable and is
\* no longer marked is dropped, what only the session knows is kept.
Reconciled(doc) ==
  [Seeded(doc) EXCEPT !.taboo =
     [w \in Wallpapers |-> IF w \in Fresh(svc) /\ w \in doc.items /\ @[w] = "none"
                           THEN "session" ELSE @[w]]]

\* A reload, taken up or refused; a refused one restores what was found before
\* and is not tried again until the next rename or request.
Reload ==
  /\ due' = FALSE
  /\ \/ svc' = Reconciled(installed) /\ UNCHANGED spent
     \/ Fault /\ UNCHANGED svc

\* A request to reload, answered or lost.
Asked == Reload \/ UNCHANGED <<svc, due, spent>>

Poll ==
  /\ due /\ Reload
  /\ UNCHANGED <<disk, installed, timer, inventory, window, compile, lock, retracted>>

Restart ==
  /\ Fault
  /\ svc' = Seeded(installed) /\ due' = FALSE
  /\ UNCHANGED <<disk, installed, timer, inventory, window, compile, lock, retracted>>

-----------------------------------------------------------------------------
(* Publications.  One that would change nothing renames nothing.           *)

Publish(doc) ==
  /\ installed' = doc
  /\ due' = (due \/ doc # installed)

\* The timer's one-shot (cli._sync_runtime_health) asks for the status under
\* the locks; with no finding it is over.
TimerAsks ==
  /\ timer.step = "idle" /\ lock = "free"
  /\ Reported(svc) # {}
  /\ timer' = [TimerIdle EXCEPT !.step = "asked", !.status = svc]
  /\ lock' = "timer"
  /\ UNCHANGED <<disk, installed, due, svc, inventory, window, compile, retracted, spent>>

TimerEnds == timer' = TimerIdle /\ lock' = "free"

\* Mutant: an older document's status is taken over like any other.
TimerTakesAll ==
  /\ timer.step = "asked"
  /\ timer' = [timer EXCEPT !.step = "saved", !.lib = files]
  /\ marks' = marks \cup (Reported(timer.status) \cap files)
  /\ UNCHANGED <<lock, spent, files, installed, due, svc, inventory, window, compile, retracted>>

\* Mutant: an unpublished change of the stores is an error and no more.
TimerTakesOrGivesUp ==
  /\ timer.step = "asked"
  /\ IF timer.status.doc = installed /\ timer.status.doc = Authored(files)
     THEN /\ timer' = [timer EXCEPT !.step = "saved", !.lib = files]
          /\ marks' = marks \cup (Reported(timer.status) \cap files)
          /\ UNCHANGED <<lock, spent>>
     ELSE TimerEnds /\ UNCHANGED <<marks, spent>>
  /\ UNCHANGED <<files, installed, due, svc, inventory, window, compile, retracted>>

\* mark_borked_many: only a status of what is installed and would be compiled
\* now is taken over.  When the stores have moved on, they are published and the
\* status is not used; when the service holds another document, nothing is done.
TimerTakes ==
  /\ timer.step = "asked"
  /\ \/ /\ timer.status.doc = installed
        /\ timer' = [timer EXCEPT !.step = "saved", !.lib = files]
        /\ marks' = IF timer.status.doc = Authored(files)
                    THEN marks \cup (Reported(timer.status) \cap files) ELSE marks
        /\ UNCHANGED <<lock, spent>>
     \/ timer.status.doc # installed /\ TimerEnds /\ UNCHANGED <<marks, spent>>
     \/ Fault /\ TimerEnds /\ UNCHANGED marks
  /\ UNCHANGED <<files, installed, due, svc, inventory, window, compile, retracted>>

\* _runtime_changed: the document is rendered even when every mark was there,
\* and a reload follows unless there is nothing to tell, or the service is
\* being stopped (--sync-runtime-health-on-stop).
TimerPublishes ==
  /\ timer.step = "saved"
  /\ \/ /\ Publish(Authored(timer.lib)) /\ UNCHANGED spent
        /\ \/ timer' = [timer EXCEPT !.step = "told"] /\ UNCHANGED lock
           \/ TimerEnds
     \/ Fault /\ TimerEnds /\ UNCHANGED <<installed, due>>
  /\ UNCHANGED <<disk, svc, inventory, window, compile, retracted>>

TimerReloads ==
  /\ timer.step = "told" /\ Asked /\ TimerEnds
  /\ UNCHANGED <<disk, installed, inventory, window, compile, retracted>>

-----------------------------------------------------------------------------
(* The window: requests wait in its authoring lane, at most one of them     *)
(* queued or at work and the latest behind it.                             *)

\* _request_runtime_status: one probe at a time, answered on a pool thread; an
\* answer with no finding asks for nothing.
WindowAsks ==
  /\ window.probe = NoStatus /\ Reported(svc) # {}
  /\ window' = [window EXCEPT !.probe = svc]
  /\ UNCHANGED <<disk, installed, due, svc, timer, inventory, compile, lock, retracted, spent>>

\* _queue_runtime_health: one request queued or at work, the latest behind it.
Queue(r) ==
  \/ /\ window.step = "idle"
     /\ window' = [window EXCEPT !.probe = NoStatus, !.step = "queued", !.request = r]
  \/ /\ window.step # "idle"
     /\ window' = [window EXCEPT !.probe = NoStatus, !.latest = r]

\* _adopt_runtime_status, when the answer has come to GTK: the request is of the
\* generation and the Library of this moment.  A window that was closed
\* meanwhile drops the answer (_finish_runtime_status).
WindowAdopts ==
  /\ window.probe # NoStatus
  /\ \/ Queue([status |-> window.probe, lib |-> library, current |-> TRUE])
     \/ window' = [window EXCEPT !.probe = NoStatus]
  /\ UNCHANGED <<disk, installed, due, svc, timer, inventory, compile, lock, retracted, spent>>

\* _complete_runtime_health: the latest request follows.
WindowEnds ==
  window' = IF window.latest = NoRequest THEN [WindowIdle EXCEPT !.probe = window.probe]
            ELSE [window EXCEPT !.step = "queued", !.request = window.latest,
                                !.latest = NoRequest]

\* Mutant: a request is never too old.
PreparedAlways(r) == TRUE

\* prepare: of this authoring generation, and of the Library the window has
\* still; what replaces the Library makes every request an old one.
Prepared(r) == r.current

\* _ingest_runtime_health, up to mark_borked_many_if_unchanged: with the lock
\* free at once, and the service, the file and the stores in one generation.
WindowTakes ==
  /\ window.step = "queued"
  /\ LET r == window.request
         acceptable == /\ Prepared(r) /\ lock = "free"
                       /\ r.status.doc = installed /\ r.status.doc = Authored(r.lib)
     IN \/ /\ acceptable
           /\ marks' = marks \cup (Reported(r.status) \cap r.lib)
           /\ window' = [window EXCEPT !.step = "saved"]
           /\ lock' = "window"
           /\ UNCHANGED spent
        \/ ~acceptable /\ WindowEnds /\ UNCHANGED <<marks, lock, spent>>
        \/ acceptable /\ Fault /\ WindowEnds /\ UNCHANGED <<marks, lock>>
  /\ UNCHANGED <<files, installed, due, svc, timer, inventory, compile, retracted>>

\* _installed_leaving_out, unless the Library is no inventory (the marks are
\* saved by then); the locks are let go before the reload.
WindowPublishes ==
  /\ window.step = "saved"
  /\ lock' = "free"
  /\ \/ ~valid /\ WindowEnds /\ UNCHANGED <<installed, due, spent>>
     \/ LET doc == Authored(window.request.lib) IN
          /\ valid /\ Publish(doc) /\ UNCHANGED spent
          /\ IF doc # installed THEN window' = [window EXCEPT !.step = "told"] ELSE WindowEnds
     \/ Fault /\ WindowEnds /\ UNCHANGED <<installed, due>>
  /\ UNCHANGED <<disk, svc, timer, inventory, compile, retracted>>

WindowReloads ==
  /\ window.step = "told" /\ Asked /\ WindowEnds
  /\ UNCHANGED <<disk, installed, timer, inventory, compile, lock, retracted>>

\* The application ends anywhere and is opened again: it scans and publishes.
WindowRestarts ==
  /\ Fault
  /\ window' = WindowIdle /\ library' = files /\ valid' = TRUE
  /\ compile' = [due |-> TRUE, told |-> FALSE]
  /\ lock' = IF window.step = "saved" THEN "free" ELSE lock
  /\ UNCHANGED <<disk, installed, due, svc, timer, retracted>>

-----------------------------------------------------------------------------
(* The person.  An edit runs alone in the authoring lane; when it is done  *)
(* every request of before is of an older generation, and the compile lane *)
(* is asked for a publication.                                             *)

LaneFree == window.step \in {"idle", "queued"} /\ lock = "free"

\* _publish_runtime_async: the generation moves on.
Bump ==
  /\ window' = [window EXCEPT !.request.current = FALSE, !.latest.current = FALSE]
  /\ compile' = [compile EXCEPT !.due = TRUE]

\* The mark of w is taken back, for good unless the service has the finding on
\* its own account still, or a status on its way to the window tells of it:
\* neither is touched by the edit.
TakenBack(w) ==
  retracted' = IF w \in Fresh(svc) \cup Fresh(window.probe) THEN retracted \ {w}
                                                           ELSE retracted \cup {w}

\* clear_borked: `Try again'.
TryAgain(w) ==
  /\ LaneFree /\ w \in marks \cap library
  /\ Edit
  /\ marks' = marks \ {w}
  /\ TakenBack(w) /\ Bump
  /\ UNCHANGED <<files, installed, due, svc, timer, inventory, lock>>

\* _adopt_removal_deltas: the removal's own scan, good or to be repeated; without
\* one the Library names the wallpaper until a scan lands.
AdoptRemoval ==
  \/ library' = files' /\ valid' \in BOOLEAN
  \/ library' = library /\ valid' = FALSE

\* remove_item_async, _invalidate_runtime_for_pending_removal: the wallpaper, its
\* records and the requests of before go together.
Remove(w) ==
  /\ LaneFree /\ w \in files \cap library
  /\ Edit
  /\ files' = files \ {w} /\ marks' = marks \ {w}
  /\ TakenBack(w)
  /\ AdoptRemoval
  /\ window' = [window EXCEPT !.request.current = FALSE, !.latest = NoRequest]
  /\ compile' = [compile EXCEPT !.due = valid']
  /\ UNCHANGED <<installed, due, svc, timer, lock>>

\* A download of the same path; no lock is held.
Install(w) ==
  /\ w \notin files
  /\ Edit
  /\ files' = files \cup {w}
  /\ UNCHANGED <<marks, installed, due, svc, timer, inventory, window, compile, lock, retracted>>

\* _queue_library_reconciliation: a scan of the library has landed.
Rescan ==
  /\ LaneFree /\ (library # files \/ ~valid)
  /\ library' = files /\ valid' = TRUE
  /\ Bump
  /\ UNCHANGED <<disk, installed, due, svc, timer, lock, retracted, spent>>

\* _compile_runtime_request, in the compile lane: nothing is installed from a
\* Library that is no inventory.
Compile ==
  /\ compile.due /\ lock = "free"
  /\ \/ /\ ~valid /\ compile' = [compile EXCEPT !.due = FALSE]
        /\ UNCHANGED <<installed, due, spent>>
     \/ LET doc == Authored(library) IN
          /\ valid /\ Publish(doc) /\ UNCHANGED spent
          /\ compile' = [due |-> FALSE, told |-> compile.told \/ doc # installed]
     \/ Fault /\ compile' = [compile EXCEPT !.due = FALSE] /\ UNCHANGED <<installed, due>>
  /\ UNCHANGED <<disk, svc, timer, inventory, window, lock, retracted>>

LaneReloads ==
  /\ compile.told /\ Asked
  /\ compile' = [compile EXCEPT !.told = FALSE]
  /\ UNCHANGED <<disk, installed, timer, inventory, window, lock, retracted>>

-----------------------------------------------------------------------------
TimerSteps  == TimerTakes \/ TimerPublishes \/ TimerReloads
WindowSteps == WindowTakes \/ WindowPublishes \/ WindowReloads
LaneSteps   == Compile \/ LaneReloads
Person      == \E w \in Wallpapers : TryAgain(w) \/ Remove(w) \/ Install(w)
WindowLearns == WindowAsks \/ WindowAdopts \/ Rescan

Next ==
  \/ \E w \in Wallpapers : Fail(w)
  \/ Poll \/ Restart
  \/ TimerAsks \/ TimerSteps
  \/ WindowLearns \/ WindowSteps \/ WindowRestarts
  \/ Person \/ LaneSteps

\* The timer fires thirty seconds after its last run is over and waits for the
\* lock, which the others let go again; what has begun goes on; the service
\* polls its file once a second.  The window may be closed: it is owed nothing
\* but the end of what it began.
Fairness ==
  /\ SF_vars(TimerAsks) /\ WF_vars(TimerSteps)
  /\ WF_vars(WindowSteps) /\ WF_vars(Poll)

Spec     == Init /\ [][Next]_vars
FairSpec == Spec /\ Fairness

-----------------------------------------------------------------------------
\* Every variable keeps its type.
TypeOK ==
  /\ files \subseteq Wallpapers /\ marks \subseteq Wallpapers
  /\ installed \in Document /\ due \in BOOLEAN
  /\ svc \in Status
  /\ timer \in [step : {"idle", "asked", "saved", "told"}, status : Status,
                lib : SUBSET Wallpapers]
  /\ library \subseteq Wallpapers /\ valid \in BOOLEAN
  /\ window \in [probe : Status, step : {"idle", "queued", "saved", "told"},
                 request : Request, latest : Request]
  /\ compile \in [due : BOOLEAN, told : BOOLEAN]
  /\ lock \in {"free", "timer", "window"}
  /\ retracted \subseteq Wallpapers
  /\ spent \in [failures : Nat, events : Nat]

\* A mark that was taken back, by `Try again' or with its wallpaper, comes back
\* only after the wallpaper failed again: no request the window has queued brings
\* it back, however long it waits and even when the documents are again what they
\* were then, and no older status (cli.py: "it may be precisely what Clear+retry
\* was intended to retract").  Two findings are out of its reach (TakenBack): one a
\* service has as its own still, for no document carried its mark, and one in a
\* status fetched before the edit and adopted after it, which is stamped with the
\* generation of its adoption.
RetractionStands == marks \cap retracted = {}

\* A mark is given to a wallpaper that is there, so that one downloaded again
\* starts clean, whatever health write is late.  The exception is the window's,
\* between a removal whose own scan failed and the next scan that lands: it saves
\* what a status says of its Library before it asks whether that is an inventory.
MarksOfTheLiving ==
  [][\A w \in marks' \ marks :
       w \in files \/ (lock' = "window" /\ w \in library /\ ~valid)]_vars

\* The service refused the document there is, and waits for another.
Refused == svc.doc # installed /\ ~due

\* A finding does not stay the session's for ever: it reaches the document, or
\* the service drops it, unless the service refuses the document; through lost
\* requests, killed writers, and stores saved without their document.
FindingsSettle ==
  \A w \in Wallpapers :
    w \in Fresh(svc) ~> (w \notin Fresh(svc) \/ w \in installed.marks \/ Refused)
=============================================================================
