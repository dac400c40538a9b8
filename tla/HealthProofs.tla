---------------------------- MODULE HealthProofs ----------------------------
(***************************************************************************)
(* For any wallpapers: every variable of HealthSync keeps its type, a mark *)
(* that was taken back for good stays away until the wallpaper fails       *)
(* again, and only a window without a valid inventory marks a wallpaper    *)
(* that is gone.  A writer can mark only what its status reports.  What a  *)
(* status reports as durable was marked in its document, and is marked     *)
(* still when that is the document of the stores (Honest).  What it        *)
(* reports as the session's has not been taken back since, as long as the  *)
(* status may be used at all (Untouched): taking back needs the lock,      *)
(* which the timer holds from its question to its end, makes every request *)
(* of the window an old one, and is not for good while a status on its way *)
(* to the window tells of the finding.                                     *)
(***************************************************************************)
EXTENDS HealthSync, TLAPS

Honest(status)    == \A w \in Wallpapers : status.taboo[w] = "durable" => w \in status.doc.marks
Untouched(status) == Fresh(status) \cap retracted = {}

\* The lock belongs to the writer at work.
LockInv == /\ timer.step # "idle" => lock = "timer"
           /\ window.step = "saved" => lock = "window"

\* What may still be taken over is true of the service it came from.
StatusInv == /\ Honest(svc) /\ Untouched(svc)
             /\ Honest(timer.status)
             /\ timer.step # "idle" => Untouched(timer.status)
             /\ Honest(window.probe) /\ Untouched(window.probe)

\* A request that may still be used is of the window's Library.
Waiting(r) == Honest(r.status) /\ (r.current => Untouched(r.status) /\ r.lib = library)
RequestInv == Waiting(window.request) /\ Waiting(window.latest)

\* A valid inventory names nothing that is gone.
InventoryInv == valid => library \subseteq files

IInv == TypeOK /\ LockInv /\ StatusInv /\ RequestInv /\ InventoryInv /\ RetractionStands

WindowType == [probe : Status, step : {"idle", "queued", "saved", "told"},
               request : Request, latest : Request]

-----------------------------------------------------------------------------
\* A service that reads a document afresh holds a status, and an honest one.
LEMMA SeededIsHonest ==
  ASSUME NEW doc \in Document
  PROVE  Seeded(doc) \in Status /\ Honest(Seeded(doc)) /\ Fresh(Seeded(doc)) = {}
  BY DEF Seeded, Document, Status, Honest, Fresh

\* A reload keeps no finding the session had not.
LEMMA ReconciledIsHonest ==
  ASSUME NEW doc \in Document, svc \in Status
  PROVE  /\ Reconciled(doc) \in Status /\ Honest(Reconciled(doc))
         /\ Fresh(Reconciled(doc)) \subseteq Fresh(svc)
  BY DEF Reconciled, Seeded, Document, Status, Honest, Fresh

\* What the stores say of some wallpapers is a document.
LEMMA AuthoredIsDocument ==
  ASSUME NEW lib \in SUBSET Wallpapers
  PROVE  Authored(lib) \in Document
  BY DEF Authored, Document

\* The requests and statuses there are before anything was asked.
LEMMA NothingAsked ==
  /\ NoStatus \in Status /\ Honest(NoStatus) /\ Fresh(NoStatus) = {}
  /\ NoRequest \in Request /\ Waiting(NoRequest)
<1>1. [items |-> {}, marks |-> {}] \in Document
  BY DEF Document
<1>2. NoStatus \in Status /\ Honest(NoStatus) /\ Fresh(NoStatus) = {}
  BY <1>1, SeededIsHonest DEF NoStatus
<1>3. NoRequest \in Request /\ Waiting(NoRequest)
  BY <1>2 DEF NoRequest, Request, Waiting, Untouched
<1> QED
  BY <1>2, <1>3

\* A status of the document the stores would compile of a Library marks only what
\* is marked already or what has not been taken back.
LEMMA TakenOver ==
  ASSUME IInv, NEW status \in Status, Honest(status), Untouched(status),
         NEW lib \in SUBSET Wallpapers, status.doc = Authored(lib)
  PROVE  /\ marks \cup (Reported(status) \cap lib) \subseteq Wallpapers
         /\ (marks \cup (Reported(status) \cap lib)) \cap retracted = {}
<1>1. marks \subseteq Wallpapers /\ marks \cap retracted = {}
  BY DEF IInv, TypeOK, RetractionStands
<1>2. ASSUME NEW w \in Reported(status) \cap lib, w \notin marks
      PROVE  w \notin retracted
  <2>1. w \in Wallpapers /\ status.taboo[w] \in {"session", "durable"}
    BY <1>2 DEF Reported, Status
  <2>2. status.taboo[w] # "durable"
    BY <1>2, <2>1 DEF Honest, Authored
  <2> QED
    BY <2>1, <2>2 DEF Untouched, Fresh
<1> QED
  BY <1>1, <1>2

\* What a fault or an edit is counted as.
LEMMA EventTypes ==
  ASSUME TypeOK, Event
  PROVE  spent' \in [failures : Nat, events : Nat]
  BY DEF Event, TypeOK

\* A reload, answered or lost, leaves an honest status with no new finding.
LEMMA AskedKeeps ==
  ASSUME TypeOK, Honest(svc), Asked
  PROVE  /\ svc' \in Status /\ Honest(svc') /\ Fresh(svc') \subseteq Fresh(svc)
         /\ due' \in BOOLEAN /\ spent' \in [failures : Nat, events : Nat]
<1>1. svc' = svc \/ svc' = Reconciled(installed)
  BY DEF Asked, Reload
<1>2. due' \in BOOLEAN
  BY DEF Asked, Reload, TypeOK
<1>3. spent' \in [failures : Nat, events : Nat]
  BY EventTypes DEF Asked, Reload, Fault, TypeOK
<1> QED
  BY <1>1, <1>2, <1>3, ReconciledIsHonest DEF TypeOK

\* A publication leaves a document, and a flag.
LEMMA PublishTypes ==
  ASSUME TypeOK, NEW lib \in SUBSET Wallpapers, Publish(Authored(lib))
  PROVE  installed' \in Document /\ due' \in BOOLEAN
  BY AuthoredIsDocument DEF Publish, TypeOK

\* What the request behind leaves to the lane is a waiting request as well.
LEMMA EndsWell ==
  ASSUME TypeOK, RequestInv, WindowEnds
  PROVE  /\ window' \in WindowType
         /\ window'.step # "saved" /\ window'.probe = window.probe
         /\ Waiting(window'.request) /\ Waiting(window'.latest)
<1>1. window \in WindowType
  BY DEF TypeOK, WindowType
<1>2. WindowIdle \in WindowType
  BY NothingAsked DEF WindowIdle, WindowType
<1>3. CASE window' = [WindowIdle EXCEPT !.probe = window.probe]
  BY <1>1, <1>2, <1>3, NothingAsked DEF WindowType, WindowIdle
<1>4. CASE window' = [window EXCEPT !.step = "queued", !.request = window.latest,
                                    !.latest = NoRequest]
  BY <1>1, <1>4, NothingAsked DEF WindowType, RequestInv
<1> QED
  BY <1>3, <1>4 DEF WindowEnds

\* A generation that moves on leaves the window with old requests only.
LEMMA MadeOld ==
  ASSUME TypeOK, RequestInv,
         NEW latest \in {[window.latest EXCEPT !.current = FALSE], NoRequest},
         window' = [window EXCEPT !.request = [window.request EXCEPT !.current = FALSE],
                                  !.latest = latest]
  PROVE  /\ window' \in WindowType /\ window'.step = window.step /\ window'.probe = window.probe
         /\ Honest(window'.request.status) /\ Honest(window'.latest.status)
         /\ ~window'.request.current /\ ~window'.latest.current
<1> DEFINE Old(r) == [r EXCEPT !.current = FALSE]
<1>1. ASSUME NEW r \in Request, Waiting(r)
      PROVE  Old(r) \in Request /\ Honest(Old(r).status) /\ ~Old(r).current
  BY <1>1 DEF Request, Waiting
<1>2. /\ window.request \in Request /\ Waiting(window.request)
      /\ window.latest \in Request /\ Waiting(window.latest)
  BY DEF TypeOK, RequestInv
<1>3. /\ window' = [window EXCEPT !.request = Old(window.request), !.latest = latest]
      /\ latest \in {Old(window.latest), NoRequest}
  OBVIOUS
<1>4. NoRequest \in Request /\ Honest(NoRequest.status) /\ ~NoRequest.current
  BY NothingAsked DEF Waiting, NoRequest
<1> HIDE DEF Old
<1>5. /\ Old(window.request) \in Request /\ Honest(Old(window.request).status)
      /\ ~Old(window.request).current
  BY <1>1, <1>2
<1>6. latest \in Request /\ Honest(latest.status) /\ ~latest.current
  BY <1>1, <1>2, <1>3, <1>4
<1> QED
  BY <1>3, <1>5, <1>6 DEF TypeOK, WindowType

\* So does every publication the window asks for.
LEMMA BumpMakesOld ==
  ASSUME TypeOK, RequestInv, Bump
  PROVE  /\ window' \in WindowType /\ window'.step = window.step /\ window'.probe = window.probe
         /\ Honest(window'.request.status) /\ Honest(window'.latest.status)
         /\ ~window'.request.current /\ ~window'.latest.current
<1>1. window' = [window EXCEPT !.request = [window.request EXCEPT !.current = FALSE],
                               !.latest = [window.latest EXCEPT !.current = FALSE]]
  BY DEF Bump, TypeOK
<1> QED
  BY <1>1, MadeOld

-----------------------------------------------------------------------------
\* The service's own steps change what it holds; only a failure adds to it.
LEMMA ServiceKeeps ==
  ASSUME IInv, (\E w \in Wallpapers : Fail(w)) \/ Poll \/ Restart
  PROVE  IInv'
<1> USE DEF IInv, LockInv, StatusInv, RequestInv, Waiting, InventoryInv, RetractionStands
<1>1. ASSUME NEW w \in Wallpapers, Fail(w) PROVE IInv'
  <2>1. TypeOK'
    BY <1>1 DEF Fail, TypeOK, disk, inventory, Status
  <2>2. Honest(svc)' /\ Untouched(svc)'
    BY <1>1 DEF Fail, Honest, Untouched, Fresh, TypeOK, Status
  <2>3. \A s \in Status : Untouched(s) => Untouched(s)'
    BY <1>1 DEF Fail, Untouched, TypeOK
  <2> QED
    BY <1>1, <2>1, <2>2, <2>3 DEF Fail, Honest, Untouched, disk, inventory, TypeOK, Request
<1>2. ASSUME svc' \in Status, Honest(svc'), Fresh(svc') \subseteq Fresh(svc),
             due' \in BOOLEAN, spent' \in [failures : Nat, events : Nat],
             UNCHANGED <<disk, installed, timer, inventory, window, compile, lock, retracted>>
      PROVE  IInv'
  BY <1>2 DEF TypeOK, disk, inventory, Honest, Untouched, Fresh
<1>3. ASSUME Poll PROVE IInv'
  BY <1>2, <1>3, AskedKeeps DEF Poll, Asked
<1>4. ASSUME Restart PROVE IInv'
  BY <1>2, <1>4, EventTypes, SeededIsHonest DEF Restart, Fault, TypeOK
<1> QED
  BY <1>1, <1>3, <1>4

\* The timer holds the lock from its question on, so that nothing it learnt is
\* taken back before it is done.
LEMMA TimerKeeps ==
  ASSUME IInv, TimerAsks \/ TimerSteps
  PROVE  IInv'
<1> USE DEF IInv, LockInv, StatusInv, RequestInv, Waiting, InventoryInv, RetractionStands
<1>1. ASSUME TimerAsks PROVE IInv'
  <2>1. TypeOK'
    BY <1>1, NothingAsked DEF TimerAsks, TimerIdle, TypeOK, disk, inventory
  <2> QED
    BY <1>1, <2>1 DEF TimerAsks, TimerIdle, disk, inventory, Honest, Untouched, TypeOK
<1>2. ASSUME TimerEnds PROVE /\ timer' \in [step : {"idle", "asked", "saved", "told"},
                                            status : Status, lib : SUBSET Wallpapers]
                             /\ timer'.step = "idle" /\ Honest(timer'.status) /\ lock' = "free"
  BY <1>2, NothingAsked DEF TimerEnds, TimerIdle
<1>3. ASSUME TimerTakes PROVE IInv'
  <2>1. lock = "timer" /\ window.step # "saved" /\ timer.step = "asked"
    BY <1>3 DEF TimerTakes
  <2>2. /\ \/ /\ timer' = [timer EXCEPT !.step = "saved", !.lib = files] /\ lock' = lock
           \/ TimerEnds
        /\ marks' \subseteq Wallpapers /\ marks' \cap retracted = {}
        /\ spent' \in [failures : Nat, events : Nat]
    <3>1. CASE timer.status.doc = Authored(files)
      BY <1>3, <3>1, <2>1, TakenOver, EventTypes DEF TimerTakes, Fault, TypeOK
    <3>2. CASE timer.status.doc # Authored(files)
      BY <1>3, <3>2, EventTypes DEF TimerTakes, Fault, TypeOK
    <3> QED
      BY <3>1, <3>2
  <2>3. UNCHANGED <<files, installed, due, svc, inventory, window, compile, retracted>>
    BY <1>3 DEF TimerTakes
  <2>4. TypeOK'
    BY <2>2, <2>3, <1>2 DEF TypeOK, inventory
  <2> QED
    BY <2>1, <2>2, <2>3, <2>4, <1>2 DEF Honest, Untouched, TypeOK, inventory
<1>4. ASSUME TimerPublishes PROVE IInv'
  <2>1. lock = "timer" /\ window.step # "saved"
    BY <1>4 DEF TimerPublishes
  <2>2. installed' \in Document /\ due' \in BOOLEAN /\ spent' \in [failures : Nat, events : Nat]
    BY <1>4, PublishTypes, EventTypes DEF TimerPublishes, Fault, TypeOK
  <2>3. (timer' = [timer EXCEPT !.step = "told"] /\ lock' = lock) \/ TimerEnds
    BY <1>4 DEF TimerPublishes
  <2>4. UNCHANGED <<disk, svc, inventory, window, compile, retracted>>
    BY <1>4 DEF TimerPublishes
  <2>5. TypeOK'
    BY <2>2, <2>3, <2>4, <1>2 DEF TypeOK, disk, inventory
  <2> QED
    BY <1>4, <2>1, <2>3, <2>4, <2>5, <1>2
       DEF TimerPublishes, Honest, Untouched, TypeOK, disk, inventory
<1>5. ASSUME TimerReloads PROVE IInv'
  <2>1. lock = "timer" /\ window.step # "saved"
    BY <1>5 DEF TimerReloads
  <2>2. /\ svc' \in Status /\ Honest(svc') /\ Fresh(svc') \subseteq Fresh(svc)
        /\ due' \in BOOLEAN /\ spent' \in [failures : Nat, events : Nat]
    BY <1>5, AskedKeeps DEF TimerReloads
  <2>3. UNCHANGED <<disk, installed, inventory, window, compile, retracted>> /\ TimerEnds
    BY <1>5 DEF TimerReloads
  <2>4. TypeOK'
    BY <2>2, <2>3, <1>2 DEF TypeOK, disk, inventory
  <2> QED
    BY <2>1, <2>2, <2>3, <2>4, <1>2 DEF Honest, Untouched, Fresh, disk, inventory
<1> QED
  BY <1>1, <1>3, <1>4, <1>5 DEF TimerSteps

\* A status on its way to the window becomes a request of the present.
LEMMA WindowLearnsKeeps ==
  ASSUME IInv, WindowLearns
  PROVE  IInv'
<1> USE DEF IInv, LockInv, StatusInv, RequestInv, InventoryInv, RetractionStands
<1>1. ASSUME WindowAsks PROVE IInv'
  <2>1. window' = [window EXCEPT !.probe = svc]
    BY <1>1 DEF WindowAsks
  <2>2. UNCHANGED <<disk, installed, due, svc, timer, inventory, compile, lock, retracted, spent>>
    BY <1>1 DEF WindowAsks
  <2>3. TypeOK'
    BY <2>1, <2>2 DEF TypeOK, disk, inventory
  <2> QED
    BY <2>1, <2>2, <2>3 DEF TypeOK, Waiting, Honest, Untouched, disk, inventory
<1>2. ASSUME WindowAdopts PROVE IInv'
  <2> DEFINE r == [status |-> window.probe, lib |-> library, current |-> TRUE]
  <2>1. r \in Request /\ Waiting(r)
    BY DEF TypeOK, Request, Waiting
  <2>2. \/ /\ window.step = "idle"
           /\ window' = [window EXCEPT !.probe = NoStatus, !.step = "queued", !.request = r]
        \/ window' = [window EXCEPT !.probe = NoStatus, !.latest = r]
        \/ window' = [window EXCEPT !.probe = NoStatus]
    BY <1>2 DEF WindowAdopts, Queue
  <2>3. UNCHANGED <<disk, installed, due, svc, timer, inventory, compile, lock, retracted, spent>>
    BY <1>2 DEF WindowAdopts
  <2> HIDE DEF r
  <2>4. /\ window' \in WindowType /\ window'.probe = NoStatus
        /\ window'.step = "saved" => window.step = "saved"
        /\ Waiting(window'.request) /\ Waiting(window'.latest)
    BY <2>1, <2>2, NothingAsked DEF TypeOK, WindowType
  <2>5. TypeOK'
    BY <2>3, <2>4 DEF TypeOK, WindowType, disk, inventory
  <2> QED
    BY <2>3, <2>4, <2>5, NothingAsked DEF Waiting, Honest, Untouched, disk, inventory
<1>3. ASSUME Rescan PROVE IInv'
  <2>1. /\ window' \in WindowType /\ window'.step = window.step /\ window'.probe = window.probe
        /\ Honest(window'.request.status) /\ Honest(window'.latest.status)
        /\ ~window'.request.current /\ ~window'.latest.current
    BY <1>3, BumpMakesOld DEF Rescan
  <2>2. compile' \in [due : BOOLEAN, told : BOOLEAN]
    BY <1>3 DEF Rescan, Bump, TypeOK
  <2>3. /\ library' = files /\ valid' = TRUE
        /\ UNCHANGED <<disk, installed, due, svc, timer, lock, retracted, spent>>
    BY <1>3 DEF Rescan
  <2>4. TypeOK'
    BY <2>1, <2>2, <2>3 DEF TypeOK, WindowType, disk
  <2> QED
    BY <2>1, <2>3, <2>4 DEF Waiting, Honest, Untouched, disk
<1> QED
  BY <1>1, <1>2, <1>3 DEF WindowLearns

\* A request the window takes over is of the present, or changes nothing.
LEMMA WindowKeeps ==
  ASSUME IInv, WindowSteps \/ WindowRestarts
  PROVE  IInv'
<1> USE DEF IInv, LockInv, StatusInv, RequestInv, InventoryInv, RetractionStands
<1>1. ASSUME WindowTakes PROVE IInv'
  <2> DEFINE r == window.request
  <2>1. UNCHANGED <<files, installed, due, svc, timer, inventory, compile, retracted>>
    BY <1>1 DEF WindowTakes
  <2>2. spent' \in [failures : Nat, events : Nat]
    BY <1>1, EventTypes DEF WindowTakes, Fault, TypeOK
  <2>3. CASE WindowEnds /\ UNCHANGED <<marks, lock>>
    <3>1. TypeOK'
      BY <2>1, <2>2, <2>3, EndsWell DEF TypeOK, WindowType, inventory
    <3> QED
      BY <2>1, <2>3, <3>1, EndsWell DEF Waiting, Honest, Untouched, inventory
  <2>4. CASE /\ r.current /\ lock = "free" /\ r.status.doc = Authored(r.lib)
             /\ marks' = marks \cup (Reported(r.status) \cap r.lib)
             /\ window' = [window EXCEPT !.step = "saved"] /\ lock' = "window"
    <3>1. marks' \subseteq Wallpapers /\ marks' \cap retracted = {}
      BY <2>4, TakenOver DEF Waiting, TypeOK, Request
    <3>2. TypeOK'
      BY <2>1, <2>2, <2>4, <3>1 DEF TypeOK, inventory
    <3> QED
      BY <2>1, <2>4, <3>1, <3>2 DEF Waiting, Honest, Untouched, TypeOK, inventory
  <2> QED
    BY <1>1, <2>3, <2>4 DEF WindowTakes, Prepared
<1>2. ASSUME WindowPublishes PROVE IInv'
  <2>1. window.step = "saved" /\ lock = "window" /\ timer.step = "idle" /\ lock' = "free"
    BY <1>2 DEF WindowPublishes, TypeOK
  <2>2. installed' \in Document /\ due' \in BOOLEAN /\ spent' \in [failures : Nat, events : Nat]
    BY <1>2, PublishTypes, EventTypes DEF WindowPublishes, Fault, TypeOK, Request
  <2>3. window' = [window EXCEPT !.step = "told"] \/ WindowEnds
    BY <1>2 DEF WindowPublishes
  <2>4. UNCHANGED <<disk, svc, timer, inventory, compile, retracted>>
    BY <1>2 DEF WindowPublishes
  <2>5. /\ window' \in WindowType /\ window'.step # "saved" /\ window'.probe = window.probe
        /\ Waiting(window'.request) /\ Waiting(window'.latest)
    <3>1. CASE window' = [window EXCEPT !.step = "told"]
      BY <3>1 DEF TypeOK, WindowType
    <3> QED
      BY <2>3, <3>1, EndsWell
  <2>6. TypeOK'
    BY <2>1, <2>2, <2>4, <2>5 DEF TypeOK, WindowType, disk, inventory
  <2> QED
    BY <2>1, <2>4, <2>5, <2>6 DEF Waiting, Honest, Untouched, disk, inventory
<1>3. ASSUME WindowReloads PROVE IInv'
  <2>1. /\ svc' \in Status /\ Honest(svc') /\ Fresh(svc') \subseteq Fresh(svc)
        /\ due' \in BOOLEAN /\ spent' \in [failures : Nat, events : Nat]
    BY <1>3, AskedKeeps DEF WindowReloads
  <2>2. UNCHANGED <<disk, installed, timer, inventory, compile, lock, retracted>> /\ WindowEnds
    BY <1>3 DEF WindowReloads
  <2>3. TypeOK'
    BY <2>1, <2>2, EndsWell DEF TypeOK, WindowType, disk, inventory
  <2> QED
    BY <2>1, <2>2, <2>3, EndsWell DEF Waiting, Honest, Untouched, Fresh, disk, inventory
<1>4. ASSUME WindowRestarts PROVE IInv'
  <2>1. window' = WindowIdle /\ WindowIdle.step = "idle" /\ WindowIdle.probe = NoStatus
    BY <1>4 DEF WindowRestarts, WindowIdle
  <2>2. UNCHANGED <<disk, installed, due, svc, timer, retracted>> /\ library' = files
    BY <1>4 DEF WindowRestarts
  <2>3. lock' = IF window.step = "saved" THEN "free" ELSE lock
    BY <1>4 DEF WindowRestarts
  <2>4. TypeOK'
    BY <1>4, <2>1, <2>2, <2>3, EventTypes, NothingAsked
       DEF WindowRestarts, WindowIdle, Fault, TypeOK, disk
  <2>5. /\ Honest(NoStatus) /\ Fresh(NoStatus) = {} /\ ~NoRequest.current
        /\ NoRequest.status = NoStatus
        /\ window'.request = NoRequest /\ window'.latest = NoRequest
    BY <2>1, NothingAsked DEF WindowIdle, NoRequest
  <2> QED
    BY <2>1, <2>2, <2>3, <2>4, <2>5 DEF Waiting, Honest, Untouched, disk
<1> QED
  BY <1>1, <1>2, <1>3, <1>4 DEF WindowSteps

\* The person takes a mark back when no writer is at work, and leaves the
\* window with old requests only.
LEMMA PersonKeeps ==
  ASSUME IInv, NEW w \in Wallpapers, TryAgain(w) \/ Remove(w) \/ Install(w)
  PROVE  IInv'
<1> USE DEF IInv, LockInv, StatusInv, RequestInv, InventoryInv, RetractionStands
<1>1. spent' \in [failures : Nat, events : Nat]
  BY EventTypes DEF TryAgain, Remove, Install, Edit
<1>2. UNCHANGED <<installed, due, svc, timer, lock>>
  BY DEF TryAgain, Remove, Install
<1>3. ASSUME Install(w) PROVE IInv'
  <2>1. UNCHANGED <<marks, inventory, window, compile, retracted>> /\ files' = files \cup {w}
    BY <1>3 DEF Install
  <2>2. TypeOK'
    BY <1>1, <1>2, <2>1 DEF TypeOK, inventory
  <2> QED
    BY <1>2, <2>1, <2>2 DEF Waiting, Honest, Untouched, inventory
<1>4. ASSUME marks' = marks \ {w}, TakenBack(w), LaneFree, files' \subseteq Wallpapers,
             library' \subseteq Wallpapers, valid' \in BOOLEAN,
             valid' => library' \subseteq files',
             compile' \in [due : BOOLEAN, told : BOOLEAN],
             window' \in WindowType, window'.step = window.step, window'.probe = window.probe,
             Honest(window'.request.status), Honest(window'.latest.status),
             ~window'.request.current, ~window'.latest.current
      PROVE  IInv'
  <2>1. timer.step = "idle" /\ window.step # "saved"
    BY <1>4 DEF LaneFree
  <2>2. /\ retracted' \subseteq retracted \cup {w} /\ retracted' \subseteq Wallpapers
        /\ w \in retracted' => w \notin Fresh(svc) /\ w \notin Fresh(window.probe)
    BY <1>4 DEF TakenBack, TypeOK
  <2>3. TypeOK'
    BY <1>1, <1>2, <1>4, <2>2 DEF TypeOK, WindowType
  <2>4. Untouched(svc)' /\ Untouched(window.probe)'
    BY <1>2, <1>4, <2>2 DEF Untouched, Fresh
  <2>5. RetractionStands'
    BY <1>4, <2>2
  <2> QED
    BY <1>2, <1>4, <2>1, <2>3, <2>4, <2>5 DEF Waiting, Honest
<1>5. ASSUME TryAgain(w) PROVE IInv'
  <2>1. /\ marks' = marks \ {w} /\ TakenBack(w) /\ LaneFree /\ Bump
        /\ UNCHANGED <<files, inventory>>
    BY <1>5 DEF TryAgain
  <2>2. compile' \in [due : BOOLEAN, told : BOOLEAN]
    BY <2>1 DEF Bump, TypeOK
  <2>3. /\ files' \subseteq Wallpapers /\ library' \subseteq Wallpapers /\ valid' \in BOOLEAN
        /\ valid' => library' \subseteq files'
    BY <2>1 DEF inventory, TypeOK
  <2> QED
    BY <1>4, <2>1, <2>2, <2>3, BumpMakesOld
<1>6. ASSUME Remove(w) PROVE IInv'
  <2>1. /\ marks' = marks \ {w} /\ files' = files \ {w} /\ TakenBack(w) /\ LaneFree
        /\ AdoptRemoval
        /\ window' = [window EXCEPT !.request.current = FALSE, !.latest = NoRequest]
        /\ compile' = [compile EXCEPT !.due = valid']
    BY <1>6 DEF Remove
  <2>2. /\ files' \subseteq Wallpapers /\ library' \subseteq Wallpapers /\ valid' \in BOOLEAN
        /\ valid' => library' \subseteq files'
    BY <2>1 DEF AdoptRemoval, TypeOK
  <2>3. compile' \in [due : BOOLEAN, told : BOOLEAN]
    BY <2>1, <2>2 DEF TypeOK
  <2>4. window' = [window EXCEPT !.request = [window.request EXCEPT !.current = FALSE],
                                 !.latest = NoRequest]
    BY <2>1 DEF TypeOK
  <2> QED
    BY <1>4, <2>1, <2>2, <2>3, <2>4, MadeOld
<1> QED
  BY <1>3, <1>5, <1>6

\* The compile lane changes neither the stores nor what was retracted.
LEMMA LaneKeeps ==
  ASSUME IInv, LaneSteps
  PROVE  IInv'
<1> USE DEF IInv, LockInv, StatusInv, RequestInv, InventoryInv, RetractionStands
<1>1. UNCHANGED <<disk, timer, inventory, window, lock, retracted>>
  BY DEF LaneSteps, Compile, LaneReloads
<1>2. compile' \in [due : BOOLEAN, told : BOOLEAN]
  <2>1. \/ compile' = [due |-> FALSE, told |-> TRUE]
        \/ compile' = [due |-> FALSE, told |-> FALSE]
        \/ compile' = [compile EXCEPT !.due = FALSE]
        \/ compile' = [compile EXCEPT !.told = FALSE]
    BY DEF LaneSteps, Compile, LaneReloads
  <2>2. \A told \in BOOLEAN : [due |-> FALSE, told |-> told] \in [due : BOOLEAN, told : BOOLEAN]
    OBVIOUS
  <2>3. /\ [compile EXCEPT !.due = FALSE] \in [due : BOOLEAN, told : BOOLEAN]
        /\ [compile EXCEPT !.told = FALSE] \in [due : BOOLEAN, told : BOOLEAN]
    BY DEF TypeOK
  <2> QED
    BY <2>1, <2>2, <2>3
<1>3. /\ svc' \in Status /\ Honest(svc') /\ Fresh(svc') \subseteq Fresh(svc)
      /\ spent' \in [failures : Nat, events : Nat]
      /\ installed' \in Document /\ due' \in BOOLEAN
  BY AskedKeeps, PublishTypes, EventTypes DEF LaneSteps, Compile, LaneReloads, Fault, TypeOK
<1>4. TypeOK'
  BY <1>1, <1>2, <1>3 DEF TypeOK, disk, inventory
<1> QED
  BY <1>1, <1>2, <1>3, <1>4 DEF Waiting, Honest, Untouched, Fresh, disk, inventory

-----------------------------------------------------------------------------
\* The invariant holds of every reachable state.
LEMMA HealthInvariant == Spec => []IInv
<1>1. Init => IInv
  <2> SUFFICES ASSUME Init PROVE IInv
    OBVIOUS
  <2>1. installed \in Document
    BY AuthoredIsDocument DEF Init
  <2>2. svc \in Status /\ Honest(svc) /\ Fresh(svc) = {}
    BY <2>1, SeededIsHonest DEF Init
  <2>3. TypeOK
    BY <2>1, <2>2, NothingAsked DEF Init, TypeOK, TimerIdle, WindowIdle
  <2> QED
    BY <2>2, <2>3, NothingAsked DEF Init, IInv, LockInv, StatusInv, RequestInv, InventoryInv,
       RetractionStands, TimerIdle, WindowIdle, Untouched
<1>2. IInv /\ [Next]_vars => IInv'
  <2> SUFFICES ASSUME IInv, [Next]_vars PROVE IInv'
    OBVIOUS
  <2>1. CASE UNCHANGED vars
    BY <2>1 DEF vars, IInv, TypeOK, LockInv, StatusInv, RequestInv, InventoryInv, RetractionStands,
       Waiting, Honest, Untouched
  <2>2. CASE Next
    BY <2>2, ServiceKeeps, TimerKeeps, WindowLearnsKeeps, WindowKeeps, PersonKeeps, LaneKeeps
       DEF Next, Person
  <2> QED
    BY <2>1, <2>2
<1> QED
  BY <1>1, <1>2, PTL DEF Spec

\* Every variable keeps its type, for any wallpapers.
THEOREM HealthTypes == Spec => []TypeOK
<1>1. IInv => TypeOK
  BY DEF IInv
<1> QED
  BY <1>1, HealthInvariant, PTL

\* A mark the person took back (clear_borked, or with its wallpaper), when neither
\* the service nor a status on its way to the window had the finding on its own
\* account, stays away until the wallpaper fails again (mark_taboo).
THEOREM TakenBackForGood == Spec => []RetractionStands
<1>1. IInv => RetractionStands
  BY DEF IInv
<1> QED
  BY <1>1, HealthInvariant, PTL

\* No health write marks a wallpaper that is gone, however late it is, but one of
\* a window whose inventory is invalid, between _adopt_removal_deltas and the next
\* scan.
THEOREM NoMarkOfTheGone == Spec => MarksOfTheLiving
<1> DEFINE Living == \A w \in marks' \ marks :
                       w \in files \/ (lock' = "window" /\ w \in library /\ ~valid)
<1>1. IInv /\ [Next]_vars => [Living]_vars
  <2> SUFFICES ASSUME IInv, Next PROVE Living
    OBVIOUS
  <2>1. CASE TimerTakes
    BY <2>1 DEF TimerTakes
  <2>2. CASE WindowTakes
    <3>1. CASE marks' = marks
      BY <3>1
    <3>2. CASE /\ window.request.current /\ lock' = "window"
               /\ marks' = marks \cup (Reported(window.request.status) \cap window.request.lib)
      BY <3>2 DEF IInv, RequestInv, Waiting, InventoryInv
    <3> QED
      BY <2>2, <3>1, <3>2 DEF WindowTakes, Prepared
  <2>3. CASE Person
    BY <2>3 DEF Person, TryAgain, Remove, Install
  <2>4. CASE \/ \E w \in Wallpapers : Fail(w)
             \/ Poll \/ Restart \/ TimerAsks \/ TimerPublishes \/ TimerReloads
    BY <2>4 DEF Fail, Poll, Restart, TimerAsks, TimerPublishes, TimerReloads, disk
  <2>5. CASE WindowLearns \/ WindowPublishes \/ WindowReloads \/ WindowRestarts \/ LaneSteps
    BY <2>5 DEF WindowLearns, WindowAsks, WindowAdopts, Rescan, WindowPublishes, WindowReloads,
       WindowRestarts, LaneSteps, Compile, LaneReloads, disk
  <2> QED
    BY <2>1, <2>2, <2>3, <2>4, <2>5 DEF Next, TimerSteps, WindowSteps
<1> QED
  BY <1>1, HealthInvariant, PTL DEF Spec, MarksOfTheLiving
=============================================================================
