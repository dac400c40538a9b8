------------------------- MODULE PublicationProofs -------------------------
(* What holds of publication for every set of publishers and of overrides,  *)
(* and whatever the bounds of the checked runs.                             *)
EXTENDS Publication, TLAPS

\* Only the holder of the compiler lock is at work.
Exclusive == \A p \in Publishers : pc[p] # "idle" => lock = {p}

Compiled == {"compiled", "publish", "document", "restore"}
Settled  == {"publish", "document", "restore"}
Midway   == {"document", "restore"}

\* What a publisher compiled is no older than the document it will replace.
Newer ==
  /\ doc.gen <= saved.gen
  /\ \A p \in Publishers :
       pc[p] \in Compiled => doc.gen <= work[p].gen /\ work[p].gen <= saved.gen

\* The web setting is kept still for the document that relies on it.
SettingKept == \A p \in Publishers : pc[p] \in Settled /\ work[p].web => saved.web

\* What is on disk, in terms of the last whole pair, while a publisher replaces it.
Framed ==
  /\ \A p \in Publishers :
       /\ pc[p] \in {"compiled", "publish"} => work[p].prior = side.over
       /\ pc[p] = "document" => side.over = work[p].over
       /\ pc[p] \in Midway /\ ~torn => work[p].prior = whole.over
  /\ doc.gen = whole.gen /\ doc.web = whole.web
  /\ (\A p \in Publishers : pc[p] \notin Midway) /\ ~torn => side.over = whole.over

IInv == TypeOK /\ Exclusive /\ Newer /\ SettingKept /\ Framed

USE DEF vars, files, publ, ghosts, bounds, Bodies, Documents, Sidecars, Jobs, Steps,
        Compiled, Settled, Midway, Contents, NoWork

-----------------------------------------------------------------------------
(* The invariant holds at the start and through every step.                *)

LEMMA NoWorkTyped == NoWork \in Jobs
BY PublicationAssumption

LEMMA InitIInv == Init => IInv
<1> SUFFICES ASSUME Init PROVE IInv
  OBVIOUS
<1>1. PICK o \in Overrides :
        /\ saved = [gen |-> 0, over |-> o, web |-> FALSE]
        /\ doc = [id |-> 1, gen |-> 0, web |-> FALSE]
        /\ side = [id |-> IF o = Absent THEN 0 ELSE 2, over |-> o]
        /\ nextId = 3
        /\ pc = [p \in Publishers |-> "idle"]
        /\ work = [p \in Publishers |-> NoWork]
        /\ lock = {} /\ due = {}
        /\ whole = Contents(doc, side) /\ torn = FALSE
        /\ saves = 0 /\ failures = 0 /\ crashes = 0
  BY DEF Init
<1>2. TypeOK
  <2>1. saved \in [gen : Nat, over : Overrides, web : BOOLEAN]
    BY <1>1
  <2>2. doc \in Documents
    BY <1>1
  <2>3. side \in Sidecars
    BY <1>1
  <2>4. whole = [gen |-> 0, web |-> FALSE, over |-> o]
    BY <1>1
  <2>5. whole \in [gen : Nat, web : BOOLEAN, over : Bodies]
    BY <2>4
  <2>6. work \in [Publishers -> Jobs]
    BY <1>1, NoWorkTyped
  <2> QED BY <1>1, <2>1, <2>2, <2>3, <2>5, <2>6 DEF TypeOK
<1>3. Exclusive /\ Newer /\ SettingKept /\ Framed
  BY <1>1 DEF Exclusive, Newer, SettingKept, Framed
<1> QED BY <1>2, <1>3 DEF IInv

-----------------------------------------------------------------------------
(* What the shared parts of the actions do.                                *)

\* The publication that ends was the only one at work.
LEMMA EndsIdle ==
  ASSUME TypeOK, Exclusive, NEW p \in Publishers, pc[p] # "idle", Ends(p)
  PROVE  /\ \A q \in Publishers : pc'[q] = "idle"
         /\ pc' \in [Publishers -> Steps] /\ work' \in [Publishers -> Jobs]
         /\ lock' \in SUBSET Publishers
         /\ Exclusive' /\ SettingKept'
<1>1. pc' \in [Publishers -> Steps] /\ lock' \in SUBSET Publishers
  BY DEF TypeOK, Ends
<1>2. work' \in [Publishers -> Jobs]
  BY NoWorkTyped DEF TypeOK, Ends
<1>3. \A q \in Publishers : pc'[q] = "idle"
  BY DEF TypeOK, Ends, Exclusive
<1> QED BY <1>1, <1>2, <1>3 DEF Exclusive, SettingKept

\* A publisher that completes leaves a typed history.
LEMMA CompletesTyped ==
  ASSUME TypeOK, NEW p \in Publishers, Completes(p)
  PROVE  whole' \in [gen : Nat, web : BOOLEAN, over : Bodies] /\ torn' = FALSE
<1>1. work[p] \in Jobs
  BY DEF TypeOK
<1>2. work[p].gen \in Nat /\ work[p].web \in BOOLEAN /\ work[p].over \in Bodies
  BY <1>1
<1> QED BY <1>2 DEF Completes

LEMMA PutSideTyped ==
  ASSUME TypeOK, NEW o \in Bodies, PutSide(o)
  PROVE  side' \in Sidecars /\ nextId' \in Nat /\ side'.over = o
BY DEF TypeOK, PutSide

\* What a publisher compiled with is typed.
LEMMA WorkTyped ==
  ASSUME TypeOK, NEW p \in Publishers
  PROVE  /\ work[p] \in Jobs
         /\ work[p].gen \in Nat /\ work[p].tries \in Nat
         /\ work[p].over \in Bodies /\ work[p].prior \in Bodies
         /\ work[p].web \in BOOLEAN
<1>1. work[p] \in Jobs
  BY DEF TypeOK
<1> QED BY <1>1

-----------------------------------------------------------------------------
(* One lemma per action.                                                   *)

LEMMA SaveIInv ==
  ASSUME IInv, NEW p \in Publishers, NEW g \in 0..1, NEW o \in Overrides, NEW w \in BOOLEAN,
         Save(p, g, o, w)
  PROVE  IInv'
BY DEF IInv, TypeOK, Exclusive, Newer, SettingKept, Framed, Save, SettingHeld

LEMMA TakeLockIInv ==
  ASSUME IInv, NEW p \in Publishers,
         TakeLock(p)
  PROVE  IInv'
BY DEF IInv, TypeOK, Exclusive, Newer, SettingKept, Framed, TakeLock

LEMMA GiveUpIInv ==
  ASSUME IInv, NEW p \in Publishers,
         GiveUp(p)
  PROVE  IInv'
BY DEF IInv, TypeOK, Exclusive, Newer, SettingKept, Framed, GiveUp

LEMMA CompileIInv ==
  ASSUME IInv, NEW p \in Publishers, Compile(p)
  PROVE  IInv'
<1> USE DEF IInv, Compile
<1>1. TypeOK'
  <2> DEFINE job == [work[p] EXCEPT !.gen = saved.gen, !.over = saved.over,
                                    !.prior = side.over]
  <2>1. work[p] \in Jobs /\ saved.gen \in Nat /\ saved.over \in Bodies /\ side.over \in Bodies
    BY DEF TypeOK
  <2>2. job \in Jobs
    BY <2>1
  <2>3. work' = [work EXCEPT ![p] = job]
    OBVIOUS
  <2> HIDE DEF job
  <2>4. work' \in [Publishers -> Jobs]
    BY <2>2, <2>3 DEF TypeOK
  <2> QED BY <2>4 DEF TypeOK
<1>2. Exclusive'
  BY DEF Exclusive, TypeOK
<1>3. Newer'
  BY DEF Newer, TypeOK
<1>4. SettingKept'
  BY DEF SettingKept, TypeOK
<1>5. Framed'
  BY DEF Framed, TypeOK
<1> QED BY <1>1, <1>2, <1>3, <1>4, <1>5

LEMMA SettingAgreesIInv ==
  ASSUME IInv, NEW p \in Publishers,
         SettingAgrees(p)
  PROVE  IInv'
BY DEF IInv, TypeOK, Exclusive, Newer, SettingKept, Framed, SettingAgrees

LEMMA SettingMovedIInv ==
  ASSUME IInv, NEW p \in Publishers, SettingMoved(p)
  PROVE  IInv'
<1> USE DEF IInv, SettingMoved
<1>1. CASE work[p].tries + 1 < Attempts
  <2> DEFINE job == [work[p] EXCEPT !.web = saved.web, !.tries = work[p].tries + 1]
  <2>1. work[p] \in Jobs /\ saved.web \in BOOLEAN /\ work[p].tries + 1 \in 0..(Attempts - 1)
    BY <1>1, WorkTyped, PublicationAssumption DEF TypeOK
  <2>2. job \in Jobs
    <3>1. job = [work[p] EXCEPT !.web = saved.web, !.tries = work[p].tries + 1]
      OBVIOUS
    <3> HIDE DEF job, SettingMoved
    <3> QED BY <2>1, <3>1
  <2>3. work' = [work EXCEPT ![p] = job] /\ UNCHANGED <<pc, lock>>
    BY <1>1
  <2>4. \A q \in Publishers :
           /\ work'[q].gen = work[q].gen /\ work'[q].over = work[q].over
           /\ work'[q].prior = work[q].prior
    BY <2>1, <2>3 DEF TypeOK
  <2>5. \A q \in Publishers \ {p} : work'[q] = work[q]
    BY <2>3 DEF TypeOK
  <2> HIDE DEF job
  <2>6. TypeOK'
    BY <2>2, <2>3 DEF TypeOK
  <2>7. Exclusive'
    BY <2>3 DEF Exclusive
  <2>8. Newer'
    BY <2>3, <2>4 DEF Newer
  <2>9. SettingKept'
    BY <2>3, <2>5 DEF SettingKept
  <2>10. Framed'
    BY <2>3, <2>4 DEF Framed
  <2> QED BY <2>6, <2>7, <2>8, <2>9, <2>10
<1>2. CASE ~(work[p].tries + 1 < Attempts)
  <2>1. Ends(p) /\ pc[p] # "idle"
    BY <1>2
  <2>2. \A q \in Publishers : pc[q] \notin Midway
    BY <2>1 DEF Exclusive, TypeOK
  <2>3. TypeOK' /\ Exclusive' /\ SettingKept'
    BY <2>1, EndsIdle DEF TypeOK
  <2>4. Newer' /\ Framed'
    BY <2>1, <2>2, EndsIdle DEF Newer, Framed
  <2> QED BY <2>3, <2>4
<1> QED BY <1>1, <1>2

LEMMA NothingToWriteIInv ==
  ASSUME IInv, NEW p \in Publishers, NothingToWrite(p)
  PROVE  IInv'
<1> USE DEF IInv, NothingToWrite
<1>1. Completes(p) /\ Ends(p) /\ pc[p] # "idle"
  BY DEF Completes
<1>2. TypeOK' /\ Exclusive' /\ SettingKept'
  BY <1>1, EndsIdle, CompletesTyped DEF TypeOK
<1>3. Newer'
  BY <1>1, EndsIdle DEF Newer
<1>4. Framed'
  BY <1>1, EndsIdle DEF Framed, Completes, DocumentChanged, OverridesChanged
<1> QED BY <1>2, <1>3, <1>4

LEMMA PublishOverridesIInv ==
  ASSUME IInv, NEW p \in Publishers, PublishOverrides(p)
  PROVE  IInv'
<1> USE DEF IInv, PublishOverrides
<1>1. side' \in Sidecars /\ nextId' \in Nat /\ side'.over = work[p].over
  BY WorkTyped, PutSideTyped
<1>2. \A q \in Publishers \ {p} : pc[q] = "idle"
  BY DEF Exclusive, TypeOK
<1>3. CASE DocumentChanged(p)
  <2>1. pc' = [pc EXCEPT ![p] = "document"] /\ UNCHANGED <<work, lock, ghosts>>
    BY <1>3
  <2>2. TypeOK'
    BY <1>1, <2>1 DEF TypeOK
  <2>3. Exclusive' /\ Newer' /\ SettingKept'
    BY <1>2, <2>1 DEF Exclusive, Newer, SettingKept, TypeOK
  <2>4. Framed'
    BY <1>1, <1>2, <2>1 DEF Framed, TypeOK
  <2> QED BY <2>2, <2>3, <2>4
<1>4. CASE ~DocumentChanged(p)
  <2>1. Completes(p) /\ Ends(p) /\ pc[p] # "idle"
    BY <1>4 DEF Completes
  <2>2. TypeOK' /\ Exclusive' /\ SettingKept'
    BY <1>1, <2>1, EndsIdle, CompletesTyped DEF TypeOK
  <2>3. Newer'
    BY <2>1, EndsIdle DEF Newer
  <2>4. Framed'
    BY <1>1, <1>4, <2>1, EndsIdle DEF Framed, Completes, DocumentChanged
  <2> QED BY <2>2, <2>3, <2>4
<1> QED BY <1>3, <1>4

LEMMA SkipOverridesIInv ==
  ASSUME IInv, NEW p \in Publishers, SkipOverrides(p)
  PROVE  IInv'
<1> USE DEF IInv, SkipOverrides
<1>1. \A q \in Publishers \ {p} : pc[q] = "idle"
  BY DEF Exclusive, TypeOK
<1>2. TypeOK'
  BY DEF TypeOK
<1>3. Exclusive' /\ Newer' /\ SettingKept'
  BY <1>1 DEF Exclusive, Newer, SettingKept, TypeOK
<1>4. Framed'
  BY <1>1 DEF Framed, OverridesChanged, TypeOK
<1> QED BY <1>2, <1>3, <1>4

LEMMA InstallDocumentIInv ==
  ASSUME IInv, NEW p \in Publishers, InstallDocument(p)
  PROVE  IInv'
<1> USE DEF IInv, InstallDocument
<1>1. Completes(p) /\ Ends(p) /\ pc[p] # "idle"
  BY DEF Completes
<1>2. doc' \in Documents /\ nextId' \in Nat
  <2>1. work[p].gen \in Nat /\ work[p].web \in BOOLEAN
    BY WorkTyped
  <2> QED BY <2>1 DEF TypeOK
<1>3. TypeOK' /\ Exclusive' /\ SettingKept'
  BY <1>1, <1>2, EndsIdle, CompletesTyped DEF TypeOK
<1>4. Newer'
  BY <1>1, EndsIdle DEF Newer
<1>5. Framed'
  BY <1>1, EndsIdle DEF Framed, Completes
<1> QED BY <1>3, <1>4, <1>5

LEMMA WriteFailsIInv ==
  ASSUME IInv, NEW p \in Publishers, WriteFails(p)
  PROVE  IInv'
<1> USE DEF IInv, WriteFails
<1>1. \A q \in Publishers \ {p} : pc[q] = "idle"
  BY DEF Exclusive, TypeOK
<1>2. failures' \in Nat
  BY DEF TypeOK
<1>3. CASE OverridesAhead(p)
  <2>1. pc[p] = "document" /\ pc' = [pc EXCEPT ![p] = "restore"] /\ UNCHANGED <<work, lock>>
    BY <1>3 DEF OverridesAhead
  <2>2. TypeOK'
    BY <1>2, <2>1 DEF TypeOK
  <2>3. Exclusive' /\ Newer' /\ SettingKept'
    BY <1>1, <2>1 DEF Exclusive, Newer, SettingKept, TypeOK
  <2>4. Framed'
    BY <1>1, <2>1 DEF Framed, TypeOK
  <2> QED BY <2>2, <2>3, <2>4
<1>4. CASE ~OverridesAhead(p)
  <2>1. Ends(p) /\ pc[p] # "idle"
    BY <1>4
  <2>2. TypeOK' /\ Exclusive' /\ SettingKept'
    BY <1>2, <2>1, EndsIdle DEF TypeOK
  <2>3. Newer'
    BY <2>1, EndsIdle DEF Newer
  <2>4. ~torn => side.over = whole.over
    BY <1>1, <1>4 DEF Framed, OverridesAhead, TypeOK
  <2>5. Framed'
    BY <2>1, <2>4, EndsIdle DEF Framed
  <2> QED BY <2>2, <2>3, <2>5
<1> QED BY <1>3, <1>4

LEMMA RestoreIInv ==
  ASSUME IInv, NEW p \in Publishers, Restore(p)
  PROVE  IInv'
<1> USE DEF IInv, Restore
<1>1. side' \in Sidecars /\ nextId' \in Nat /\ side'.over = work[p].prior
  BY WorkTyped, PutSideTyped
<1>2. TypeOK' /\ Exclusive' /\ SettingKept'
  BY <1>1, EndsIdle DEF TypeOK
<1>3. Newer'
  BY EndsIdle DEF Newer
<1>4. Framed'
  BY <1>1, EndsIdle DEF Framed
<1> QED BY <1>2, <1>3, <1>4

LEMMA RestoreFailsIInv ==
  ASSUME IInv, NEW p \in Publishers, RestoreFails(p)
  PROVE  IInv'
<1> USE DEF IInv, RestoreFails
<1>1. TypeOK' /\ Exclusive' /\ SettingKept'
  BY EndsIdle DEF TypeOK
<1>2. Newer'
  BY EndsIdle DEF Newer
<1>3. Framed'
  BY EndsIdle DEF Framed
<1> QED BY <1>1, <1>2, <1>3

LEMMA PublisherCrashIInv ==
  ASSUME IInv, NEW p \in Publishers, PublisherCrash(p)
  PROVE  IInv'
<1> USE DEF IInv, PublisherCrash
<1>1. \A q \in Publishers \ {p} : pc[q] = "idle"
  BY DEF Exclusive, TypeOK
<1>2. torn' \in BOOLEAN /\ crashes' \in Nat
  BY DEF TypeOK, OverridesAhead
<1>3. TypeOK' /\ Exclusive' /\ SettingKept'
  BY <1>2, EndsIdle DEF TypeOK
<1>4. Newer'
  BY EndsIdle DEF Newer
<1>5. ~torn' => side.over = whole.over
  BY <1>1 DEF Framed, OverridesAhead, TypeOK
<1>6. Framed'
  BY <1>5, EndsIdle DEF Framed
<1> QED BY <1>3, <1>4, <1>6

-----------------------------------------------------------------------------
(* The invariant is inductive, and what follows from it.                   *)

LEMMA NextIInv == IInv /\ [Next]_vars => IInv'
<1> SUFFICES ASSUME IInv, [Next]_vars PROVE IInv'
  OBVIOUS
<1>1. CASE UNCHANGED vars
  BY <1>1 DEF IInv, TypeOK, Exclusive, Newer, SettingKept, Framed
<1>2. CASE \E p \in Publishers, g \in 0..1, o \in Overrides, w \in BOOLEAN : Save(p, g, o, w)
  BY <1>2, SaveIInv
<1>3. ASSUME NEW p \in Publishers,
             TakeLock(p) \/ GiveUp(p) \/ Publishes(p) \/ PublisherCrash(p)
      PROVE  IInv'
  <2>1. CASE TakeLock(p) \/ GiveUp(p) \/ PublisherCrash(p)
    BY <2>1, TakeLockIInv, GiveUpIInv, PublisherCrashIInv
  <2>2. CASE Publishes(p)
    BY <2>2, CompileIInv, SettingAgreesIInv, SettingMovedIInv, NothingToWriteIInv,
       PublishOverridesIInv, SkipOverridesIInv, InstallDocumentIInv, WriteFailsIInv,
       RestoreIInv, RestoreFailsIInv
    DEF Publishes
  <2> QED BY <1>3, <2>1, <2>2
<1> QED BY <1>1, <1>2, <1>3 DEF Next

LEMMA Inductive == Spec => []IInv
BY InitIInv, NextIInv, PTL DEF Spec

\* Every reachable state of publication is well typed, for any number of
\* publishers, saves, failures and crashes.
THEOREM TypeCorrect == Spec => []TypeOK
<1>1. IInv => TypeOK
  BY DEF IInv
<1> QED BY <1>1, Inductive, PTL

\* With nobody at work and nothing split by a crash, runtime.toml and the
\* overrides beside it are what one whole publication compiled (_publish).
THEOREM PairAlwaysKept == Spec => []PairKept
<1>1. IInv => PairKept
  <2> SUFFICES ASSUME IInv, lock = {}, ~torn PROVE Contents(doc, side) = whole
    BY DEF PairKept
  <2>1. \A p \in Publishers : pc[p] \notin Midway
    BY DEF IInv, Exclusive
  <2>2. doc.gen = whole.gen /\ doc.web = whole.web /\ side.over = whole.over
    BY <2>1 DEF IInv, Framed
  <2>3. whole = [gen |-> whole.gen, web |-> whole.web, over |-> whole.over]
    BY DEF IInv, TypeOK
  <2> QED BY <2>2, <2>3
<1> QED BY <1>1, Inductive, PTL

\* Only an installation moves the document, and it moves it to what the
\* publisher compiled, in the step the invariant constrains.
LEMMA DocumentMoves ==
  ASSUME [Next]_vars
  PROVE  doc' = doc \/ \E p \in Publishers : InstallDocument(p)
BY DEF Next, Save, TakeLock, GiveUp, Publishes, PublisherCrash, Compile, SettingAgrees,
       SettingMoved, NothingToWrite, PublishOverrides, SkipOverrides, WriteFails, Restore,
       RestoreFails

\* A publication that read the stores earlier never replaces the document of
\* one that read them later (_publish_changes_locked under compiler_lock).
THEOREM NoRollback == Spec => NeverRolledBack
<1>1. IInv /\ [Next]_vars => [doc'.gen >= doc.gen]_doc
  <2> SUFFICES ASSUME IInv, NEW p \in Publishers, InstallDocument(p)
               PROVE  doc'.gen >= doc.gen
    BY DocumentMoves
  <2>1. doc.gen <= work[p].gen
    BY DEF IInv, Newer, InstallDocument
  <2>2. work[p].gen \in Nat /\ doc.gen \in Nat
    BY WorkTyped DEF IInv, TypeOK
  <2> QED BY <2>1, <2>2 DEF InstallDocument
<1> QED BY <1>1, Inductive, PTL DEF Spec, NeverRolledBack

\* No document that allows web wallpapers is installed while settings.toml
\* says they are off (_web_setting_held).
THEOREM WebOffAlwaysKept == Spec => WebOffKept
<1>1. IInv /\ [Next]_vars => [doc' # doc /\ doc'.web => saved.web]_vars
  <2> SUFFICES ASSUME IInv, NEW p \in Publishers, InstallDocument(p), doc'.web
               PROVE  saved.web
    BY DocumentMoves
  <2> QED BY DEF IInv, SettingKept, InstallDocument
<1> QED BY <1>1, Inductive, PTL DEF Spec, WebOffKept

-----------------------------------------------------------------------------
(* Publishers implement AtomicPair.                                        *)

\* What is seen is the last whole pair, in every state.
Seen ==
  /\ PairSeen = whole
  /\ whole = [gen |-> doc.gen, over |-> whole.over, web |-> doc.web]

LEMMA SeenIsWhole == IInv => Seen
<1> SUFFICES ASSUME IInv PROVE Seen
  OBVIOUS
<1>1. whole = [gen |-> whole.gen, web |-> whole.web, over |-> whole.over]
  BY DEF IInv, TypeOK
<1>2. doc.gen = whole.gen /\ doc.web = whole.web
  BY DEF IInv, Framed
<1>3. lock = {} /\ ~torn => side.over = whole.over
  BY DEF IInv, Exclusive, Framed
<1> QED BY <1>1, <1>2, <1>3 DEF PairSeen, Seen

ReadBy(p) == [gen |-> work[p].gen, over |-> work[p].over]

\* Publications take turns: at most one has read the stores.
OneReads ==
  /\ \A p \in Publishers : pc[p] \in Compiled => InProgress = {ReadBy(p)}
  /\ (\A p \in Publishers : pc[p] \notin Compiled) => InProgress = {}

LEMMA OneInProgress == IInv => OneReads
<1> SUFFICES ASSUME IInv PROVE OneReads
  OBVIOUS
<1>1. ASSUME NEW p \in Publishers, pc[p] \in Compiled
      PROVE  {q \in Publishers : pc[q] \in Compiled} = {p}
  BY <1>1 DEF IInv, Exclusive
<1> QED BY <1>1 DEF InProgress, ReadBy, OneReads

LEMMA InEveryState ==
  /\ IInv => Seen /\ OneReads
  /\ IInv' => Seen' /\ OneReads'
<1>1. IInv => Seen /\ OneReads
  BY SeenIsWhole, OneInProgress
<1> QED BY <1>1, PTL

\* A step that leaves the lock with a publisher leaves what was read with it.
LEMMA StaysInProgress ==
  ASSUME IInv, IInv', NEW p \in Publishers, pc[p] \in Compiled, pc'[p] \in Compiled,
         work'[p].gen = work[p].gen, work'[p].over = work[p].over
  PROVE  InProgress' = InProgress
<1>1. InProgress = {ReadBy(p)}
  BY InEveryState DEF OneReads
<1>2. InProgress' = {ReadBy(p)'}
  BY InEveryState DEF OneReads
<1> QED BY <1>1, <1>2 DEF ReadBy

LEMMA EndsProgress ==
  ASSUME IInv, IInv', NEW p \in Publishers, pc[p] # "idle", Ends(p)
  PROVE  InProgress' = {}
<1>1. \A q \in Publishers : pc'[q] \notin Compiled
  BY EndsIdle DEF IInv
<1> QED BY <1>1, InEveryState DEF OneReads

LEMMA CompletesCommits ==
  ASSUME IInv, IInv', NEW p \in Publishers, pc[p] \in Settled, Completes(p), UNCHANGED saved
  PROVE  \E r \in InProgress, web \in BOOLEAN : Pairs!Commits(r, web)
<1>1. ReadBy(p) \in InProgress /\ work[p].web \in BOOLEAN
  BY InEveryState, WorkTyped DEF IInv, OneReads
<1>2. whole' = [gen |-> work[p].gen, web |-> work[p].web, over |-> work[p].over] /\ torn' = FALSE
  BY DEF Completes
<1>3. InProgress' = {}
  BY EndsProgress DEF Completes
<1>4. PairSeen = whole /\ PairSeen' = whole' /\ whole.gen = doc.gen
  BY InEveryState DEF Seen
<1>5. work[p].gen >= doc.gen /\ (work[p].web => saved.web)
  <2>1. doc.gen <= work[p].gen /\ work[p].gen \in Nat /\ doc.gen \in Nat
    BY WorkTyped DEF IInv, TypeOK, Newer
  <2> QED BY <2>1 DEF IInv, SettingKept
<1>6. Pairs!Commits(ReadBy(p), work[p].web)
  BY <1>2, <1>3, <1>4, <1>5 DEF Pairs!Commits, ReadBy
<1> QED BY <1>1, <1>6

\* A publication that ends otherwise has published nothing.
LEMMA EndsGivesUp ==
  ASSUME IInv, IInv', NEW p \in Publishers, pc[p] # "idle", Ends(p),
         UNCHANGED <<saved, whole>>, torn' \in {torn, TRUE}, pc[p] = "compile" => torn' = torn
  PROVE  [Pairs!PairNext]_<<saved, PairSeen, torn, InProgress>>
<1>1. InProgress' = {} /\ PairSeen' = PairSeen
  BY EndsProgress, InEveryState DEF Seen
<1>2. CASE pc[p] \in Compiled
  <2>1. InProgress # {}
    BY <1>2, InEveryState DEF OneReads
  <2> QED BY <1>1, <2>1 DEF Pairs!PairNext, Pairs!GivesUp
<1>3. CASE pc[p] \notin Compiled
  <2>1. pc[p] = "compile"
    BY <1>3 DEF IInv, TypeOK
  <2>2. InProgress = {}
    BY <2>1, InEveryState DEF IInv, Exclusive, OneReads
  <2> QED BY <1>1, <2>1, <2>2
<1> QED BY <1>2, <1>3

LEMMA InitPair == Init => Pairs!PairInit
<1> SUFFICES ASSUME Init PROVE Pairs!PairInit
  OBVIOUS
<1>1. PICK o \in Overrides :
        /\ saved = [gen |-> 0, over |-> o, web |-> FALSE]
        /\ doc = [id |-> 1, gen |-> 0, web |-> FALSE]
        /\ side = [id |-> IF o = Absent THEN 0 ELSE 2, over |-> o]
        /\ whole = Contents(doc, side) /\ torn = FALSE
  BY DEF Init
<1>2. IInv
  BY InitIInv
<1>3. \A p \in Publishers : pc[p] = "idle"
  BY DEF Init
<1>4. InProgress = {} /\ PairSeen = whole
  BY <1>2, <1>3, InEveryState DEF Seen, OneReads
<1> QED BY <1>1, <1>4 DEF Pairs!PairInit

LEMMA NextPair ==
  ASSUME IInv, IInv', [Next]_vars
  PROVE  [Pairs!PairNext]_<<saved, PairSeen, torn, InProgress>>
<1>1. PairSeen = whole /\ PairSeen' = whole'
  BY InEveryState DEF Seen
<1>2. ASSUME UNCHANGED <<pc, work>>
      PROVE  InProgress' = InProgress
  BY <1>2 DEF InProgress
<1>3. CASE UNCHANGED vars
  BY <1>1, <1>2, <1>3
<1>4. ASSUME NEW p \in Publishers, NEW g \in 0..1, NEW o \in Overrides, NEW w \in BOOLEAN,
             Save(p, g, o, w)
      PROVE  Pairs!PairNext
  <2>1. saved' \in [gen : {saved.gen, saved.gen + 1}, over : Overrides, web : BOOLEAN]
    BY <1>4 DEF Save, IInv, TypeOK
  <2>2. UNCHANGED <<whole, torn, pc, work>>
    BY <1>4 DEF Save
  <2> QED BY <1>1, <1>2, <2>1, <2>2 DEF Pairs!PairNext, Pairs!Saves
<1>5. ASSUME NEW p \in Publishers, TakeLock(p)
      PROVE  UNCHANGED <<saved, PairSeen, torn, InProgress>>
  <2>1. \A q \in Publishers : pc[q] = "idle"
    BY <1>5 DEF TakeLock, IInv, Exclusive
  <2>2. \A q \in Publishers : pc'[q] \notin Compiled
    BY <1>5, <2>1 DEF TakeLock, IInv, TypeOK
  <2>3. InProgress = {} /\ InProgress' = {}
    BY <2>1, <2>2, InEveryState DEF OneReads
  <2> QED BY <1>1, <1>5, <2>3 DEF TakeLock
<1>6. ASSUME NEW p \in Publishers, Compile(p)
      PROVE  Pairs!PairNext
  <2>1. InProgress = {}
    BY <1>6, InEveryState DEF Compile, IInv, Exclusive, OneReads
  <2>2. pc'[p] = "compiled" /\ work'[p].gen = saved.gen /\ work'[p].over = saved.over
    <3>1. work[p] \in Jobs /\ DOMAIN pc = Publishers /\ DOMAIN work = Publishers
      BY WorkTyped DEF IInv, TypeOK
    <3>2. pc'[p] = "compiled"
      BY <1>6, <3>1 DEF Compile
    <3> DEFINE job == [work[p] EXCEPT !.gen = saved.gen, !.over = saved.over,
                                      !.prior = side.over]
    <3>3. job.gen = saved.gen /\ job.over = saved.over
      BY <3>1
    <3>4. work' = [work EXCEPT ![p] = job]
      BY <1>6 DEF Compile
    <3> HIDE DEF job
    <3> QED BY <3>1, <3>2, <3>3, <3>4
  <2>3. InProgress' = {ReadBy(p)'}
    BY <2>2, InEveryState DEF OneReads
  <2>4. UNCHANGED <<saved, whole, torn>>
    BY <1>6 DEF Compile
  <2> QED BY <1>1, <2>1, <2>2, <2>3, <2>4
      DEF Pairs!PairNext, Pairs!Reads, Pairs!StoresRead, ReadBy
<1>7. ASSUME NEW p \in Publishers,
             SettingAgrees(p) \/ SkipOverrides(p)
             \/ (PublishOverrides(p) /\ DocumentChanged(p))
             \/ (WriteFails(p) /\ OverridesAhead(p))
      PROVE  UNCHANGED <<saved, PairSeen, torn, InProgress>>
  <2>1. UNCHANGED <<saved, whole, torn, work>> /\ pc[p] \in Compiled /\ pc'[p] \in Compiled
    BY <1>7 DEF SettingAgrees, SkipOverrides, PublishOverrides, WriteFails, IInv, TypeOK
  <2> QED BY <1>1, <2>1, StaysInProgress
<1>8. ASSUME NEW p \in Publishers, SettingMoved(p)
      PROVE  [Pairs!PairNext]_<<saved, PairSeen, torn, InProgress>>
  <2>1. UNCHANGED <<saved, whole, torn>> /\ pc[p] = "compiled"
    BY <1>8 DEF SettingMoved
  <2>2. CASE Ends(p)
    BY <2>1, <2>2, EndsGivesUp
  <2>3. CASE /\ work' = [work EXCEPT ![p] =
                  [@ EXCEPT !.web = saved.web, !.tries = work[p].tries + 1]]
             /\ UNCHANGED <<pc, lock>>
    <3> DEFINE job == [work[p] EXCEPT !.web = saved.web, !.tries = work[p].tries + 1]
    <3>1. work[p] \in Jobs /\ DOMAIN work = Publishers
      BY WorkTyped DEF IInv, TypeOK
    <3>2. job.gen = work[p].gen /\ job.over = work[p].over
      BY <3>1
    <3>3. work' = [work EXCEPT ![p] = job]
      BY <2>3
    <3> HIDE DEF job
    <3>4. work'[p].gen = work[p].gen /\ work'[p].over = work[p].over
      BY <3>1, <3>2, <3>3
    <3>5. InProgress' = InProgress
      BY <2>1, <2>3, <3>4, StaysInProgress
    <3> QED BY <1>1, <2>1, <3>5
  <2> QED BY <1>8, <2>2, <2>3 DEF SettingMoved
<1>9. ASSUME NEW p \in Publishers,
             NothingToWrite(p) \/ InstallDocument(p)
             \/ (PublishOverrides(p) /\ ~DocumentChanged(p))
      PROVE  Pairs!PairNext
  <2>1. Completes(p) /\ pc[p] \in Settled /\ UNCHANGED saved
    BY <1>9 DEF NothingToWrite, InstallDocument, PublishOverrides
  <2> QED BY <2>1, CompletesCommits DEF Pairs!PairNext
<1>10. ASSUME NEW p \in Publishers,
              (WriteFails(p) /\ ~OverridesAhead(p))
              \/ Restore(p) \/ RestoreFails(p) \/ PublisherCrash(p)
       PROVE  [Pairs!PairNext]_<<saved, PairSeen, torn, InProgress>>
  <2>1. Ends(p) /\ pc[p] # "idle" /\ UNCHANGED <<saved, whole>>
    BY <1>10 DEF WriteFails, Restore, RestoreFails, PublisherCrash
  <2>2. torn' \in {torn, TRUE} /\ (pc[p] = "compile" => torn' = torn)
    BY <1>10 DEF WriteFails, Restore, RestoreFails, PublisherCrash, OverridesAhead, IInv, TypeOK
  <2> QED BY <2>1, <2>2, EndsGivesUp
<1>11. ASSUME NEW p \in Publishers, GiveUp(p)
       PROVE  UNCHANGED <<saved, PairSeen, torn, InProgress>>
  BY <1>1, <1>2, <1>11 DEF GiveUp
<1> QED
  BY <1>3, <1>4, <1>5, <1>6, <1>7, <1>8, <1>9, <1>10, <1>11 DEF Next, Publishes

\* Any publishers, however they interleave, retry, fail and die, publish the two files
\* as one atomic pair, in the order they read the stores (publish_changes, _publish and
\* _publish_overrides under compiler_lock).
THEOREM PublishersAreAtomic == Spec => PairIsAtomic
<1>1. IInv /\ IInv' /\ [Next]_vars => [Pairs!PairNext]_<<saved, PairSeen, torn, InProgress>>
  BY NextPair
<1> QED
  BY <1>1, InitPair, Inductive, PTL DEF Spec, PairIsAtomic, Pairs!PairSpec
=============================================================================
