------------------------- MODULE ServiceWatchProofs -------------------------
(***************************************************************************)
(* Nothing the publishers put on disk is missed by the service, for every  *)
(* set of publishers, overrides and requests, however its two stats and    *)
(* two reads fall between their renames.  It rests on a rename installing  *)
(* an inode the service has never stat'ed.                                 *)
(***************************************************************************)
EXTENDS ServiceWatch, PublicationProofs

\* Every inode on disk or in a fingerprint has been given out; a file that is there has one.
Numbered ==
  /\ doc.id < nextId /\ side.id < nextId
  /\ known.doc < nextId /\ known.side < nextId
  /\ seen.doc < nextId /\ seen.side < nextId
  /\ side.id = 0 => side.over = Absent

\* A file that still is the one stat'ed before a load is the one that load read.
ReadSinceSeen ==
  /\ ~refused /\ known.doc = doc.id => tried.doc = doc
  /\ ~refused /\ known.side = side.id /\ side.id # 0 => tried.side = side
  /\ svc = "apply" /\ seen.doc = doc.id => got = doc

WatchInv == IInv /\ ServiceTypeOK /\ Numbered /\ ReadSinceSeen

-----------------------------------------------------------------------------
\* What the files and fingerprints are made of.
LEMMA Numbers ==
  ASSUME TypeOK, ServiceTypeOK
  PROVE  /\ doc.id \in Nat /\ side.id \in Nat /\ nextId \in Nat
         /\ known.doc \in Nat /\ known.side \in Nat /\ seen.doc \in Nat /\ seen.side \in Nat
<1>1. doc \in Documents /\ side \in Sidecars /\ nextId \in Nat
  BY DEF TypeOK
<1>2. known \in [doc : Nat, side : Nat] /\ seen \in [doc : Nat, side : Nat]
  BY DEF ServiceTypeOK
<1> QED
  BY <1>1, <1>2 DEF Documents, Sidecars

LEMMA InitWatchInv ==
  ASSUME WatchInit PROVE WatchInv
<1>1. IInv /\ TypeOK
  BY InitIInv DEF WatchInit, IInv
<1>2. /\ known = Fingerprint /\ seen = Fingerprint /\ got = doc /\ tried = Pair
      /\ svc = "down" /\ why = "" /\ refused = FALSE /\ restarts = 0
  BY DEF WatchInit, ServiceInit
<1>3. ServiceTypeOK
  BY <1>1, <1>2 DEF ServiceTypeOK, TypeOK, Fingerprint, Pair, Documents, Sidecars
<1>4. Numbered
  <2>1. PICK o \in Overrides :
          /\ doc = [id |-> 1, gen |-> 0, web |-> FALSE]
          /\ side = [id |-> IF o = Absent THEN 0 ELSE 2, over |-> o]
          /\ nextId = 3
    BY DEF WatchInit, Init
  <2>2. doc.id = 1 /\ side.id \in {0, 2} /\ side.over = o /\ (side.id = 0 => o = Absent)
    BY <2>1
  <2>3. known.doc = 1 /\ known.side = side.id /\ seen.doc = 1 /\ seen.side = side.id
    BY <1>2, <2>2 DEF Fingerprint
  <2> QED
    BY <2>1, <2>2, <2>3 DEF Numbered
<1>5. ReadSinceSeen
  BY <1>2 DEF ReadSinceSeen, Pair
<1> QED
  BY <1>1, <1>3, <1>4, <1>5 DEF WatchInv

\* What a publisher's step does to the two files: nothing, a rename of a fresh inode, or
\* the removal of the overrides.
FilesMoved ==
  /\ doc' = doc \/ doc'.id = nextId
  /\ side' = side \/ side'.id = nextId \/ (side'.id = 0 /\ side'.over = Absent)
  /\ nextId' = nextId \/ nextId' = nextId + 1
  /\ doc' # doc \/ side'.id = nextId => nextId' = nextId + 1

LEMMA FilesMove ==
  ASSUME IInv, Numbered, [Next]_vars
  PROVE  FilesMoved
<1> USE DEF FilesMoved
<1>1. CASE UNCHANGED files
  <2>1. doc' = doc /\ side' = side /\ nextId' = nextId
    BY <1>1 DEF files
  <2>2. nextId \in Nat /\ side.id \in Nat
    BY DEF IInv, TypeOK, Sidecars
  <2> QED
    BY <2>1, <2>2 DEF Numbered
<1>2. ASSUME NEW p \in Publishers, PublishOverrides(p) \/ Restore(p)
      PROVE  FilesMoved
  <2>1. PICK o : PutSide(o) /\ doc' = doc
    BY <1>2 DEF PublishOverrides, Restore
  <2>2. CASE o = Absent
    <3>1. side'.id = 0 /\ side'.over = Absent /\ nextId' = nextId
      BY <2>1, <2>2 DEF PutSide
    <3>2. nextId # 0
      BY DEF IInv, TypeOK, Documents, Numbered
    <3> QED
      BY <2>1, <3>1, <3>2
  <2>3. CASE o # Absent
    <3>1. side'.id = nextId /\ nextId' = nextId + 1
      BY <2>1, <2>3 DEF PutSide
    <3> QED
      BY <2>1, <3>1
  <2> QED
    BY <2>2, <2>3
<1>3. ASSUME NEW p \in Publishers, InstallDocument(p)
      PROVE  FilesMoved
  BY <1>3 DEF InstallDocument
<1>4. CASE UNCHANGED vars
  BY <1>1, <1>4 DEF vars
<1>5. ASSUME NEW p \in Publishers, NEW g \in 0..1, NEW o \in Overrides, NEW w \in BOOLEAN,
             Save(p, g, o, w)
      PROVE  UNCHANGED files
  BY <1>5 DEF Save
<1>6. ASSUME NEW p \in Publishers,
             \/ TakeLock(p) \/ GiveUp(p) \/ Compile(p) \/ SettingAgrees(p) \/ SettingMoved(p)
             \/ NothingToWrite(p) \/ SkipOverrides(p) \/ WriteFails(p) \/ RestoreFails(p)
             \/ PublisherCrash(p)
      PROVE  UNCHANGED files
  BY <1>6 DEF TakeLock, GiveUp, Compile, SettingAgrees, SettingMoved, NothingToWrite,
     SkipOverrides, WriteFails, RestoreFails, PublisherCrash
<1> QED
  BY <1>1, <1>2, <1>3, <1>4, <1>5, <1>6 DEF Next, Publishes

\* The files move on under a service that stands still.
LEMMA PublisherStep ==
  ASSUME WatchInv, [Next]_vars, UNCHANGED service
  PROVE  WatchInv'
<1>1. IInv'
  BY NextIInv DEF WatchInv
<1>2. FilesMoved
  BY FilesMove DEF WatchInv
<1>3. ServiceTypeOK'
  BY DEF WatchInv, ServiceTypeOK, service
<1>4. /\ doc.id \in Nat /\ side.id \in Nat /\ nextId \in Nat
      /\ known.doc \in Nat /\ known.side \in Nat /\ seen.doc \in Nat /\ seen.side \in Nat
  BY Numbers DEF WatchInv, IInv
<1>5. known' = known /\ seen' = seen /\ tried' = tried /\ got' = got /\ svc' = svc /\ refused' = refused
  BY DEF service
<1>6. Numbered'
  BY <1>2, <1>4, <1>5 DEF WatchInv, Numbered, FilesMoved
<1>7. ReadSinceSeen'
  BY <1>2, <1>4, <1>5 DEF WatchInv, Numbered, ReadSinceSeen, FilesMoved
<1> QED
  BY <1>1, <1>3, <1>6, <1>7 DEF WatchInv

-----------------------------------------------------------------------------
(* A step of the service over files that stand still. *)

ServiceKeeps == ServiceTypeOK' /\ Numbered' /\ ReadSinceSeen'

LEMMA LookKeeps ==
  ASSUME WatchInv, NEW from, NEW reason \in {"start", "poll"} \cup Verbs, Look(from, reason)
  PROVE  ServiceKeeps
<1>1. doc.id \in Nat
  BY Numbers DEF WatchInv, IInv
<1>2. /\ UNCHANGED <<doc, side, nextId, known, got, tried, refused, restarts>>
      /\ svc' = "stat" /\ why' = reason /\ seen' = [seen EXCEPT !.doc = doc.id]
  BY DEF Look, vars, files
<1>3. seen \in [doc : Nat, side : Nat]
  BY DEF WatchInv, ServiceTypeOK
<1>4. seen' \in [doc : Nat, side : Nat] /\ seen'.doc = doc.id /\ seen'.side = seen.side
  BY <1>1, <1>2, <1>3
<1>5. reason # ""
  BY ServiceAssumption
<1>6. ServiceTypeOK'
  BY <1>2, <1>4, <1>5 DEF WatchInv, ServiceTypeOK
<1>7. Numbered' /\ ReadSinceSeen'
  BY <1>2, <1>4 DEF WatchInv, Numbered, ReadSinceSeen
<1> QED
  BY <1>6, <1>7 DEF ServiceKeeps

LEMMA StatKeeps ==
  ASSUME WatchInv, Stat
  PROVE  ServiceKeeps
<1>1. seen \in [doc : Nat, side : Nat] /\ side.id \in Nat
  BY Numbers DEF WatchInv, IInv, ServiceTypeOK
<1>2. seen'.doc = seen.doc /\ seen'.side = side.id /\ seen' \in [doc : Nat, side : Nat]
      /\ seen' = [seen EXCEPT !.side = side.id]
  BY <1>1 DEF Stat, LoadsUnless
<1>3. UNCHANGED <<doc, side, nextId, got, tried, restarts>> /\ svc = "stat"
  BY DEF Stat, LoadsUnless, vars, files
<1>4. \/ /\ svc' = "idle" /\ why' = "" /\ known' = seen'
         /\ refused' = (refused \/ (why = "reload argument" /\ seen' # known))
         /\ why = "reload argument" \/ seen' = known
      \/ svc' = "read" /\ UNCHANGED <<why, known, refused>>
  BY <1>2 DEF Stat, LoadsUnless
<1>5. refused \in BOOLEAN /\ refused' \in BOOLEAN /\ known \in [doc : Nat, side : Nat]
  BY <1>4 DEF WatchInv, ServiceTypeOK
<1>6. ServiceTypeOK'
  BY <1>2, <1>3, <1>4, <1>5 DEF WatchInv, ServiceTypeOK
<1>7. Numbered'
  BY <1>2, <1>3, <1>4 DEF WatchInv, Numbered
<1>8. svc' # "apply" /\ (~refused' => ~refused /\ known' = known)
  BY <1>4, <1>5
<1>9. ReadSinceSeen'
  BY <1>3, <1>8 DEF WatchInv, ReadSinceSeen
<1> QED
  BY <1>6, <1>7, <1>9 DEF ServiceKeeps

LEMMA ReadDocumentKeeps ==
  ASSUME WatchInv, ReadDocument
  PROVE  ServiceKeeps
<1>1. /\ UNCHANGED <<doc, side, nextId, why, known, seen, tried, refused, restarts>>
      /\ doc \in Documents /\ got' = doc /\ svc' = "apply" /\ svc = "read"
  BY DEF ReadDocument, WatchInv, IInv, TypeOK, vars, files
<1>2. ServiceTypeOK'
  BY <1>1 DEF WatchInv, ServiceTypeOK
<1>3. Numbered' /\ ReadSinceSeen'
  BY <1>1 DEF WatchInv, Numbered, ReadSinceSeen
<1> QED
  BY <1>2, <1>3 DEF ServiceKeeps

LEMMA ReadOverridesKeeps ==
  ASSUME WatchInv, ReadOverrides
  PROVE  ServiceKeeps
<1>1. /\ tried' = [doc |-> got, side |-> side] /\ known' = seen /\ svc = "apply"
      /\ refused' = FALSE /\ UNCHANGED <<doc, side, nextId, seen, got, restarts>>
      /\ svc' = "idle" /\ why' = ""
  BY DEF ReadOverrides, vars, files
<1>2. got \in Documents /\ side \in Sidecars /\ seen \in [doc : Nat, side : Nat]
  BY DEF WatchInv, IInv, TypeOK, ServiceTypeOK
<1>3. ServiceTypeOK'
  BY <1>1, <1>2 DEF WatchInv, ServiceTypeOK
<1>4. Numbered'
  BY <1>1 DEF WatchInv, Numbered
<1>5. tried'.doc = got /\ tried'.side = side
  BY <1>1
<1>6. ReadSinceSeen'
  BY <1>1, <1>5 DEF WatchInv, ReadSinceSeen
<1> QED
  BY <1>3, <1>4, <1>6 DEF ServiceKeeps

LEMMA CrashKeeps ==
  ASSUME WatchInv, ServiceCrash
  PROVE  ServiceKeeps
<1>1. /\ svc' = "down" /\ why' = "" /\ restarts' = restarts + 1
      /\ UNCHANGED <<doc, side, nextId, known, seen, got, tried, refused>>
  BY DEF ServiceCrash, vars, files
<1>2. restarts' \in Nat
  <2>1. restarts \in Nat
    BY DEF WatchInv, ServiceTypeOK
  <2>2. restarts' = restarts + 1
    BY DEF ServiceCrash
  <2> QED
    BY <2>1, <2>2
<1>3. ServiceTypeOK'
  BY <1>1, <1>2 DEF WatchInv, ServiceTypeOK
<1>4. Numbered' /\ ReadSinceSeen'
  BY <1>1 DEF WatchInv, Numbered, ReadSinceSeen
<1> QED
  BY <1>3, <1>4 DEF ServiceKeeps

LEMMA ServiceStep ==
  ASSUME WatchInv, ServiceNext
  PROVE  WatchInv'
<1>1. UNCHANGED vars
  BY DEF ServiceNext, Start, Poll, Serve, Look, Loads, Stat, LoadsUnless, ReadDocument,
     ReadOverrides, ServiceCrash
<1>2. IInv'
  BY <1>1, NextIInv DEF WatchInv
<1>3. ServiceKeeps
  <2>1. CASE \E from \in {"down", "idle"}, reason \in {"start", "poll"} \cup Verbs :
               Look(from, reason)
    BY <2>1, LookKeeps
  <2>2. CASE Stat \/ ReadDocument \/ ReadOverrides \/ ServiceCrash
    BY <2>2, StatKeeps, ReadDocumentKeeps, ReadOverridesKeeps, CrashKeeps
  <2> QED
    BY <2>1, <2>2 DEF ServiceNext, Start, Poll, Serve, Loads
<1> QED
  BY <1>2, <1>3 DEF WatchInv, ServiceKeeps

-----------------------------------------------------------------------------
LEMMA BelievedIsRead == WatchInv => NothingMissed
<1> SUFFICES ASSUME WatchInv, known = Fingerprint, ~refused PROVE InForce(tried)
  BY DEF NothingMissed
<1>1. known.doc = doc.id /\ known.side = side.id
  BY DEF Fingerprint
<1>2. tried.doc = doc
  BY <1>1 DEF WatchInv, ReadSinceSeen
<1>3. side.over # Absent => tried.side = side
  BY <1>1 DEF WatchInv, ReadSinceSeen, Numbered
<1> QED
  BY <1>2, <1>3 DEF InForce

LEMMA WatchInvariant == WatchSpec => []WatchInv
<1>1. WatchInit => WatchInv
  BY InitWatchInv
<1>2. WatchInv /\ [WatchNext]_watch => WatchInv'
  <2> SUFFICES ASSUME WatchInv, [WatchNext]_watch PROVE WatchInv'
    OBVIOUS
  <2>1. CASE ServiceNext
    BY <2>1, ServiceStep
  <2>2. CASE Next /\ UNCHANGED service
    BY <2>2, PublisherStep
  <2>3. CASE UNCHANGED watch
    BY <2>3, PublisherStep DEF watch
  <2> QED
    BY <2>1, <2>2, <2>3 DEF WatchNext
<1> QED
  BY <1>1, <1>2, PTL DEF WatchSpec

\* Every variable of the service keeps its type: what it has stat'ed and read (main.rs,
\* run; Config::load) are always files that a publication has put there.
THEOREM WatchTypes == WatchSpec => []ServiceTypeOK
<1>1. WatchInv => ServiceTypeOK
  BY DEF WatchInv
<1> QED
  BY <1>1, WatchInvariant, PTL

\* What the service believes to be loaded is what it has read, for all publishers,
\* overrides that come and go and requests well formed or not (main.rs, run: the
\* fingerprint is captured before the load), up to the two cases NothingMissed names.
THEOREM NothingEverMissed == WatchSpec => []NothingMissed
<1>1. WatchInv => NothingMissed
  BY BelievedIsRead
<1> QED
  BY <1>1, WatchInvariant, PTL
=============================================================================
