---------------------------- MODULE LibraryFiles ----------------------------
(***************************************************************************)
(* One wallpaper's pathname and everything the application keeps about it: *)
(* the media, the download record that is the authority to delete it, its  *)
(* captured still, the authored references to it, the pending-removals     *)
(* journal and the private claims a removal moves files into.  Everything  *)
(* here is on disk and outlives a process; the removal and the download    *)
(* that work on it are in Removal and Download.                            *)
(*                                                                         *)
(* A file is the generation its fingerprint identifies (gen, a fresh       *)
(* number per inode) and its change time: a rename leaves everything but   *)
(* the change time alone.  Contents, sizes, folders and the roots are      *)
(* abstracted; so is an edit in place, which the code treats as it treats  *)
(* a changed change time.                                                  *)
(***************************************************************************)
EXTENDS Naturals, Sequences

CONSTANTS
  Actors,      \* lanes and processes that remove or replay removals
  Installers,  \* downloads that may finish at this path
  Order,       \* the metadata stores, in the order a removal cleans them
  MaxGens, MaxTokens, MaxFaults  \* bounds of the checked runs

ASSUME LibraryAssumption ==
  /\ Actors \cap Installers = {}
  /\ Order \in Seq(STRING)
  /\ {MaxGens, MaxTokens, MaxFaults} \subseteq Nat
  /\ MaxGens > 0

VARIABLES
  media,     \* the file at the wallpaper's own pathname
  record,    \* the generation the download record beside it binds
  still,     \* the generation its captured still was made for; 0: no still
  claim,     \* the media claim of each removal token
  recClaim,  \* the download record's claim of each removal token
  trash,     \* files in the trash
  refs,      \* each store's reference to the path: the generation it was for
  journal,   \* the pending removal of this path
  lease,     \* the holder of the removal operation lease, at most one
  pathLock,  \* the holder of the path's lifecycle locks, at most one
  nextGen,
  asked,     \* (history) generations the person asked to be removed
  gone,      \* (history) files the application has destroyed
  installed, \* (history) generations a download has put at the path
  faults     \* calls that failed and processes that died so far

disk   == <<media, record, still, claim, recClaim, trash, refs, journal>>
locks  == <<lease, pathLock>>
ghosts == <<asked, gone, installed>>

NoFile   == [gen |-> 0, ctime |-> 0]
NoIntent == [token |-> 0, fp |-> NoFile, committed |-> FALSE, proof |-> 0]
Tokens   == 1..MaxTokens
Stores   == {Order[i] : i \in DOMAIN Order}

There(f) == f # NoFile
New(g)   == [gen |-> g, ctime |-> 0]

\* What a rename of the application's leaves: the same file, later changed.
Moved(f) == [f EXCEPT !.ctime = @ + 1]

\* A wallpaper of the library: one of the app's downloads, with its record,
\* or the person's own file.
InitFiles ==
  /\ media = New(1)
  /\ record \in {NoFile, New(1)}
  /\ installed = IF There(record) THEN {1} ELSE {}
  /\ still = 0
  /\ claim = [t \in Tokens |-> NoFile]
  /\ recClaim = [t \in Tokens |-> NoFile]
  /\ trash = {}
  /\ refs = [s \in Stores |-> 0]
  /\ journal = NoIntent
  /\ lease = {} /\ pathLock = {}
  /\ nextGen = 2
  /\ asked = {} /\ gone = {}
  /\ faults = 0

-----------------------------------------------------------------------------
(* Everybody else.                                                         *)

\* Another program writes a file over the path; it takes none of the locks.
StrangerPuts ==
  /\ nextGen <= MaxGens
  /\ media' = New(nextGen)
  /\ nextGen' = nextGen + 1
  /\ UNCHANGED <<record, still, claim, recClaim, trash, refs, journal>>
  /\ UNCHANGED <<locks, ghosts, faults>>

\* Another program moves the file away.
StrangerTakes ==
  /\ There(media)
  /\ media' = NoFile
  /\ UNCHANGED <<record, still, claim, recClaim, trash, refs, journal>>
  /\ UNCHANGED <<locks, nextGen, ghosts, faults>>

\* A still is captured for what is at the path, under the source's lock: removals
\* hold that one and the path's, downloads only the path's.
Capture ==
  /\ There(media) /\ still = 0
  /\ pathLock \cap Actors = {}
  /\ still' = media.gen
  /\ UNCHANGED <<media, record, claim, recClaim, trash, refs, journal>>
  /\ UNCHANGED <<locks, nextGen, ghosts, faults>>

\* The person makes it a favourite, customises it, puts it in a playlist.
Author ==
  /\ There(media)
  /\ \E s \in Stores : refs[s] # media.gen
  /\ refs' = [s \in Stores |-> media.gen]
  /\ UNCHANGED <<media, record, still, claim, recClaim, trash, journal>>
  /\ UNCHANGED <<locks, nextGen, ghosts, faults>>

World == StrangerPuts \/ StrangerTakes \/ Capture \/ Author

-----------------------------------------------------------------------------
File == [gen : 0..MaxGens, ctime : Nat]

\* The disk, the locks and the histories have the shapes the code gives them.
FilesTypeOK ==
  /\ media \in File /\ record \in File
  /\ still \in 0..MaxGens
  /\ claim \in [Tokens -> File] /\ recClaim \in [Tokens -> File]
  /\ trash \subseteq File /\ gone \subseteq File
  /\ refs \in [Stores -> 0..MaxGens]
  /\ journal \in [token : 0..MaxTokens, fp : File, committed : BOOLEAN, proof : 0..MaxGens]
  /\ lease \subseteq Actors /\ pathLock \subseteq Actors \cup Installers
  /\ nextGen \in 2..(MaxGens + 1)
  /\ asked \subseteq 1..MaxGens /\ installed \subseteq 1..MaxGens
  /\ faults \in 0..MaxFaults
=============================================================================
