---------------------------- MODULE WallpaperLife ----------------------------
(***************************************************************************)
(* Removals, their replays, downloads and everybody else at one path.      *)
(***************************************************************************)
EXTENDS Removal, Download

vars == <<disk, locks, ghosts, nextGen, faults, acts, loads>>

Init == InitFiles /\ InitRemoval /\ InitDownload

Next ==
  \/ World /\ UNCHANGED <<acts, loads>>
  \/ \E a \in Actors : Acts(a) /\ UNCHANGED loads
  \/ \E d \in Installers : Loads(d) /\ UNCHANGED acts

Spec == Init /\ [][Next]_vars

\* Work in hand goes on, and however often removals are started the library is
\* scanned again: every scan replays the journal.  Nobody has to remove, download or
\* interfere.
FairSpec ==
  /\ Spec
  /\ \A a \in Actors :
       /\ WF_vars(Works(a) /\ UNCHANGED loads)
       /\ SF_vars(Replay(a) /\ UNCHANGED loads)
  /\ \A d \in Installers : WF_vars(Installs(d) /\ UNCHANGED acts)

TypeOK == RemovalTypeOK /\ DownloadTypeOK

\* (7) Who cleans up after a removal drops its intent only once no store refers to
\* what was removed: a store that could not be written is left to the next replay.
NothingDangles ==
  [][\A a \in Actors :
       /\ pc[a] \in {"clean", "finish"} /\ pc'[a] = "idle"
       /\ Owns(a) /\ journal' = NoIntent
       => \A s \in Stores : refs[s] # work[a].fp.gen]_vars

\* What a replay leaves to the person: a stranger's file in the claim, the wallpaper
\* itself with another change time, a record whose name something else has taken.
WaitsForThePerson ==
  LET t == journal.token IN
  /\ ~journal.committed
  /\ \/ claim[t].gen \notin {0, journal.fp.gen}
     \/ media.gen = journal.fp.gen /\ media # journal.fp
     \/ There(recClaim[t]) /\ There(record) /\ media = journal.fp

\* (8) No removal stays half done: once the person starts no more and nothing fails
\* any more, every intent is finished or cancelled, or waits for the person.
RemovalSettles == <>[](journal = NoIntent \/ WaitsForThePerson)

-----------------------------------------------------------------------------
\* Where the file of generation g is.
FateOf(g) ==
  IF media.gen = g THEN "path"
  ELSE IF \E t \in Tokens : claim[t].gen = g THEN "claim"
  ELSE IF \E f \in trash : f.gen = g THEN "trash"
  ELSE IF \E f \in gone : f.gen = g THEN "gone"
  ELSE IF g >= nextGen THEN "new" ELSE "elsewhere"

Fate == [g \in 1..MaxGens |-> FateOf(g)]

Fates == INSTANCE FileFate WITH Files <- 1..MaxGens, fate <- Fate

\* (9) Removals, replays and downloads together keep what FileFate promises of every
\* file: in particular none is written over on its way back, and none comes back
\* that was destroyed.
FilesMeetTheirFate == Fates!FateSpec
=============================================================================
