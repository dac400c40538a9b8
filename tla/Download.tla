------------------------------ MODULE Download ------------------------------
(***************************************************************************)
(* A provider download that finishes at a wallpaper's path, and the sweep  *)
(* of what unfinished ones left.                                           *)
(*                                                                         *)
(* The media is renamed into place first, then the record that binds the   *)
(* generation it got by that rename; both replace nothing and both are     *)
(* made under the path's lifecycle lock.  A download that dies in between  *)
(* leaves a file the application will never delete.  Staging names, the    *)
(* managed folder and its marker are abstracted.                           *)
(***************************************************************************)
EXTENDS LibraryFiles

VARIABLES
  dpc,   \* each installer's step
  file   \* what it published, or the record its sweep has read

loads == <<dpc, file>>

InitDownload ==
  /\ dpc = [d \in Installers |-> "idle"]
  /\ file = [d \in Installers |-> NoFile]

In(d, step)    == dpc[d] = step
Turn(d, step)  == dpc' = [dpc EXCEPT ![d] = step]
Leaving(d)     == Turn(d, "idle") /\ file' = [file EXCEPT ![d] = NoFile] /\ pathLock' = pathLock \ {d}
Untouched      == UNCHANGED <<still, claim, recClaim, trash, refs, journal, lease, asked, gone>>
Breaks         == faults < MaxFaults /\ faults' = faults + 1

\* unique_destination: the name is free when neither the media nor a record is there.
Choose(d) ==
  /\ In(d, "idle")
  /\ nextGen <= MaxGens
  /\ ~There(media) /\ ~There(record)
  /\ Turn(d, "chosen")
  /\ UNCHANGED <<media, record, file, pathLock, installed, nextGen, faults>> /\ Untouched

\* The rename of the staged file is the commit point; a taken name is a conflict.
PublishMedia(d) ==
  /\ In(d, "chosen")
  /\ pathLock = {}
  /\ \/ /\ ~There(media) /\ nextGen <= MaxGens
        /\ media' = New(nextGen)
        /\ nextGen' = nextGen + 1
        /\ installed' = installed \cup {nextGen}
        /\ file' = [file EXCEPT ![d] = New(nextGen)]
        /\ pathLock' = {d}
        /\ Turn(d, "published")
     \/ /\ There(media) \/ nextGen > MaxGens
        /\ Leaving(d)
        /\ UNCHANGED <<media, nextGen, installed>>
  /\ UNCHANGED <<record, faults>> /\ Untouched

\* Mutant: the record is bound to whatever has the name by now.
ConfirmByName(d) ==
  /\ In(d, "published")
  /\ Turn(d, "confirmed")
  /\ file' = [file EXCEPT ![d] = media]
  /\ UNCHANGED <<media, record, pathLock, installed, nextGen, faults>> /\ Untouched

\* The name still holds the file just published, or it gets no record.
Confirm(d) ==
  /\ In(d, "published")
  /\ \/ media = file[d] /\ Turn(d, "confirmed") /\ UNCHANGED <<file, pathLock, faults>>
     \/ media # file[d] /\ Leaving(d) /\ UNCHANGED faults
     \/ Breaks /\ Leaving(d)
  /\ UNCHANGED <<media, record, installed, nextGen>> /\ Untouched

\* The record of exactly that generation; a stray record at its name is a conflict.
PublishRecord(d) ==
  /\ In(d, "confirmed")
  /\ \/ ~There(record) /\ record' = file[d] /\ UNCHANGED faults
     \/ There(record) /\ UNCHANGED <<record, faults>>
     \/ Breaks /\ UNCHANGED record
  /\ Leaving(d)
  /\ UNCHANGED <<media, installed, nextGen>> /\ Untouched

\* recover_abandoned: a record whose media is gone is read ...
SweepLooks(d) ==
  /\ In(d, "idle")
  /\ There(record) /\ ~There(media)
  /\ file' = [file EXCEPT ![d] = record]
  /\ Turn(d, "sweep")
  /\ UNCHANGED <<media, record, pathLock, installed, nextGen, faults>> /\ Untouched

\* ... and exactly that record is retired.
SweepRetires(d) ==
  /\ In(d, "sweep")
  /\ record' = IF record = file[d] THEN NoFile ELSE record
  /\ Leaving(d)
  /\ UNCHANGED <<media, installed, nextGen, faults>> /\ Untouched

Dies(d) ==
  /\ ~In(d, "idle")
  /\ Breaks /\ Leaving(d)
  /\ UNCHANGED <<media, record, installed, nextGen>> /\ Untouched

Installs(d) == PublishMedia(d) \/ Confirm(d) \/ PublishRecord(d) \/ SweepRetires(d)
Loads(d)    == Choose(d) \/ SweepLooks(d) \/ Installs(d) \/ Dies(d)

DownloadTypeOK ==
  /\ dpc \in [Installers -> {"idle", "chosen", "published", "confirmed", "sweep"}]
  /\ file \in [Installers -> File]

\* (6) A record is deletion authority over what it binds: it only ever binds a file
\* this application downloaded, never one another program put at the name.
AuthorityIsEarned == There(record) => record.gen \in installed
=============================================================================
