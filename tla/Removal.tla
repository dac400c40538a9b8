------------------------------ MODULE Removal ------------------------------
(***************************************************************************)
(* Removing a wallpaper, and finishing a removal that died.                *)
(*                                                                         *)
(* A live removal holds the path's lifecycle locks throughout.  It takes   *)
(* the operation lease, writes its intent to the journal, withdraws the    *)
(* download record into a claim, moves the media into a claim (Delete) or  *)
(* to the trash, destroys what it claimed, and then commits: it cleans the *)
(* stores and drops the intent.  Every exit puts back what it moved, or    *)
(* keeps the intent that says where it is.                                 *)
(*                                                                         *)
(* A replay holds neither lock nor lease.  It reads the journal once and   *)
(* works on what it read: it finishes an intent whose media is in its      *)
(* claim or has left, cancels one whose media never moved, and keeps one   *)
(* it cannot tell.  Any number of replays run beside each other.           *)
(***************************************************************************)
EXTENDS LibraryFiles

VARIABLES
  pc,        \* each actor's step
  work,      \* what it works on; see Idle
  nextToken

acts == <<pc, work, nextToken>>

\* token, fp, proof: the intent.  trashed: Move to trash, not Delete.
\* moved: what the rename moved.  pin: the still pinned before it.  todo:
\* stores left to clean.  failed: a clean-up failed, the intent stays.  proven: a
\* replay that destroyed the media, and takes the files the intent proves.
Idle == [token |-> 0, fp |-> NoFile, proof |-> 0, trashed |-> FALSE,
         moved |-> NoFile, pin |-> 0, todo |-> <<>>, failed |-> FALSE, proven |-> FALSE]

InitRemoval ==
  /\ pc = [a \in Actors |-> "idle"]
  /\ work = [a \in Actors |-> Idle]
  /\ nextToken = 1

At(a, step)    == pc[a] = step
GoTo(a, step)  == pc' = [pc EXCEPT ![a] = step]
Keeping        == UNCHANGED <<installed, nextGen>>

\* finish_operation and the end of the locks: the operation is over.
Over(a) ==
  /\ pc' = [pc EXCEPT ![a] = "idle"]
  /\ work' = [work EXCEPT ![a] = Idle]
  /\ lease' = lease \ {a}
  /\ pathLock' = pathLock \ {a}

\* A system call fails; whatever the step would have done is not done.
Fails == faults < MaxFaults /\ faults' = faults + 1

Owns(a) == journal.token = work[a].token

\* Mutant: whatever the claim caught.
Caught(a, f) == There(f)

\* Is f the very file whose removal was prepared?
Prepared(a, f) == f.gen = work[a].fp.gen

-----------------------------------------------------------------------------
(* A live removal up to its intent.                                        *)

\* stills.held_for_removal; Delete or Move to trash as the library last saw it.
Begin(a, trashed) ==
  /\ At(a, "idle")
  /\ nextToken <= MaxTokens
  /\ pathLock = {} /\ pathLock' = {a}
  /\ work' = [work EXCEPT ![a] = [Idle EXCEPT !.trashed = trashed]]
  /\ GoTo(a, "locked")
  /\ UNCHANGED <<disk, lease, asked, gone, faults, nextToken>> /\ Keeping

\* The lease first, then the source pin and the proofs of its own files.
TakeLease(a) ==
  /\ At(a, "locked")
  /\ lease = {} /\ There(media)
  /\ lease' = {a}
  /\ work' = [work EXCEPT ![a] =
       [@ EXCEPT !.token = nextToken, !.fp = media, !.proof = still]]
  /\ nextToken' = nextToken + 1
  /\ asked' = asked \cup {media.gen}
  /\ GoTo(a, "leased")
  /\ UNCHANGED <<disk, pathLock, gone, faults>> /\ Keeping

\* Another removal is in progress, or there is nothing at the path.
Refused(a) ==
  /\ At(a, "locked")
  /\ lease # {} \/ ~There(media)
  /\ Over(a)
  /\ UNCHANGED <<disk, asked, gone, faults, nextToken>> /\ Keeping

\* The insert under the journal's lock: one intent per path.
Insert(a) ==
  /\ At(a, "leased")
  /\ \/ /\ journal = NoIntent
        /\ journal' = [token |-> work[a].token, fp |-> work[a].fp,
                       committed |-> FALSE, proof |-> work[a].proof]
        /\ GoTo(a, "prepared")
        /\ UNCHANGED <<work, locks, faults>>
     \/ /\ journal # NoIntent
        /\ Over(a)
        /\ UNCHANGED <<journal, faults>>
     \/ /\ Fails /\ Over(a)
        /\ UNCHANGED journal
  /\ UNCHANGED <<media, record, still, claim, recClaim, trash, refs>>
  /\ UNCHANGED <<asked, gone, nextToken>> /\ Keeping

-----------------------------------------------------------------------------
(* The physical step.                                                      *)

\* The pinned inode is still the prepared generation at its path; Delete needs
\* its exact record.  The still there is pinned for after the commit.
Validate(a) ==
  /\ At(a, "prepared")
  /\ \/ /\ media = work[a].fp
        /\ work[a].trashed \/ record = media
        /\ work' = [work EXCEPT ![a].pin = still]
        /\ GoTo(a, "withdraw")
        /\ UNCHANGED faults
     \/ /\ media # work[a].fp \/ ~(work[a].trashed \/ record = media)
        /\ GoTo(a, "cancel")
        /\ UNCHANGED <<work, faults>>
     \/ /\ Fails /\ GoTo(a, "cancel")
        /\ UNCHANGED work
  /\ UNCHANGED <<disk, locks, asked, gone, nextToken>> /\ Keeping

\* Keep the intent, let go of everything else.
Retain(a) == Over(a)

\* Mutant: the record is left for after the commit.
WithdrawLater(a) ==
  /\ At(a, "withdraw")
  /\ GoTo(a, "check")
  /\ UNCHANGED <<disk, work, locks, faults, asked, gone, nextToken>> /\ Keeping

\* The record moves into its own claim before the media may leave its name.  A
\* claim that could not be made durable stays where it is and keeps the intent.
Withdraw(a) ==
  LET matches == record = work[a].fp
      moved   == /\ record' = NoFile
                 /\ recClaim' = [recClaim EXCEPT ![work[a].token] = record]
  IN
  /\ At(a, "withdraw")
  /\ \/ matches /\ moved /\ GoTo(a, "check") /\ UNCHANGED <<work, locks, faults>>
     \/ matches /\ Fails /\ moved /\ Retain(a)
     \/ ~matches /\ work[a].trashed /\ GoTo(a, "check")
        /\ UNCHANGED <<record, recClaim, work, locks, faults>>
     \/ ~matches /\ ~work[a].trashed /\ GoTo(a, "cancel")
        /\ UNCHANGED <<record, recClaim, work, locks, faults>>
     \/ Fails /\ GoTo(a, "cancel") /\ UNCHANGED <<record, recClaim, work, locks>>
  /\ UNCHANGED <<media, still, claim, trash, refs, journal>>
  /\ UNCHANGED <<asked, gone, nextToken>> /\ Keeping

\* atomic_move_no_replace looks at the path once more ...
Check(a) ==
  /\ At(a, "check")
  /\ \/ media = work[a].fp /\ GoTo(a, "rename") /\ UNCHANGED faults
     \/ media # work[a].fp /\ GoTo(a, "putback") /\ UNCHANGED faults
     \/ Fails /\ GoTo(a, "putback")
  /\ UNCHANGED <<disk, work, locks, asked, gone, nextToken>> /\ Keeping

\* ... and renames whatever is there by then.
Rename(a) ==
  /\ At(a, "rename")
  /\ \/ /\ There(media)
        /\ media' = NoFile
        /\ IF work[a].trashed
             THEN trash' = trash \cup {media} /\ UNCHANGED claim
             ELSE claim' = [claim EXCEPT ![work[a].token] = media] /\ UNCHANGED trash
        /\ work' = [work EXCEPT ![a].moved = media]
        /\ GoTo(a, "verify")
     \/ ~There(media) /\ GoTo(a, "putback") /\ UNCHANGED <<media, trash, claim, work>>
  /\ UNCHANGED <<record, still, recClaim, refs, journal>>
  /\ UNCHANGED <<locks, asked, gone, faults, nextToken>> /\ Keeping

\* Mutant: the move back replaces what has come to the path.
MoveBackOver(a) ==
  /\ media' = Moved(work[a].moved)
  /\ IF work[a].trashed
       THEN trash' = trash \ {work[a].moved} /\ UNCHANGED claim
       ELSE claim' = [claim EXCEPT ![work[a].token] = NoFile] /\ UNCHANGED trash

\* The move back to the path, which replaces nothing.
MoveBack(a) ==
  /\ ~There(media)
  /\ media' = Moved(work[a].moved)
  /\ IF work[a].trashed
       THEN trash' = trash \ {work[a].moved} /\ UNCHANGED claim
       ELSE claim' = [claim EXCEPT ![work[a].token] = NoFile] /\ UNCHANGED trash

\* Was it the prepared file?  Another goes back; if it cannot, Delete keeps it in
\* the claim with the intent, and the trash keeps it and counts as committed.  A
\* claim that is not durable is not destroyed yet.
Verify(a) ==
  LET same == Prepared(a, work[a].moved) IN
  /\ At(a, "verify")
  /\ \/ /\ same
        /\ GoTo(a, IF work[a].trashed THEN "consume" ELSE "destroy")
        /\ UNCHANGED <<media, trash, claim, work, locks, faults>>
     \/ /\ same /\ ~work[a].trashed
        /\ Fails /\ Retain(a)
        /\ UNCHANGED <<media, trash, claim>>
     \/ /\ ~same
        /\ MoveBack(a)
        /\ GoTo(a, "putback")
        /\ UNCHANGED <<work, locks, faults>>
     \/ /\ ~same /\ There(media)
        /\ IF work[a].trashed
             THEN GoTo(a, "consume") /\ UNCHANGED <<work, locks>>
             ELSE Retain(a)
        /\ UNCHANGED <<media, trash, claim, faults>>
  /\ UNCHANGED <<record, still, recClaim, refs, journal>>
  /\ UNCHANGED <<asked, gone, nextToken>> /\ Keeping

\* Destroying the claimed file is the commit point of a Delete.
Destroy(a) ==
  /\ At(a, "destroy")
  /\ \/ /\ gone' = gone \cup {claim[work[a].token]}
        /\ claim' = [claim EXCEPT ![work[a].token] = NoFile]
        /\ GoTo(a, "consume")
        /\ UNCHANGED faults
     \/ /\ Fails /\ GoTo(a, "restore")
        /\ UNCHANGED <<gone, claim>>
  /\ UNCHANGED <<media, record, still, recClaim, trash, refs, journal>>
  /\ UNCHANGED <<work, locks, asked, nextToken>> /\ Keeping

\* It could not be destroyed: it goes back, or stays claimed with the intent.  A
\* move back that is not confirmed keeps the intent too.
Restore(a) ==
  /\ At(a, "restore")
  /\ \/ MoveBack(a) /\ GoTo(a, "putback") /\ UNCHANGED <<work, locks, faults>>
     \/ MoveBack(a) /\ Fails /\ Retain(a)
     \/ There(media) /\ Retain(a) /\ UNCHANGED <<media, trash, claim, faults>>
     \/ Fails /\ Retain(a) /\ UNCHANGED <<media, trash, claim>>
  /\ UNCHANGED <<record, still, recClaim, refs, journal>>
  /\ UNCHANGED <<asked, gone, nextToken>> /\ Keeping

-----------------------------------------------------------------------------
(* Not committed: the record goes back, then the intent is dropped.  A     *)
(* replay cancels a removal that never happened the same way.              *)

\* Mutant: the intent is dropped without the record.
PutNothingBack(a) ==
  /\ At(a, "putback")
  /\ GoTo(a, "cancel")
  /\ UNCHANGED <<disk, work, locks, faults, asked, gone, nextToken>> /\ Keeping

PutBack(a) ==
  LET withdrawn == recClaim[work[a].token] IN
  /\ At(a, "putback")
  /\ \/ ~There(withdrawn) /\ GoTo(a, "cancel")
        /\ UNCHANGED <<record, recClaim, work, locks, faults>>
     \/ /\ There(withdrawn) /\ ~There(record)
        /\ record' = withdrawn
        /\ recClaim' = [recClaim EXCEPT ![work[a].token] = NoFile]
        /\ GoTo(a, "cancel")
        /\ UNCHANGED <<work, locks, faults>>
     \/ There(withdrawn) /\ There(record) /\ Retain(a)
        /\ UNCHANGED <<record, recClaim, faults>>
     \/ There(withdrawn) /\ Fails /\ Retain(a) /\ UNCHANGED <<record, recClaim>>
  /\ UNCHANGED <<media, still, claim, trash, refs, journal>>
  /\ UNCHANGED <<asked, gone, nextToken>> /\ Keeping

\* Store.discard: only the intent of this token.  Also the end of a commit.
Discard(a) ==
  /\ \/ Owns(a) /\ journal' = NoIntent /\ UNCHANGED faults
     \/ ~Owns(a) /\ UNCHANGED <<journal, faults>>
     \/ Fails /\ UNCHANGED journal
  /\ Over(a)
  /\ UNCHANGED <<media, record, still, claim, recClaim, trash, refs>>
  /\ UNCHANGED <<asked, gone, nextToken>> /\ Keeping

Cancel(a) == At(a, "cancel") /\ Discard(a)

-----------------------------------------------------------------------------
(* Committed: what belongs to the wallpaper goes with it.                  *)

\* The withdrawn record is destroyed, or stays claimed for commit_removal.
Consume(a) ==
  /\ At(a, "consume")
  /\ \/ recClaim' = [recClaim EXCEPT ![work[a].token] = NoFile] /\ UNCHANGED faults
     \/ Fails /\ UNCHANGED recClaim
  /\ GoTo(a, "companions")
  /\ UNCHANGED <<media, record, still, claim, trash, refs, journal>>
  /\ UNCHANGED <<work, locks, asked, gone, nextToken>> /\ Keeping

\* Only the generation pinned before the move; a failure is reported, not retried.
Companions(a) ==
  /\ At(a, "companions")
  /\ \/ still' = (IF still = work[a].pin THEN 0 ELSE still) /\ UNCHANGED faults
     \/ Fails /\ UNCHANGED still
  /\ GoTo(a, "mark")
  /\ UNCHANGED <<media, record, claim, recClaim, trash, refs, journal>>
  /\ UNCHANGED <<work, locks, asked, gone, nextToken>> /\ Keeping

\* mark_committed.  A failed write goes on if the journal is seen to hold this intent
\* still; one that cannot be read, or has another, is left alone.
Mark(a) ==
  /\ At(a, "mark")
  /\ \/ /\ Owns(a)
        /\ journal' = [journal EXCEPT !.committed = TRUE]
        /\ GoTo(a, "settle")
        /\ UNCHANGED <<work, locks, faults>>
     \/ /\ Owns(a) /\ Fails
        /\ GoTo(a, "settle")
        /\ UNCHANGED <<journal, work, locks>>
     \/ Owns(a) /\ Fails /\ Over(a) /\ UNCHANGED journal
     \/ ~Owns(a) /\ Over(a) /\ UNCHANGED <<journal, faults>>
  /\ UNCHANGED <<media, record, still, claim, recClaim, trash, refs>>
  /\ UNCHANGED <<asked, gone, nextToken>> /\ Keeping

\* A record left whole in its claim by a removal that died goes too.
Settle(a) ==
  LET withdrawn == recClaim[work[a].token] IN
  /\ At(a, "settle")
  /\ \/ /\ recClaim' = [recClaim EXCEPT ![work[a].token] = NoFile]
        /\ work' = [work EXCEPT ![a].todo = Order]
        /\ UNCHANGED faults
     \/ /\ There(withdrawn) /\ Fails
        /\ work' = [work EXCEPT ![a] = [@ EXCEPT !.todo = Order, !.failed = TRUE]]
        /\ UNCHANGED recClaim
  /\ GoTo(a, "clean")
  /\ UNCHANGED <<media, record, still, claim, trash, refs, journal>>
  /\ UNCHANGED <<locks, asked, gone, nextToken>> /\ Keeping

\* One store forgets the path; whether or not it can, the next one is tried.
Clean(a) ==
  /\ At(a, "clean") /\ work[a].todo # <<>>
  /\ \/ /\ refs' = [refs EXCEPT ![Head(work[a].todo)] = 0]
        /\ work' = [work EXCEPT ![a].todo = Tail(@)]
        /\ UNCHANGED faults
     \/ /\ Fails
        /\ work' = [work EXCEPT ![a] = [@ EXCEPT !.todo = Tail(work[a].todo), !.failed = TRUE]]
        /\ UNCHANGED refs
  /\ UNCHANGED <<media, record, still, claim, recClaim, trash, journal>>
  /\ UNCHANGED <<pc, locks, asked, gone, nextToken>> /\ Keeping

\* discard_proven_companions, for a replay that destroyed the media itself: under
\* the path's locks, and only while nothing is at the path.
Overlooked == FALSE
Occupied == There(media)

Look(a) ==
  /\ At(a, "clean") /\ work[a].todo = <<>> /\ work[a].proven
  /\ \/ pathLock = {} /\ ~Occupied /\ GoTo(a, "drop") /\ pathLock' = {a} /\ UNCHANGED work
     \/ pathLock = {} /\ Occupied /\ GoTo(a, "finish") /\ UNCHANGED <<pathLock, work>>
     \/ pathLock # {} /\ GoTo(a, "finish") /\ UNCHANGED pathLock
        /\ work' = [work EXCEPT ![a].failed = @ \/ (still # 0 /\ still = work[a].proof)]
  /\ UNCHANGED <<disk, lease, asked, gone, faults, nextToken>> /\ Keeping

\* Only the generation the intent proves.
Drop(a) ==
  /\ At(a, "drop")
  /\ \/ /\ still' = (IF still = work[a].proof THEN 0 ELSE still)
        /\ UNCHANGED <<work, faults>>
     \/ /\ Fails /\ work' = [work EXCEPT ![a].failed = TRUE]
        /\ UNCHANGED still
  /\ pathLock' = pathLock \ {a}
  /\ GoTo(a, "finish")
  /\ UNCHANGED <<media, record, claim, recClaim, trash, refs, journal>>
  /\ UNCHANGED <<lease, asked, gone, nextToken>> /\ Keeping

\* Mutant: the intent is dropped although a store could not be cleaned.
FinishAnyway(a) ==
  /\ \/ At(a, "finish")
     \/ At(a, "clean") /\ work[a].todo = <<>> /\ ~work[a].proven
  /\ Discard(a)

\* The intent is dropped only when everything is clean.
Finish(a) ==
  /\ \/ At(a, "finish")
     \/ At(a, "clean") /\ work[a].todo = <<>> /\ ~work[a].proven
  /\ \/ ~work[a].failed /\ Discard(a)
     \/ /\ work[a].failed /\ Over(a)
        /\ UNCHANGED <<disk, asked, gone, faults, nextToken>> /\ Keeping

-----------------------------------------------------------------------------
(* A replay.                                                               *)

\* Mutant: a committed intent is taken for one that is done.
ReplayOpen(a) ==
  /\ At(a, "idle") /\ journal # NoIntent /\ ~journal.committed
  /\ work' = [work EXCEPT ![a] = [Idle EXCEPT
       !.token = journal.token, !.fp = journal.fp, !.proof = journal.proof]]
  /\ GoTo(a, "probe")
  /\ UNCHANGED <<disk, locks, asked, gone, faults, nextToken>> /\ Keeping

\* The journal is read once; a committed intent needs no evidence.
Replay(a) ==
  /\ At(a, "idle") /\ journal # NoIntent
  /\ work' = [work EXCEPT ![a] = [Idle EXCEPT
       !.token = journal.token, !.fp = journal.fp, !.proof = journal.proof]]
  /\ GoTo(a, IF journal.committed THEN "mark" ELSE "probe")
  /\ UNCHANGED <<disk, locks, asked, gone, faults, nextToken>> /\ Keeping

\* Mutant: every pending intent is taken for a dead one's.
ProbeNothing(a) ==
  /\ At(a, "probe") /\ GoTo(a, "recover")
  /\ UNCHANGED <<disk, work, locks, faults, asked, gone, nextToken>> /\ Keeping

\* operation_is_active: a live operation is left alone.
Probe(a) ==
  /\ At(a, "probe")
  /\ \/ lease = {} /\ GoTo(a, "recover") /\ UNCHANGED <<work, locks, faults>>
     \/ lease # {} /\ Over(a) /\ UNCHANGED faults
     \/ Fails /\ Over(a)
  /\ UNCHANGED <<disk, asked, gone, nextToken>> /\ Keeping

\* recover_removal_claim: the exact file in the claim is destroyed; another is
\* kept there, and so is the intent.  Its sync may fail after it was destroyed.
Recover(a) ==
  LET t == work[a].token
      exact == Prepared(a, claim[t])
      destroyed == /\ gone' = gone \cup {claim[t]}
                   /\ claim' = [claim EXCEPT ![t] = NoFile]
  IN
  /\ At(a, "recover")
  /\ \/ /\ exact /\ destroyed
        /\ work' = [work EXCEPT ![a].proven = TRUE]
        /\ GoTo(a, "mark")
        /\ UNCHANGED <<locks, faults>>
     \/ exact /\ destroyed /\ Fails /\ Over(a)
     \/ exact /\ Fails /\ Over(a) /\ UNCHANGED <<gone, claim>>
     \/ There(claim[t]) /\ ~exact /\ Over(a) /\ UNCHANGED <<gone, claim, faults>>
     \/ ~There(claim[t]) /\ GoTo(a, "original")
        /\ UNCHANGED <<gone, claim, work, locks, faults>>
  /\ UNCHANGED <<media, record, still, recClaim, trash, refs, journal>>
  /\ UNCHANGED <<asked, nextToken>> /\ Keeping

\* original_generation_state: exact, ambiguous, unavailable, else it has left.
Original(a) ==
  LET exact == media = work[a].fp
      ambiguous == ~exact /\ media.gen = work[a].fp.gen
  IN
  /\ At(a, "original")
  /\ \/ exact /\ GoTo(a, "putback") /\ UNCHANGED <<work, locks, faults>>
     \/ ambiguous /\ Over(a) /\ UNCHANGED faults
     \/ ~exact /\ ~ambiguous /\ GoTo(a, "mark") /\ UNCHANGED <<work, locks, faults>>
     \/ Fails /\ Over(a)
  /\ UNCHANGED <<disk, asked, gone, nextToken>> /\ Keeping

-----------------------------------------------------------------------------
\* The process dies; the kernel lets go of its locks.
Crash(a) ==
  /\ ~At(a, "idle")
  /\ Fails /\ Over(a)
  /\ UNCHANGED <<disk, ghosts, nextGen, nextToken>>

Live(a) ==
  \/ TakeLease(a) \/ Refused(a) \/ Insert(a) \/ Validate(a) \/ Withdraw(a) \/ Check(a)
  \/ Rename(a) \/ Verify(a) \/ Destroy(a) \/ Restore(a)

Ending(a) ==
  \/ PutBack(a) \/ Cancel(a) \/ Consume(a) \/ Companions(a) \/ Mark(a) \/ Settle(a)
  \/ Clean(a) \/ Look(a) \/ Drop(a) \/ Finish(a)

Replaying(a) == Probe(a) \/ Recover(a) \/ Original(a)

Works(a) == Live(a) \/ Ending(a) \/ Replaying(a)

Acts(a) == Works(a) \/ Replay(a) \/ Crash(a) \/ \E trashed \in BOOLEAN : Begin(a, trashed)

-----------------------------------------------------------------------------
Steps == {"idle", "locked", "leased", "prepared", "withdraw", "check", "rename", "verify",
          "destroy", "restore", "putback", "cancel", "consume", "companions", "mark",
          "settle", "clean", "drop", "finish", "probe", "recover", "original"}

RemovalTypeOK ==
  /\ FilesTypeOK
  /\ pc \in [Actors -> Steps]
  /\ nextToken \in 1..(MaxTokens + 1)
  /\ \A a \in Actors :
       /\ DOMAIN work[a] = DOMAIN Idle
       /\ work[a].token \in 0..MaxTokens
       /\ work[a].fp \in File /\ work[a].moved \in File
       /\ pc[a] = "idle" => work[a] = Idle

\* (1) Only what the person asked to be removed is ever destroyed, whatever has
\* taken its place between a check and a rename, and whoever finishes the removal.
InnocentKept == \A f \in gone : f.gen \in asked

\* (2) Whatever is in a claim is found again: the journal names its token, or the
\* operation that moved it there is still at work.  Dropping the intent would orphan it.
ClaimsAreOwned ==
  \A t \in Tokens : There(claim[t]) \/ There(recClaim[t]) =>
     \/ journal.token = t
     \/ \E a \in Actors : pc[a] # "idle" /\ work[a].token = t

\* (3) The record leaves its name before its media can: none is ever left to speak
\* for a file that was destroyed.
AuthorityLeavesFirst == record \notin gone

\* (4) References are cleaned only once the wallpaper they were for has left its
\* path: no replay cleans a removal that its live owner may yet undo.
CleanedOnlyAfterItLeft ==
  \A a \in Actors : pc[a] = "clean" /\ work[a].todo # <<>> => media.gen # work[a].fp.gen

\* (5) The still a download found at its path is not taken from it by an older removal.
StillsOfTheLiving ==
  \A a \in Actors : pc[a] \in {"companions", "drop"} => media.gen \notin installed
=============================================================================
