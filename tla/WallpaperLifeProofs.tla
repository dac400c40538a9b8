------------------------- MODULE WallpaperLifeProofs -------------------------
(***************************************************************************)
(* Proofs about removals and downloads at one path, for any number of      *)
(* actors, installers, generations, removal tokens and faults: nothing is  *)
(* destroyed that the person did not ask to be removed, every record binds *)
(* a file this application downloaded, whatever is in a claim is found     *)
(* again, the stores forget a wallpaper once it has left and not before,   *)
(* no intent goes while a store still refers to what it removed, and what  *)
(* becomes of each file is what FileFate promises.                         *)
(***************************************************************************)
EXTENDS WallpaperLife, SequenceTheorems, TLAPS

Fields == {"token", "fp", "proof", "trashed", "moved", "pin", "todo", "failed", "proven"}
Busy   == Steps \ {"idle", "locked"}

\* The steps at which nobody but a live removal may touch its claim.
Held == {"leased", "prepared", "withdraw", "check", "rename", "verify", "destroy", "restore"}

\* As much of the types as the proof needs.
Shaped ==
  /\ pc \in [Actors -> Steps]
  /\ DOMAIN work = Actors /\ \A a \in Actors : DOMAIN work[a] = Fields
  /\ DOMAIN claim = Tokens /\ DOMAIN recClaim = Tokens
  /\ DOMAIN journal = {"token", "fp", "committed", "proof"}
  /\ nextToken \in 1..(MaxTokens + 1)

\* Whoever is at work has a token that was given out, for a generation asked for.
Given(a) ==
  IF pc[a] \in Busy THEN work[a].token \in 1..(nextToken - 1) /\ work[a].fp.gen \in asked
                    ELSE work[a].token = 0

JournalGiven ==
  \/ journal = NoIntent
  \/ journal.token \in 1..(nextToken - 1) /\ journal.fp.gen \in asked

\* A live removal has the lease, and its intent is not committed.
LeaseHeld(a) ==
  pc[a] \in Held => lease = {a} /\ (journal.token = work[a].token => ~journal.committed)

\* What the claim of a live removal holds.
ClaimKnown(a) ==
  /\ pc[a] = "verify" /\ ~work[a].trashed => claim[work[a].token] = work[a].moved
  /\ pc[a] = "destroy" => claim[work[a].token].gen = work[a].fp.gen

\* Beside it there are only replays that have yet to look at the lease.
Alone(a, b) ==
  pc[a] \in Held /\ b # a /\ work[b].token = work[a].token => pc[b] = "probe"

\* The path's locks are one removal's, and there is a token left for it.
PathHeld(a) == pc[a] = "locked" => pathLock = {a} /\ nextToken <= MaxTokens

RemovalInv ==
  /\ Shaped /\ JournalGiven /\ InnocentKept
  /\ \A a \in Actors : Given(a) /\ PathHeld(a) /\ LeaseHeld(a) /\ ClaimKnown(a)
  /\ \A a, b \in Actors : Alone(a, b)

-----------------------------------------------------------------------------
\* What a step of actor a that neither begins nor takes up a removal may do: to itself ...
OwnMove(a) ==
  \/ pc'[a] = "idle" /\ work'[a].token = 0
  \/ /\ pc[a] \in Busy /\ pc'[a] \in Busy \ {"probe"}
     /\ work'[a].token = work[a].token /\ work'[a].fp = work[a].fp
     /\ pc'[a] \in Held => pc[a] \in Held /\ lease' = lease
     /\ pc[a] = "probe" => lease = {}

\* ... to the claims ...
ClaimMove(a) ==
  \/ UNCHANGED claim
  \/ /\ pc[a] \in Held \cup {"recover"}
     /\ \A t \in Tokens : t # work[a].token => claim'[t] = claim[t]

\* ... and to the journal: its own intent comes, is committed, or any is dropped.
JournalMove(a) ==
  \/ UNCHANGED journal
  \/ journal' = NoIntent
  \/ /\ pc[a] = "leased" /\ journal'.token = work[a].token
     /\ journal'.fp = work[a].fp /\ ~journal'.committed
  \/ /\ pc[a] = "mark" /\ journal # NoIntent
     /\ work[a].token = journal.token
     /\ journal'.token = journal.token /\ journal'.fp = journal.fp

Move(a) ==
  /\ \A b \in Actors : b # a => pc'[b] = pc[b] /\ work'[b] = work[b]
  /\ lease' \in {lease, lease \ {a}}
  /\ pathLock' \in {pathLock, pathLock \ {a}} \/ pathLock = {}
  /\ UNCHANGED <<asked, nextToken>>
  /\ OwnMove(a) /\ ClaimMove(a) /\ JournalMove(a)
  /\ Shaped' /\ ClaimKnown(a)' /\ InnocentKept'

LEMMA Records ==
  /\ DOMAIN Idle = Fields /\ Idle.token = 0 /\ NoIntent.token = 0
  /\ DOMAIN NoIntent = {"token", "fp", "committed", "proof"}
  BY DEF Idle, NoIntent, Fields

\* Whoever is at work has a claim of its own.
LEMMA TokenOfMine ==
  ASSUME RemovalInv, NEW a \in Actors, pc[a] \in Busy
  PROVE  work[a].token \in Tokens
  BY LibraryAssumption DEF RemovalInv, Shaped, Given, Tokens

LEMMA RefusedMoves ==
  ASSUME RemovalInv, NEW a \in Actors, Refused(a) PROVE Move(a)
  BY Records, LibraryAssumption DEF Refused, Over, At, Keeping, disk, locks, RemovalInv,
     Given, Shaped, Move, OwnMove, ClaimMove, JournalMove, ClaimKnown, InnocentKept, Steps,
     Busy, Held, Tokens, Fields

LEMMA InsertMoves ==
  ASSUME RemovalInv, NEW a \in Actors, Insert(a) PROVE Move(a)
  BY Records, LibraryAssumption DEF Insert, GoTo, Over, At, Keeping, disk, locks,
     RemovalInv, Given, Shaped, Move, OwnMove, ClaimMove, JournalMove, ClaimKnown,
     InnocentKept, Steps, Busy, Held, Tokens, Fields

LEMMA ValidateMoves ==
  ASSUME RemovalInv, NEW a \in Actors, Validate(a) PROVE Move(a)
<1>1. /\ \A b \in Actors : b # a => pc'[b] = pc[b] /\ work'[b] = work[b]
      /\ lease' \in {lease, lease \ {a}}
      /\ pathLock' \in {pathLock, pathLock \ {a}} \/ pathLock = {}
      /\ UNCHANGED <<asked, nextToken>>
  BY Records DEF Validate, GoTo, At, Keeping, disk, locks, RemovalInv, Shaped
<1>2. OwnMove(a)
  BY Records DEF Validate, GoTo, At, Keeping, disk, locks, RemovalInv, Shaped, OwnMove,
     Steps, Busy, Held, Fields
<1>3. ClaimMove(a)
  BY Records DEF Validate, GoTo, At, Keeping, disk, locks, RemovalInv, Shaped, ClaimMove,
     Held, Given, Busy, Tokens
<1>4. JournalMove(a)
  BY Records DEF Validate, GoTo, At, Keeping, disk, locks, RemovalInv, Shaped, JournalMove,
     Given, Steps, Busy
<1>5. Shaped'
  BY Records DEF Validate, GoTo, At, Keeping, disk, locks, RemovalInv, Shaped, Given, Busy,
     Steps, Tokens, Fields
<1>6. ClaimKnown(a)'
  BY Records DEF Validate, GoTo, At, Keeping, disk, locks, RemovalInv, Shaped, ClaimKnown,
     Given, Busy, Tokens, Fields
<1>7. InnocentKept'
  BY Records DEF Validate, GoTo, At, Keeping, disk, locks, RemovalInv, Shaped, InnocentKept,
     Given, Busy
<1> QED
  BY <1>1, <1>2, <1>3, <1>4, <1>5, <1>6, <1>7 DEF Move

LEMMA WithdrawMoves ==
  ASSUME RemovalInv, NEW a \in Actors, Withdraw(a) PROVE Move(a)
<1>1. /\ \A b \in Actors : b # a => pc'[b] = pc[b] /\ work'[b] = work[b]
      /\ lease' \in {lease, lease \ {a}}
      /\ pathLock' \in {pathLock, pathLock \ {a}} \/ pathLock = {}
      /\ UNCHANGED <<asked, nextToken>>
  BY Records DEF Withdraw, GoTo, Retain, Over, At, Keeping, disk, locks, RemovalInv, Shaped
<1>2. OwnMove(a)
  BY Records DEF Withdraw, GoTo, Retain, Over, At, Keeping, disk, locks, RemovalInv, Shaped,
     OwnMove, Steps, Busy, Held, Fields
<1>3. ClaimMove(a)
  BY Records DEF Withdraw, GoTo, Retain, Over, At, Keeping, disk, locks, RemovalInv, Shaped,
     ClaimMove, Held, Given, Busy, Tokens
<1>4. JournalMove(a)
  BY Records DEF Withdraw, GoTo, Retain, Over, At, Keeping, disk, locks, RemovalInv, Shaped,
     JournalMove, Given, Steps, Busy
<1>5. Shaped'
  BY Records DEF Withdraw, GoTo, Retain, Over, At, Keeping, disk, locks, RemovalInv, Shaped,
     Given, Busy, Steps, Tokens, Fields
<1>6. ClaimKnown(a)'
  BY Records DEF Withdraw, GoTo, Retain, Over, At, Keeping, disk, locks, RemovalInv, Shaped,
     ClaimKnown, Given, Busy, Tokens, Fields
<1>7. InnocentKept'
  BY Records DEF Withdraw, GoTo, Retain, Over, At, Keeping, disk, locks, RemovalInv, Shaped,
     InnocentKept, Given, Busy
<1> QED
  BY <1>1, <1>2, <1>3, <1>4, <1>5, <1>6, <1>7 DEF Move

LEMMA CheckMoves ==
  ASSUME RemovalInv, NEW a \in Actors, Check(a) PROVE Move(a)
  BY Records, LibraryAssumption DEF Check, GoTo, At, Keeping, disk, locks, RemovalInv,
     Given, Shaped, Move, OwnMove, ClaimMove, JournalMove, ClaimKnown, InnocentKept, Steps,
     Busy, Held, Tokens, Fields

LEMMA RenameMoves ==
  ASSUME RemovalInv, NEW a \in Actors, Rename(a) PROVE Move(a)
<1>1. /\ \A b \in Actors : b # a => pc'[b] = pc[b] /\ work'[b] = work[b]
      /\ lease' \in {lease, lease \ {a}}
      /\ pathLock' \in {pathLock, pathLock \ {a}} \/ pathLock = {}
      /\ UNCHANGED <<asked, nextToken>>
  BY Records DEF Rename, GoTo, At, Keeping, disk, locks, RemovalInv, Shaped
<1>2. OwnMove(a)
  BY Records DEF Rename, GoTo, At, Keeping, disk, locks, RemovalInv, Shaped, OwnMove, Steps,
     Busy, Held, Fields
<1>3. ClaimMove(a)
  BY Records DEF Rename, GoTo, At, Keeping, disk, locks, RemovalInv, Shaped, ClaimMove,
     Held, Given, Busy, Tokens
<1>4. JournalMove(a)
  BY Records DEF Rename, GoTo, At, Keeping, disk, locks, RemovalInv, Shaped, JournalMove,
     Given, Steps, Busy
<1>5. Shaped'
  BY Records DEF Rename, GoTo, At, Keeping, disk, locks, RemovalInv, Shaped, Given, Busy,
     Steps, Tokens, Fields
<1>6. ClaimKnown(a)'
  <2>1. CASE There(media)
    <3>1. /\ work' = [work EXCEPT ![a].moved = media] /\ pc'[a] = "verify"
          /\ ~work[a].trashed => claim' = [claim EXCEPT ![work[a].token] = media]
      BY <2>1 DEF Rename, GoTo, RemovalInv, Shaped
    <3>2. work[a].token \in DOMAIN claim /\ a \in DOMAIN work /\ DOMAIN work[a] = Fields
      BY TokenOfMine DEF Rename, At, Busy, Steps, RemovalInv, Shaped
    <3> QED
      BY <3>1, <3>2 DEF ClaimKnown, Fields
  <2>2. CASE ~There(media)
    BY <2>2 DEF Rename, GoTo, ClaimKnown, RemovalInv, Shaped
  <2> QED
    BY <2>1, <2>2
<1>7. InnocentKept'
  BY Records DEF Rename, GoTo, At, Keeping, disk, locks, RemovalInv, Shaped, InnocentKept,
     Given, Busy
<1> QED
  BY <1>1, <1>2, <1>3, <1>4, <1>5, <1>6, <1>7 DEF Move

LEMMA VerifyMoves ==
  ASSUME RemovalInv, NEW a \in Actors, Verify(a) PROVE Move(a)
<1>1. /\ \A b \in Actors : b # a => pc'[b] = pc[b] /\ work'[b] = work[b]
      /\ lease' \in {lease, lease \ {a}}
      /\ pathLock' \in {pathLock, pathLock \ {a}} \/ pathLock = {}
      /\ UNCHANGED <<asked, nextToken>>
  BY Records DEF Verify, GoTo, Retain, Over, MoveBack, Prepared, At, Keeping, disk, locks,
     RemovalInv, Shaped
<1>2. OwnMove(a)
  BY Records DEF Verify, GoTo, Retain, Over, MoveBack, Prepared, At, Keeping, disk, locks,
     RemovalInv, Shaped, OwnMove, Steps, Busy, Held, Fields
<1>3. ClaimMove(a)
  BY Records DEF Verify, GoTo, Retain, Over, MoveBack, Prepared, At, Keeping, disk, locks,
     RemovalInv, Shaped, ClaimMove, Held, Given, Busy, Tokens
<1>4. JournalMove(a)
  BY Records DEF Verify, GoTo, Retain, Over, MoveBack, Prepared, At, Keeping, disk, locks,
     RemovalInv, Shaped, JournalMove, Given, Steps, Busy
<1>5. Shaped'
  BY Records DEF Verify, GoTo, Retain, Over, MoveBack, Prepared, At, Keeping, disk, locks,
     RemovalInv, Shaped, Given, Busy, Steps, Tokens, Fields
<1>6. ClaimKnown(a)'
  BY Records DEF Verify, GoTo, Retain, Over, MoveBack, Prepared, At, Keeping, disk, locks,
     RemovalInv, Shaped, ClaimKnown, Given, Busy, Tokens, Fields
<1>7. InnocentKept'
  BY Records DEF Verify, GoTo, Retain, Over, MoveBack, Prepared, At, Keeping, disk, locks,
     RemovalInv, Shaped, InnocentKept, Given, Busy
<1> QED
  BY <1>1, <1>2, <1>3, <1>4, <1>5, <1>6, <1>7 DEF Move

LEMMA DestroyMoves ==
  ASSUME RemovalInv, NEW a \in Actors, Destroy(a) PROVE Move(a)
<1>1. /\ \A b \in Actors : b # a => pc'[b] = pc[b] /\ work'[b] = work[b]
      /\ lease' \in {lease, lease \ {a}}
      /\ pathLock' \in {pathLock, pathLock \ {a}} \/ pathLock = {}
      /\ UNCHANGED <<asked, nextToken>>
  BY Records DEF Destroy, GoTo, At, Keeping, disk, locks, RemovalInv, Shaped
<1>2. OwnMove(a)
  BY Records DEF Destroy, GoTo, At, Keeping, disk, locks, RemovalInv, Shaped, OwnMove,
     Steps, Busy, Held, Fields
<1>3. ClaimMove(a)
  BY Records DEF Destroy, GoTo, At, Keeping, disk, locks, RemovalInv, Shaped, ClaimMove,
     Held, Given, Busy, Tokens
<1>4. JournalMove(a)
  BY Records DEF Destroy, GoTo, At, Keeping, disk, locks, RemovalInv, Shaped, JournalMove,
     Given, Steps, Busy
<1>5. Shaped'
  BY Records DEF Destroy, GoTo, At, Keeping, disk, locks, RemovalInv, Shaped, Given, Busy,
     Steps, Tokens, Fields
<1>6. ClaimKnown(a)'
  BY Records DEF Destroy, GoTo, At, Keeping, disk, locks, RemovalInv, Shaped, ClaimKnown,
     Given, Busy, Tokens, Fields
<1>7. InnocentKept'
  BY Records DEF Destroy, GoTo, At, Keeping, disk, locks, RemovalInv, Shaped, InnocentKept,
     Given, Busy, ClaimKnown, Steps
<1> QED
  BY <1>1, <1>2, <1>3, <1>4, <1>5, <1>6, <1>7 DEF Move

LEMMA RestoreMoves ==
  ASSUME RemovalInv, NEW a \in Actors, Restore(a) PROVE Move(a)
  BY Records, LibraryAssumption DEF Restore, GoTo, Retain, Over, MoveBack, At, Keeping,
     disk, locks, RemovalInv, Given, Shaped, Move, OwnMove, ClaimMove, JournalMove,
     ClaimKnown, InnocentKept, Steps, Busy, Held, Tokens, Fields

LEMMA PutBackMoves ==
  ASSUME RemovalInv, NEW a \in Actors, PutBack(a) PROVE Move(a)
  BY Records, LibraryAssumption DEF PutBack, GoTo, Retain, Over, At, Keeping, disk, locks,
     RemovalInv, Given, Shaped, Move, OwnMove, ClaimMove, JournalMove, ClaimKnown,
     InnocentKept, Steps, Busy, Held, Tokens, Fields

LEMMA CancelMoves ==
  ASSUME RemovalInv, NEW a \in Actors, Cancel(a) PROVE Move(a)
  BY Records, LibraryAssumption DEF Cancel, Discard, Over, At, Keeping, disk, locks,
     RemovalInv, Given, Shaped, Move, OwnMove, ClaimMove, JournalMove, ClaimKnown,
     InnocentKept, Steps, Busy, Held, Tokens, Fields

LEMMA ConsumeMoves ==
  ASSUME RemovalInv, NEW a \in Actors, Consume(a) PROVE Move(a)
  BY Records, LibraryAssumption DEF Consume, GoTo, At, Keeping, disk, locks, RemovalInv,
     Given, Shaped, Move, OwnMove, ClaimMove, JournalMove, ClaimKnown, InnocentKept, Steps,
     Busy, Held, Tokens, Fields

LEMMA CompanionsMoves ==
  ASSUME RemovalInv, NEW a \in Actors, Companions(a) PROVE Move(a)
  BY Records, LibraryAssumption DEF Companions, GoTo, At, Keeping, disk, locks, RemovalInv,
     Given, Shaped, Move, OwnMove, ClaimMove, JournalMove, ClaimKnown, InnocentKept, Steps,
     Busy, Held, Tokens, Fields

LEMMA MarkMoves ==
  ASSUME RemovalInv, NEW a \in Actors, Mark(a) PROVE Move(a)
<1>1. /\ \A b \in Actors : b # a => pc'[b] = pc[b] /\ work'[b] = work[b]
      /\ lease' \in {lease, lease \ {a}}
      /\ pathLock' \in {pathLock, pathLock \ {a}} \/ pathLock = {}
      /\ UNCHANGED <<asked, nextToken>>
  BY Records DEF Mark, GoTo, Owns, Over, At, Keeping, disk, locks, RemovalInv, Shaped
<1>2. OwnMove(a)
  BY Records DEF Mark, GoTo, Owns, Over, At, Keeping, disk, locks, RemovalInv, Shaped,
     OwnMove, Steps, Busy, Held, Fields
<1>3. ClaimMove(a)
  BY Records DEF Mark, GoTo, Owns, Over, At, Keeping, disk, locks, RemovalInv, Shaped,
     ClaimMove, Held, Given, Busy, Tokens
<1>4. JournalMove(a)
  BY Records DEF Mark, GoTo, Owns, Over, At, Keeping, disk, locks, RemovalInv, Shaped,
     JournalMove, Given, Steps, Busy
<1>5. Shaped'
  BY Records DEF Mark, GoTo, Owns, Over, At, Keeping, disk, locks, RemovalInv, Shaped,
     Given, Busy, Steps, Tokens, Fields
<1>6. ClaimKnown(a)'
  BY Records DEF Mark, GoTo, Owns, Over, At, Keeping, disk, locks, RemovalInv, Shaped,
     ClaimKnown, Given, Busy, Tokens, Fields
<1>7. InnocentKept'
  BY Records DEF Mark, GoTo, Owns, Over, At, Keeping, disk, locks, RemovalInv, Shaped,
     InnocentKept, Given, Busy
<1> QED
  BY <1>1, <1>2, <1>3, <1>4, <1>5, <1>6, <1>7 DEF Move

LEMMA SettleMoves ==
  ASSUME RemovalInv, NEW a \in Actors, Settle(a) PROVE Move(a)
<1>1. /\ \A b \in Actors : b # a => pc'[b] = pc[b] /\ work'[b] = work[b]
      /\ lease' \in {lease, lease \ {a}}
      /\ pathLock' \in {pathLock, pathLock \ {a}} \/ pathLock = {}
      /\ UNCHANGED <<asked, nextToken>>
  BY Records DEF Settle, GoTo, At, Keeping, disk, locks, RemovalInv, Shaped
<1>2. OwnMove(a)
  <2>1. pc[a] = "settle" /\ pc'[a] = "clean" /\ a \in DOMAIN work /\ DOMAIN work[a] = Fields
    BY DEF Settle, At, GoTo, RemovalInv, Shaped
  <2>2. work'[a].token = work[a].token /\ work'[a].fp = work[a].fp
    BY <2>1 DEF Settle, Fields
  <2> QED
    BY <2>1, <2>2 DEF OwnMove, Busy, Steps, Held
<1>3. ClaimMove(a)
  BY Records DEF Settle, GoTo, At, Keeping, disk, locks, RemovalInv, Shaped, ClaimMove,
     Held, Given, Busy, Tokens
<1>4. JournalMove(a)
  BY Records DEF Settle, GoTo, At, Keeping, disk, locks, RemovalInv, Shaped, JournalMove,
     Given, Steps, Busy
<1>5. Shaped'
  BY Records DEF Settle, GoTo, At, Keeping, disk, locks, RemovalInv, Shaped, Given, Busy,
     Steps, Tokens, Fields
<1>6. ClaimKnown(a)'
  BY Records DEF Settle, GoTo, At, Keeping, disk, locks, RemovalInv, Shaped, ClaimKnown,
     Given, Busy, Tokens, Fields
<1>7. InnocentKept'
  BY Records DEF Settle, GoTo, At, Keeping, disk, locks, RemovalInv, Shaped, InnocentKept,
     Given, Busy
<1> QED
  BY <1>1, <1>2, <1>3, <1>4, <1>5, <1>6, <1>7 DEF Move

LEMMA CleanMoves ==
  ASSUME RemovalInv, NEW a \in Actors, Clean(a) PROVE Move(a)
<1>1. /\ \A b \in Actors : b # a => pc'[b] = pc[b] /\ work'[b] = work[b]
      /\ lease' \in {lease, lease \ {a}}
      /\ pathLock' \in {pathLock, pathLock \ {a}} \/ pathLock = {}
      /\ UNCHANGED <<asked, nextToken>>
  BY Records DEF Clean, At, Keeping, disk, locks, RemovalInv, Shaped
<1>2. OwnMove(a)
  BY Records DEF Clean, At, Keeping, disk, locks, RemovalInv, Shaped, OwnMove, Steps, Busy,
     Held, Fields
<1>3. ClaimMove(a)
  BY Records DEF Clean, At, Keeping, disk, locks, RemovalInv, Shaped, ClaimMove, Held,
     Given, Busy, Tokens
<1>4. JournalMove(a)
  BY Records DEF Clean, At, Keeping, disk, locks, RemovalInv, Shaped, JournalMove, Given,
     Steps, Busy
<1>5. Shaped'
  BY Records DEF Clean, At, Keeping, disk, locks, RemovalInv, Shaped, Given, Busy, Steps,
     Tokens, Fields
<1>6. ClaimKnown(a)'
  BY Records DEF Clean, At, Keeping, disk, locks, RemovalInv, Shaped, ClaimKnown, Given,
     Busy, Tokens, Fields
<1>7. InnocentKept'
  BY Records DEF Clean, At, Keeping, disk, locks, RemovalInv, Shaped, InnocentKept, Given,
     Busy
<1> QED
  BY <1>1, <1>2, <1>3, <1>4, <1>5, <1>6, <1>7 DEF Move

LEMMA LookMoves ==
  ASSUME RemovalInv, NEW a \in Actors, Look(a) PROVE Move(a)
  BY Records, LibraryAssumption DEF Look, GoTo, At, Keeping, disk, locks, RemovalInv, Given,
     Shaped, Move, OwnMove, ClaimMove, JournalMove, ClaimKnown, InnocentKept, Steps, Busy,
     Held, Tokens, Fields

LEMMA DropMoves ==
  ASSUME RemovalInv, NEW a \in Actors, Drop(a) PROVE Move(a)
<1>1. /\ \A b \in Actors : b # a => pc'[b] = pc[b] /\ work'[b] = work[b]
      /\ lease' \in {lease, lease \ {a}}
      /\ pathLock' \in {pathLock, pathLock \ {a}} \/ pathLock = {}
      /\ UNCHANGED <<asked, nextToken>>
  BY Records DEF Drop, GoTo, At, Keeping, disk, locks, RemovalInv, Shaped
<1>2. OwnMove(a)
  BY Records DEF Drop, GoTo, At, Keeping, disk, locks, RemovalInv, Shaped, OwnMove, Steps,
     Busy, Held, Fields
<1>3. ClaimMove(a)
  BY Records DEF Drop, GoTo, At, Keeping, disk, locks, RemovalInv, Shaped, ClaimMove, Held,
     Given, Busy, Tokens
<1>4. JournalMove(a)
  BY Records DEF Drop, GoTo, At, Keeping, disk, locks, RemovalInv, Shaped, JournalMove,
     Given, Steps, Busy
<1>5. Shaped'
  BY Records DEF Drop, GoTo, At, Keeping, disk, locks, RemovalInv, Shaped, Given, Busy,
     Steps, Tokens, Fields
<1>6. ClaimKnown(a)'
  BY Records DEF Drop, GoTo, At, Keeping, disk, locks, RemovalInv, Shaped, ClaimKnown,
     Given, Busy, Tokens, Fields
<1>7. InnocentKept'
  BY Records DEF Drop, GoTo, At, Keeping, disk, locks, RemovalInv, Shaped, InnocentKept,
     Given, Busy
<1> QED
  BY <1>1, <1>2, <1>3, <1>4, <1>5, <1>6, <1>7 DEF Move

LEMMA FinishMoves ==
  ASSUME RemovalInv, NEW a \in Actors, Finish(a) PROVE Move(a)
  BY Records, LibraryAssumption DEF Finish, Discard, Over, At, Keeping, disk, locks,
     RemovalInv, Given, Shaped, Move, OwnMove, ClaimMove, JournalMove, ClaimKnown,
     InnocentKept, Steps, Busy, Held, Tokens, Fields

LEMMA ProbeMoves ==
  ASSUME RemovalInv, NEW a \in Actors, Probe(a) PROVE Move(a)
  BY Records, LibraryAssumption DEF Probe, GoTo, Over, At, Keeping, disk, locks, RemovalInv,
     Given, Shaped, Move, OwnMove, ClaimMove, JournalMove, ClaimKnown, InnocentKept, Steps,
     Busy, Held, Tokens, Fields

LEMMA RecoverMoves ==
  ASSUME RemovalInv, NEW a \in Actors, Recover(a) PROVE Move(a)
<1>1. /\ \A b \in Actors : b # a => pc'[b] = pc[b] /\ work'[b] = work[b]
      /\ lease' \in {lease, lease \ {a}}
      /\ pathLock' \in {pathLock, pathLock \ {a}} \/ pathLock = {}
      /\ UNCHANGED <<asked, nextToken>>
  BY Records DEF Recover, GoTo, Over, Prepared, At, Keeping, disk, locks, RemovalInv, Shaped
<1>2. OwnMove(a)
  BY Records DEF Recover, GoTo, Over, Prepared, At, Keeping, disk, locks, RemovalInv,
     Shaped, OwnMove, Steps, Busy, Held, Fields
<1>3. ClaimMove(a)
  BY Records DEF Recover, GoTo, Over, Prepared, At, Keeping, disk, locks, RemovalInv,
     Shaped, ClaimMove, Held, Given, Busy, Tokens
<1>4. JournalMove(a)
  BY Records DEF Recover, GoTo, Over, Prepared, At, Keeping, disk, locks, RemovalInv,
     Shaped, JournalMove, Given, Steps, Busy
<1>5. Shaped'
  BY Records DEF Recover, GoTo, Over, Prepared, At, Keeping, disk, locks, RemovalInv,
     Shaped, Given, Busy, Steps, Tokens, Fields
<1>6. ClaimKnown(a)'
  BY Records DEF Recover, GoTo, Over, Prepared, At, Keeping, disk, locks, RemovalInv,
     Shaped, ClaimKnown, Given, Busy, Tokens, Fields
<1>7. InnocentKept'
  BY Records DEF Recover, GoTo, Over, Prepared, At, Keeping, disk, locks, RemovalInv,
     Shaped, InnocentKept, Given, Busy
<1> QED
  BY <1>1, <1>2, <1>3, <1>4, <1>5, <1>6, <1>7 DEF Move

LEMMA OriginalMoves ==
  ASSUME RemovalInv, NEW a \in Actors, Original(a) PROVE Move(a)
  BY Records, LibraryAssumption DEF Original, GoTo, Over, At, Keeping, disk, locks,
     RemovalInv, Given, Shaped, Move, OwnMove, ClaimMove, JournalMove, ClaimKnown,
     InnocentKept, Steps, Busy, Held, Tokens, Fields

LEMMA CrashMoves ==
  ASSUME RemovalInv, NEW a \in Actors, Crash(a) PROVE Move(a)
  BY Records, LibraryAssumption DEF Crash, Over, ghosts, At, Keeping, disk, locks,
     RemovalInv, Given, Shaped, Move, OwnMove, ClaimMove, JournalMove, ClaimKnown,
     InnocentKept, Steps, Busy, Held, Tokens, Fields

-----------------------------------------------------------------------------
\* Such a step keeps the invariant: it cannot reach the claim of a live removal of
\* somebody else's, for whoever has the same token has yet to find the lease free.
LEMMA MoveKeeps ==
  ASSUME RemovalInv, NEW a \in Actors, Move(a) PROVE RemovalInv'
<1>1. Shaped' /\ InnocentKept' /\ ClaimKnown(a)' /\ UNCHANGED <<asked, nextToken>>
  BY DEF Move
<1>0. \A b \in Actors : PathHeld(b)'
  BY <1>1 DEF Move, OwnMove, RemovalInv, PathHeld, Busy
<1>2. \A b \in Actors : Given(b)'
  <2>1. ASSUME NEW b \in Actors, b # a PROVE Given(b)'
    BY <1>1, <2>1 DEF Move, RemovalInv, Given
  <2>2. Given(a)'
    BY <1>1 DEF Move, OwnMove, RemovalInv, Given, Busy
  <2> QED
    BY <2>1, <2>2
<1>3. JournalGiven'
  <2>1. CASE pc[a] = "leased" \/ pc[a] = "mark"
    BY <1>1, <2>1 DEF Move, JournalMove, JournalGiven, RemovalInv, Given, Busy, Steps
  <2>2. CASE journal' = journal \/ journal' = NoIntent
    BY <1>1, <2>2 DEF JournalGiven, RemovalInv
  <2> QED
    BY <2>1, <2>2 DEF Move, JournalMove
<1>4. \A b \in Actors : pc[b] \in Held => work[b].token # 0
  BY DEF RemovalInv, Given, Shaped, Held, Busy, Steps
<1>5. ASSUME NEW b \in Actors, b # a PROVE LeaseHeld(b)' /\ ClaimKnown(b)'
  <2>1. pc'[b] = pc[b] /\ work'[b] = work[b] /\ Alone(b, a) /\ LeaseHeld(b) /\ ClaimKnown(b)
    BY <1>5 DEF Move, RemovalInv
  <2> SUFFICES ASSUME pc[b] \in Held PROVE LeaseHeld(b)' /\ ClaimKnown(b)'
    BY <2>1 DEF LeaseHeld, ClaimKnown, Held
  <2>2. lease' = {b}
    BY <1>5, <2>1 DEF Move, LeaseHeld
  <2>3. work[a].token = work[b].token => pc[a] = "probe"
    BY <1>5, <2>1 DEF Alone
  <2>4. journal'.token = work[b].token => ~journal'.committed
    <3>1. CASE journal' = journal
      BY <2>1, <3>1 DEF LeaseHeld
    <3>2. CASE journal' = NoIntent
      BY <1>4, <3>2, Records
    <3>3. CASE pc[a] = "leased" /\ ~journal'.committed
      BY <3>3
    <3>4. CASE pc[a] = "mark" /\ journal'.token = work[a].token
      BY <2>3, <3>4
    <3> QED
      BY <3>1, <3>2, <3>3, <3>4 DEF Move, JournalMove
  <2>5. claim'[work[b].token] = claim[work[b].token]
    <3>1. CASE work[a].token = work[b].token
      BY <2>3, <3>1 DEF Move, ClaimMove, Held
    <3>2. CASE work[a].token # work[b].token
      BY <3>2, TokenOfMine DEF Move, ClaimMove, Held, Busy, Steps
    <3> QED
      BY <3>1, <3>2
  <2> QED
    BY <2>1, <2>2, <2>4, <2>5 DEF LeaseHeld, ClaimKnown
<1>6. LeaseHeld(a)'
  <2> SUFFICES ASSUME pc'[a] \in Held PROVE LeaseHeld(a)'
    BY DEF LeaseHeld
  <2>1. pc[a] \in Held /\ lease' = lease /\ work'[a].token = work[a].token
    BY DEF Move, OwnMove, Held
  <2>2. lease = {a} /\ (journal.token = work[a].token => ~journal.committed)
    BY <2>1 DEF RemovalInv, LeaseHeld
  <2>3. journal'.token = work[a].token => ~journal'.committed
    <3>1. CASE journal' = NoIntent
      BY <1>4, <2>1, <3>1, Records
    <3>2. CASE journal' # NoIntent
      BY <2>1, <2>2, <3>2 DEF Move, JournalMove, Held
    <3> QED
      BY <3>1, <3>2
  <2> QED
    BY <2>1, <2>2, <2>3 DEF LeaseHeld
<1>7. ASSUME NEW b \in Actors, NEW c \in Actors PROVE Alone(b, c)'
  <2> SUFFICES ASSUME pc'[b] \in Held, c # b, work'[c].token = work'[b].token
               PROVE  pc'[c] = "probe"
    BY DEF Alone
  <2>1. pc[b] \in Held /\ work'[b].token = work[b].token /\ work[b].token # 0
    BY <1>4 DEF Move, OwnMove, Held
  <2>2. CASE c # a
    BY <2>1, <2>2 DEF Move, RemovalInv, Alone
  <2>3. CASE c = a
    <3>1. pc'[b] = pc[b] /\ work'[b] = work[b] /\ lease = {b}
      BY <2>1, <2>3 DEF Move, RemovalInv, LeaseHeld
    <3>2. pc'[a] # "idle" /\ work'[a].token = work[a].token
      BY <2>1, <2>3, <3>1 DEF Move, OwnMove, Busy
    <3>3. pc[a] = "probe"
      BY <2>1, <2>3, <3>2 DEF RemovalInv, Alone
    <3> QED
      BY <2>3, <3>1, <3>2, <3>3 DEF Move, OwnMove
  <2> QED
    BY <2>2, <2>3
<1> QED
  BY <1>0, <1>1, <1>2, <1>3, <1>5, <1>6, <1>7 DEF RemovalInv

\* A new removal's token is nobody else's, and it takes the lease when it is free.
LEMMA TakeLeaseKeeps ==
  ASSUME RemovalInv, NEW a \in Actors, TakeLease(a) PROVE RemovalInv'
<1>1. /\ pc[a] = "locked" /\ lease = {} /\ lease' = {a}
      /\ pc' = [pc EXCEPT ![a] = "leased"] /\ nextToken' = nextToken + 1
      /\ asked' = asked \cup {media.gen}
      /\ UNCHANGED <<journal, claim, recClaim, gone, pathLock>>
  BY DEF TakeLease, At, GoTo, disk
<1>2. /\ work'[a].token = nextToken /\ work'[a].fp = media
      /\ DOMAIN work' = Actors /\ \A b \in Actors : DOMAIN work'[b] = Fields
      /\ \A b \in Actors : b # a => work'[b] = work[b]
  BY DEF TakeLease, RemovalInv, Shaped, Fields
<1>3. nextToken \in Nat /\ nextToken > 0 /\ nextToken <= MaxTokens /\ pathLock = {a}
  BY <1>1 DEF RemovalInv, Shaped, PathHeld
<1>4. Shaped'
  BY <1>1, <1>2, <1>3, LibraryAssumption DEF Shaped, RemovalInv, Steps
<1>5. ASSUME NEW b \in Actors PROVE Given(b)' /\ PathHeld(b)'
  BY <1>1, <1>2, <1>3 DEF Given, PathHeld, RemovalInv, Shaped, Busy, Steps
<1>6. JournalGiven' /\ InnocentKept'
  BY <1>1, <1>3 DEF RemovalInv, JournalGiven, InnocentKept
<1>7. \A b \in Actors : work[b].token # nextToken /\ pc[b] \notin Held
  BY <1>1, <1>3 DEF RemovalInv, Given, LeaseHeld, Shaped
<1>8. journal.token # nextToken
  BY <1>3, Records DEF RemovalInv, JournalGiven
<1>9. \A b \in Actors : LeaseHeld(b)' /\ ClaimKnown(b)'
  BY <1>1, <1>2, <1>7, <1>8 DEF RemovalInv, Shaped, LeaseHeld, ClaimKnown, Held
<1>10. \A b, c \in Actors : Alone(b, c)'
  BY <1>1, <1>2, <1>7 DEF RemovalInv, Shaped, Alone, Held
<1> QED
  BY <1>4, <1>5, <1>6, <1>9, <1>10 DEF RemovalInv

LEMMA BeginKeeps ==
  ASSUME RemovalInv, NEW a \in Actors, NEW trashed \in BOOLEAN, Begin(a, trashed)
  PROVE  RemovalInv'
<1>1. /\ pc[a] = "idle" /\ pc' = [pc EXCEPT ![a] = "locked"]
      /\ pathLock = {} /\ pathLock' = {a} /\ nextToken <= MaxTokens
      /\ UNCHANGED <<journal, claim, recClaim, gone, asked, lease, nextToken>>
  BY DEF Begin, At, GoTo, disk
<1>2. /\ work'[a].token = 0
      /\ DOMAIN work' = Actors /\ \A b \in Actors : DOMAIN work'[b] = Fields
      /\ \A b \in Actors : b # a => work'[b] = work[b]
  BY Records DEF Begin, RemovalInv, Shaped, Fields
<1>3. Shaped' /\ JournalGiven' /\ InnocentKept'
  BY <1>1, <1>2 DEF RemovalInv, Shaped, Steps, JournalGiven, InnocentKept
<1>4. \A b \in Actors : Given(b)' /\ PathHeld(b)' /\ LeaseHeld(b)' /\ ClaimKnown(b)'
  BY <1>1, <1>2 DEF RemovalInv, Shaped, Given, PathHeld, LeaseHeld, ClaimKnown, Busy, Held
<1>5. \A b, c \in Actors : Alone(b, c)'
  BY <1>1, <1>2 DEF RemovalInv, Shaped, Alone, Given, Held, Busy, Steps
<1> QED
  BY <1>3, <1>4, <1>5 DEF RemovalInv

\* A replay takes the token of a pending intent, and starts by looking at the lease
\* unless the intent is committed, when no live removal has it any more.
LEMMA ReplayKeeps ==
  ASSUME RemovalInv, NEW a \in Actors, Replay(a) PROVE RemovalInv'
<1>1. /\ pc[a] = "idle" /\ journal # NoIntent
      /\ pc' = [pc EXCEPT ![a] = IF journal.committed THEN "mark" ELSE "probe"]
      /\ UNCHANGED <<journal, claim, recClaim, gone, asked, lease, pathLock, nextToken>>
  BY DEF Replay, At, GoTo, disk, locks
<1>2. /\ work'[a].token = journal.token /\ work'[a].fp = journal.fp
      /\ DOMAIN work' = Actors /\ \A b \in Actors : DOMAIN work'[b] = Fields
      /\ \A b \in Actors : b # a => work'[b] = work[b]
  BY Records DEF Replay, RemovalInv, Shaped, Fields
<1>3. journal.token \in 1..(nextToken - 1) /\ journal.fp.gen \in asked
  BY <1>1 DEF RemovalInv, JournalGiven
<1>4. Shaped' /\ JournalGiven' /\ InnocentKept'
  BY <1>1, <1>2 DEF RemovalInv, Shaped, Steps, JournalGiven, InnocentKept
<1>5. \A b \in Actors : Given(b)' /\ PathHeld(b)' /\ LeaseHeld(b)' /\ ClaimKnown(b)'
  BY <1>1, <1>2, <1>3 DEF RemovalInv, Shaped, Given, PathHeld, LeaseHeld, ClaimKnown, Busy, Held, Steps
<1>6. ASSUME NEW b \in Actors, NEW c \in Actors PROVE Alone(b, c)'
  <2> SUFFICES ASSUME pc'[b] \in Held, c # b, work'[c].token = work'[b].token
               PROVE  pc'[c] = "probe"
    BY DEF Alone
  <2>1. b # a /\ pc[b] \in Held /\ work'[b] = work[b]
    BY <1>1, <1>2 DEF RemovalInv, Shaped, Held
  <2>2. CASE c # a
    BY <1>1, <1>2, <2>1, <2>2 DEF RemovalInv, Shaped, Alone
  <2>3. CASE c = a
    <3>1. ~journal.committed
      BY <1>2, <2>1, <2>3 DEF RemovalInv, LeaseHeld
    <3> QED
      BY <1>1, <2>3, <3>1 DEF RemovalInv, Shaped
  <2> QED
    BY <2>2, <2>3
<1> QED
  BY <1>4, <1>5, <1>6 DEF RemovalInv

\* Everybody else leaves what the invariant is about alone.
LEMMA OthersKeep ==
  ASSUME RemovalInv,
         UNCHANGED <<pc, work, nextToken, journal, claim, lease, asked, gone>>,
         DOMAIN recClaim' = Tokens,
         \A a \in Actors : pathLock = {a} => pathLock' = {a}
  PROVE  RemovalInv'
  BY DEF RemovalInv, Shaped, JournalGiven, InnocentKept, Given, PathHeld, LeaseHeld, ClaimKnown, Alone

LEMMA InitRemovalInv == Init => RemovalInv
  BY Records, LibraryAssumption DEF Init, InitFiles, InitRemoval, RemovalInv, Shaped, JournalGiven,
     InnocentKept, Given, PathHeld, LeaseHeld, ClaimKnown, Alone, Busy, Held, Steps

LEMMA NextKeeps ==
  ASSUME RemovalInv, [Next]_vars PROVE RemovalInv'
<1>1. CASE World /\ UNCHANGED <<acts, loads>>
  BY <1>1, OthersKeep DEF World, StrangerPuts, StrangerTakes, Capture, Author, acts, locks, ghosts,
     RemovalInv, Shaped
<1>2. ASSUME NEW a \in Actors, Acts(a) PROVE RemovalInv'
  <2>1. CASE \E trashed \in BOOLEAN : Begin(a, trashed)
    BY <2>1, BeginKeeps
  <2>2. CASE TakeLease(a) \/ Replay(a)
    BY <2>2, TakeLeaseKeeps, ReplayKeeps
  <2>3. CASE \/ Live(a) /\ ~TakeLease(a)
             \/ Ending(a) \/ Replaying(a) \/ Crash(a)
    <3>1. Move(a)
      BY <2>3, RefusedMoves, InsertMoves, ValidateMoves, WithdrawMoves, CheckMoves, RenameMoves,
         VerifyMoves, DestroyMoves, RestoreMoves, PutBackMoves, CancelMoves, ConsumeMoves,
         CompanionsMoves, MarkMoves, SettleMoves, CleanMoves, LookMoves, DropMoves, FinishMoves,
         ProbeMoves, RecoverMoves, OriginalMoves, CrashMoves
      DEF Live, Ending, Replaying
    <3> QED
      BY <3>1, MoveKeeps
  <2> QED
    BY <1>2, <2>1, <2>2, <2>3 DEF Acts, Works, Live
<1>3. ASSUME NEW d \in Installers, Loads(d) /\ UNCHANGED acts PROVE RemovalInv'
  <2>1. UNCHANGED <<claim, recClaim, journal, lease, asked, gone>>
    BY <1>3 DEF Loads, Installs, Choose, PublishMedia, Confirm, PublishRecord, SweepLooks,
       SweepRetires, Dies, Untouched
  <2>2. \A a \in Actors : pathLock = {a} => pathLock' = {a}
    BY <1>3, LibraryAssumption DEF Loads, Installs, Choose, PublishMedia, Confirm, PublishRecord,
       SweepLooks, SweepRetires, Dies, Leaving
  <2> QED
    BY <1>3, <2>1, <2>2, OthersKeep DEF acts, RemovalInv, Shaped
<1>4. CASE UNCHANGED vars
  BY <1>4, OthersKeep DEF vars, disk, locks, ghosts, acts, RemovalInv, Shaped
<1> QED
  BY <1>1, <1>2, <1>3, <1>4 DEF Next

\* Only what the person asked to be removed is ever destroyed, whatever takes its place
\* between a check and a rename, whoever dies and however many replays finish it
\* (_remove_withdrawn, recover_removal_claim).
THEOREM OnlyTheAskedIsDestroyed == Spec => []InnocentKept
<1>1. RemovalInv => InnocentKept
  BY DEF RemovalInv
<1> QED
  BY <1>1, InitRemovalInv, NextKeeps, PTL DEF Spec

-----------------------------------------------------------------------------
(* The authority to delete.                                                *)

\* A record at its name, in a claim or about to be written binds a file the application
\* downloaded: withdrawals and restores only exchange records.
Earned ==
  /\ AuthorityIsEarned
  /\ \A t \in Tokens : There(recClaim[t]) => recClaim[t].gen \in installed
  /\ DOMAIN file = Installers
  /\ \A d \in Installers : There(file[d]) => file[d].gen \in installed

LEMMA InitEarned == Init => Earned
  BY DEF Init, InitFiles, InitDownload, Earned, AuthorityIsEarned, There, NoFile, New

\* The steps of a removal that exchange records.
LEMMA RecordsExchanged ==
  ASSUME RemovalInv, Earned, NEW a \in Actors, UNCHANGED loads,
         Withdraw(a) \/ PutBack(a) \/ Consume(a) \/ Settle(a)
  PROVE  Earned'
<1>1. UNCHANGED <<installed, file>>
  BY DEF loads, Withdraw, PutBack, Consume, Settle, Keeping
<1>2. work[a].token \in Tokens /\ DOMAIN recClaim = Tokens
  BY TokenOfMine DEF Withdraw, PutBack, Consume, Settle, At, Busy, Steps, RemovalInv, Shaped
<1>3. ~There(NoFile)
  BY DEF There
<1>4. There(record') => record'.gen \in installed
  BY <1>2, <1>3 DEF Withdraw, PutBack, Consume, Settle, Earned, AuthorityIsEarned
<1>5. ASSUME NEW t \in Tokens, There(recClaim'[t]) PROVE recClaim'[t].gen \in installed
  BY <1>2, <1>3, <1>5 DEF Withdraw, PutBack, Consume, Settle, Earned, AuthorityIsEarned
<1> QED
  BY <1>1, <1>4, <1>5 DEF Earned, AuthorityIsEarned, There

\* No other step of a removal touches a record.
LEMMA OtherActsLeaveRecords ==
  ASSUME NEW a \in Actors, Acts(a),
         ~(Withdraw(a) \/ PutBack(a) \/ Consume(a) \/ Settle(a))
  PROVE  UNCHANGED <<record, recClaim, installed>>
<1>1. CASE Replay(a) \/ Crash(a) \/ (\E trashed \in BOOLEAN : Begin(a, trashed)) \/ Replaying(a)
  BY <1>1 DEF Replay, Crash, Begin, Replaying, Probe, Recover, Original, disk, ghosts, Keeping
<1>2. CASE Live(a)
  BY <1>2 DEF Live, TakeLease, Refused, Insert, Validate, Check, Rename, Verify, Destroy, Restore,
     disk, Keeping
<1>3. CASE Ending(a)
  BY <1>3 DEF Ending, Cancel, Discard, Companions, Mark, Clean, Look, Drop, Finish, disk, Keeping
<1> QED
  BY <1>1, <1>2, <1>3 DEF Acts, Works

LEMMA NextEarned ==
  ASSUME RemovalInv, Earned, [Next]_vars PROVE Earned'
<1>1. ~There(NoFile)
  BY DEF There
<1>2. ASSUME UNCHANGED <<record, recClaim, installed, file>> PROVE Earned'
  BY <1>2 DEF Earned, AuthorityIsEarned, There
<1>3. CASE World /\ UNCHANGED <<acts, loads>>
  BY <1>2, <1>3 DEF World, StrangerPuts, StrangerTakes, Capture, Author, loads, ghosts
<1>4. ASSUME NEW a \in Actors, Acts(a) /\ UNCHANGED loads PROVE Earned'
  BY <1>2, <1>4, RecordsExchanged, OtherActsLeaveRecords DEF loads
<1>5. ASSUME NEW d \in Installers, Loads(d) PROVE Earned'
  <2>1. CASE PublishMedia(d)
    BY <1>1, <2>1 DEF PublishMedia, Leaving, Turn, Untouched, Earned, AuthorityIsEarned, There, New
  <2>2. CASE Choose(d) \/ Confirm(d) \/ SweepLooks(d) \/ Dies(d)
    BY <1>1, <2>2 DEF Choose, Confirm, SweepLooks, Dies, Leaving, Turn, Untouched, Earned,
       AuthorityIsEarned, There
  <2>3. CASE PublishRecord(d) \/ SweepRetires(d)
    BY <1>1, <2>3 DEF PublishRecord, SweepRetires, Leaving, Turn, Untouched, Earned,
       AuthorityIsEarned, There
  <2> QED
    BY <1>5, <2>1, <2>2, <2>3 DEF Loads, Installs
<1>6. CASE UNCHANGED vars
  BY <1>2, <1>6 DEF vars, disk, ghosts, loads
<1> QED
  BY <1>3, <1>4, <1>5, <1>6 DEF Next

\* No record is ever deletion authority over a file the application did not download,
\* however downloads, sweeps, removals and other programs meet at the name (install,
\* _withdraw_download_authority, _put_back).
THEOREM RecordsAreEarned == Spec => []AuthorityIsEarned
<1>1. Earned => AuthorityIsEarned
  BY DEF Earned
<1> QED
  BY <1>1, InitRemovalInv, NextKeeps, InitEarned, NextEarned, PTL DEF Spec

-----------------------------------------------------------------------------
(* Who touches what, and who goes where: a step of a removal taken apart.  *)

\* Each variable of the disk is changed by the steps named here and by no other of a
\* removal.
LEMMA WhoTouches ==
  ASSUME NEW a \in Actors, Acts(a)
  PROVE  /\ Rename(a) \/ Verify(a) \/ Restore(a) \/ UNCHANGED <<media, trash>>
         /\ Withdraw(a) \/ PutBack(a) \/ Consume(a) \/ Settle(a) \/ UNCHANGED <<record, recClaim>>
         /\ \/ Rename(a) \/ Verify(a) \/ Restore(a) \/ Destroy(a) \/ Recover(a)
            \/ UNCHANGED claim
         /\ Destroy(a) \/ Recover(a) \/ UNCHANGED gone
         /\ Companions(a) \/ Drop(a) \/ UNCHANGED still
         /\ Clean(a) \/ UNCHANGED refs
         /\ Insert(a) \/ Cancel(a) \/ Mark(a) \/ Finish(a) \/ UNCHANGED journal
         /\ TakeLease(a) \/ UNCHANGED asked
         /\ UNCHANGED <<installed, nextGen>>
<1>1. CASE \/ \E trashed \in BOOLEAN : Begin(a, trashed)
           \/ Refused(a) \/ Validate(a) \/ Check(a) \/ Look(a) \/ Replay(a) \/ Probe(a)
           \/ Original(a) \/ Crash(a)
  <2> UNCHANGED <<media, record, still, claim, recClaim, trash, refs, journal, asked, gone,
                  installed, nextGen>>
    BY <1>1 DEF Begin, Refused, Validate, Check, Look, Replay, Probe, Original, Crash, disk,
       ghosts, Keeping
  <2> QED
    OBVIOUS
<1>2. CASE TakeLease(a)
  <2> UNCHANGED <<disk, gone, installed, nextGen>>
    BY <1>2 DEF TakeLease, Keeping
  <2> QED
    BY <1>2 DEF disk
<1>3. CASE Insert(a) \/ Cancel(a) \/ Mark(a)
  <2> UNCHANGED <<media, record, still, claim, recClaim, trash, refs, asked, gone, installed,
                  nextGen>>
    BY <1>3 DEF Insert, Cancel, Discard, Mark, Keeping
  <2> QED
    BY <1>3
<1>4. CASE Finish(a)
  <2> UNCHANGED <<media, record, still, claim, recClaim, trash, refs, asked, gone, installed,
                  nextGen>>
    BY <1>4 DEF Finish, Discard, Keeping, disk
  <2> QED
    BY <1>4
<1>5. CASE Rename(a) \/ Verify(a) \/ Restore(a)
  <2> UNCHANGED <<record, still, recClaim, refs, journal, asked, gone, installed, nextGen>>
    BY <1>5 DEF Rename, Verify, Restore, Keeping
  <2> QED
    BY <1>5
<1>6. CASE Destroy(a) \/ Recover(a)
  <2> UNCHANGED <<media, record, still, recClaim, trash, refs, journal, asked, installed,
                  nextGen>>
    BY <1>6 DEF Destroy, Recover, Keeping
  <2> QED
    BY <1>6
<1>7. CASE Withdraw(a) \/ PutBack(a) \/ Consume(a) \/ Settle(a)
  <2> UNCHANGED <<media, still, claim, trash, refs, journal, asked, gone, installed, nextGen>>
    BY <1>7 DEF Withdraw, PutBack, Consume, Settle, Keeping
  <2> QED
    BY <1>7
<1>8. CASE Companions(a) \/ Drop(a)
  <2> UNCHANGED <<media, record, claim, recClaim, trash, refs, journal, asked, gone, installed,
                  nextGen>>
    BY <1>8 DEF Companions, Drop, Keeping
  <2> QED
    BY <1>8
<1>9. CASE Clean(a)
  <2> UNCHANGED <<media, record, still, claim, recClaim, trash, journal, asked, gone, installed,
                  nextGen>>
    BY <1>9 DEF Clean, Keeping
  <2> QED
    BY <1>9
<1> QED
  BY <1>1, <1>2, <1>3, <1>4, <1>5, <1>6, <1>7, <1>8, <1>9 DEF Acts, Works, Live, Ending, Replaying

\* How a removal gets to each of its steps.
LEMMA WhoArrives ==
  ASSUME RemovalInv, NEW a \in Actors, Acts(a)
  PROVE  /\ pc'[a] = "idle" => Over(a)
         /\ pc'[a] = "leased" => TakeLease(a)
         /\ pc'[a] = "prepared" => Insert(a)
         /\ pc'[a] = "withdraw" => Validate(a)
         /\ pc'[a] = "check" => Withdraw(a)
         /\ pc'[a] = "rename" => Check(a)
         /\ pc'[a] = "verify" => Rename(a)
         /\ pc'[a] = "destroy" => Verify(a)
         /\ pc'[a] = "restore" => Destroy(a)
         /\ pc'[a] = "putback" => \/ Check(a) \/ Rename(a) \/ Verify(a) \/ Restore(a)
                                  \/ Original(a)
         /\ pc'[a] = "cancel" => Validate(a) \/ Withdraw(a) \/ PutBack(a)
         /\ pc'[a] = "consume" => Verify(a) \/ Destroy(a)
         /\ pc'[a] = "companions" => Consume(a)
         /\ pc'[a] = "mark" => Companions(a) \/ Recover(a) \/ Original(a) \/ Replay(a)
         /\ pc'[a] = "settle" => Mark(a)
         /\ pc'[a] = "clean" => Settle(a) \/ Clean(a)
         /\ pc'[a] = "drop" => Look(a)
         /\ pc'[a] = "finish" => Look(a) \/ Drop(a)
         /\ pc'[a] = "original" => Recover(a)
         /\ pc'[a] = "recover" => Probe(a)
         /\ pc'[a] = "probe" => Replay(a)
         /\ pc'[a] = "locked" => \E trashed \in BOOLEAN : Begin(a, trashed)
<1> a \in DOMAIN pc
  BY DEF RemovalInv, Shaped
<1>1. CASE \E trashed \in BOOLEAN : Begin(a, trashed)
  BY <1>1 DEF Begin, GoTo
<1>2. CASE TakeLease(a) \/ Refused(a) \/ Insert(a) \/ Validate(a)
  BY <1>2 DEF TakeLease, Refused, Insert, Validate, GoTo, Over
<1>3. CASE Withdraw(a)
  BY <1>3 DEF Withdraw, GoTo, Retain, Over
<1>4. CASE Check(a) \/ Rename(a) \/ Destroy(a)
  BY <1>4 DEF Check, Rename, Destroy, GoTo
<1>5. CASE Verify(a)
  BY <1>5 DEF Verify, GoTo, Retain, Over
<1>6. CASE Restore(a) \/ PutBack(a)
  BY <1>6 DEF Restore, PutBack, GoTo, Retain, Over
<1>7. CASE Cancel(a) \/ Consume(a) \/ Companions(a)
  BY <1>7 DEF Cancel, Discard, Consume, Companions, GoTo, Over
<1>8. CASE Mark(a) \/ Settle(a)
  BY <1>8 DEF Mark, Settle, GoTo, Over
<1>9. CASE Clean(a) \/ Look(a) \/ Drop(a) \/ Finish(a)
  BY <1>9 DEF Clean, Look, Drop, Finish, Discard, At, GoTo, Over
<1>10. CASE Replay(a) \/ Probe(a) \/ Original(a) \/ Crash(a)
  BY <1>10 DEF Replay, Probe, Original, Crash, GoTo, Over
<1>11. CASE Recover(a)
  BY <1>11 DEF Recover, GoTo, Over
<1> QED
  BY <1>1, <1>2, <1>3, <1>4, <1>5, <1>6, <1>7, <1>8, <1>9, <1>10, <1>11
  DEF Acts, Works, Live, Ending, Replaying

\* The step of one removal leaves the others where they are, and its own removal its
\* token and what it was prepared for.
LEMMA OthersStay ==
  ASSUME RemovalInv, NEW a \in Actors, Acts(a)
  PROVE  /\ \A b \in Actors : b # a => pc'[b] = pc[b] /\ work'[b] = work[b]
         /\ \/ (\E trashed \in BOOLEAN : Begin(a, trashed)) \/ TakeLease(a) \/ Replay(a)
            \/ Move(a)
<1>1. CASE (\E trashed \in BOOLEAN : Begin(a, trashed)) \/ TakeLease(a) \/ Replay(a)
  BY <1>1 DEF Begin, TakeLease, Replay, GoTo, RemovalInv, Shaped
<1>2. CASE Move(a)
  BY <1>2 DEF Move
<1> QED
  BY <1>1, <1>2, RefusedMoves, InsertMoves, ValidateMoves, WithdrawMoves, CheckMoves, RenameMoves,
     VerifyMoves, DestroyMoves, RestoreMoves, PutBackMoves, CancelMoves, ConsumeMoves,
     CompanionsMoves, MarkMoves, SettleMoves, CleanMoves, LookMoves, DropMoves, FinishMoves,
     ProbeMoves, RecoverMoves, OriginalMoves, CrashMoves
  DEF Acts, Works, Live, Ending, Replaying

-----------------------------------------------------------------------------
(* The types.                                                              *)

\* A file that has been at the path, or none.
Existing   == [gen : 1..(nextGen - 1), ctime : Nat]
FileOrNone == Existing \cup {NoFile}

Job == [token : 0..MaxTokens, fp : FileOrNone, proof : 0..MaxGens, trashed : BOOLEAN,
        moved : FileOrNone, pin : 0..MaxGens, todo : Seq(STRING), failed : BOOLEAN,
        proven : BOOLEAN]

\* The steps of a removal that has moved a file from the path and may move it back.
Taken == {"verify", "destroy", "restore"}

Typed ==
  /\ nextGen \in 2..(MaxGens + 1) /\ faults \in 0..MaxFaults
  /\ media \in FileOrNone /\ record \in FileOrNone
  /\ claim \in [Tokens -> FileOrNone] /\ recClaim \in [Tokens -> FileOrNone]
  /\ trash \subseteq Existing /\ gone \subseteq Existing
  /\ still \in 0..MaxGens /\ refs \in [Stores -> 0..MaxGens]
  /\ journal \in [token : 0..MaxTokens, fp : FileOrNone, committed : BOOLEAN,
                  proof : 0..MaxGens]
  /\ lease \subseteq Actors /\ pathLock \subseteq Actors \cup Installers
  /\ asked \subseteq 1..(nextGen - 1) /\ installed \subseteq 1..(nextGen - 1)
  /\ work \in [Actors -> Job]
  /\ \A a \in Actors : /\ pc[a] = "idle" => work[a] = Idle
                       /\ pc[a] \in Taken => work[a].moved \in Existing
  /\ dpc \in [Installers -> {"idle", "chosen", "published", "confirmed", "sweep"}]
  /\ file \in [Installers -> FileOrNone]

\* What may become of a job record.
LEMMA JobUpdates ==
  ASSUME NEW j \in Job
  PROVE  /\ j.token \in 0..MaxTokens /\ j.fp \in FileOrNone /\ j.moved \in FileOrNone
         /\ j.proof \in 0..MaxGens /\ j.todo \in Seq(STRING)
         /\ j.trashed \in BOOLEAN /\ j.failed \in BOOLEAN
         /\ \A f \in FileOrNone : [j EXCEPT !.moved = f] \in Job
         /\ \A g \in 0..MaxGens : [j EXCEPT !.pin = g] \in Job
         /\ \A t \in 0..MaxTokens, f \in FileOrNone, g \in 0..MaxGens :
              [j EXCEPT !.token = t, !.fp = f, !.proof = g] \in Job
         /\ \A s \in Seq(STRING) : /\ [j EXCEPT !.todo = s] \in Job
                                   /\ [j EXCEPT !.todo = s, !.failed = TRUE] \in Job
         /\ \A v \in BOOLEAN : [j EXCEPT !.failed = v] \in Job
         /\ \A v \in BOOLEAN : [j EXCEPT !.trashed = v] \in Job
         /\ [j EXCEPT !.proven = TRUE] \in Job
<1>1. /\ j.token \in 0..MaxTokens /\ j.fp \in FileOrNone /\ j.moved \in FileOrNone
      /\ j.proof \in 0..MaxGens /\ j.todo \in Seq(STRING)
      /\ j.trashed \in BOOLEAN /\ j.failed \in BOOLEAN
  BY DEF Job
<1>2. \A f \in FileOrNone : [j EXCEPT !.moved = f] \in Job
  BY DEF Job
<1>3. \A g \in 0..MaxGens : [j EXCEPT !.pin = g] \in Job
  BY DEF Job
<1>4. \A t \in 0..MaxTokens, f \in FileOrNone, g \in 0..MaxGens :
             [j EXCEPT !.token = t, !.fp = f, !.proof = g] \in Job
  BY DEF Job
<1>5. \A s \in Seq(STRING) : [j EXCEPT !.todo = s] \in Job
  BY DEF Job
<1>6. \A s \in Seq(STRING) : [j EXCEPT !.todo = s, !.failed = TRUE] \in Job
  BY DEF Job
<1>7. \A v \in BOOLEAN : [j EXCEPT !.failed = v] \in Job
  BY DEF Job
<1>8. \A v \in BOOLEAN : [j EXCEPT !.trashed = v] \in Job
  BY DEF Job
<1>9. [j EXCEPT !.proven = TRUE] \in Job
  BY DEF Job
<1> QED
  BY <1>1, <1>2, <1>3, <1>4, <1>5, <1>6, <1>7, <1>8, <1>9

LEMMA FileFacts ==
  ASSUME Typed
  PROVE  /\ NoFile \in FileOrNone /\ Existing \subseteq FileOrNone /\ ~There(NoFile)
         /\ NoFile.gen = 0 /\ NoFile \notin Existing
         /\ \A f \in FileOrNone : /\ f.gen \in 0..(nextGen - 1)
                                  /\ There(f) => f \in Existing
                                  /\ f.gen # 0 => f \in Existing
         /\ \A f \in Existing : /\ f.gen \in 1..(nextGen - 1) /\ There(f)
                                /\ Moved(f) \in Existing /\ Moved(f).gen = f.gen
<1>1. nextGen \in Nat /\ nextGen > 1
  BY LibraryAssumption DEF Typed
<1> QED
  BY <1>1 DEF FileOrNone, Existing, NoFile, There, Moved

LEMMA IdleTyped == Idle \in Job /\ NoIntent.fp = NoFile
  BY LibraryAssumption DEF Idle, NoIntent, Job, FileOrNone


\* What a removal works on stays typed.
LEMMA WorkTypes ==
  ASSUME RemovalInv, Typed, NEW a \in Actors, Acts(a) PROVE work' \in [Actors -> Job]
<1>1. work \in [Actors -> Job] /\ work[a] \in Job
  BY DEF Typed
<1>2. \A x \in Job : [work EXCEPT ![a] = x] \in [Actors -> Job]
  BY <1>1
<1>3. CASE \E x \in Job : work' = [work EXCEPT ![a] = x]
  BY <1>2, <1>3
<1>4. media \in FileOrNone /\ still \in 0..MaxGens /\ nextToken \in 0..(MaxTokens + 1)
  BY LibraryAssumption DEF Typed, RemovalInv, Shaped
<1>5. CASE Over(a)
  BY <1>3, <1>5, IdleTyped DEF Over
<1>6. CASE UNCHANGED work
  BY <1>1, <1>6
<1>7. ASSUME NEW trashed \in BOOLEAN, Begin(a, trashed) PROVE work' \in [Actors -> Job]
  BY <1>3, <1>7, JobUpdates, IdleTyped DEF Begin
<1>8. CASE TakeLease(a)
  <2>1. nextToken \in 0..MaxTokens
    BY <1>4, <1>8 DEF TakeLease, At, RemovalInv, Shaped, PathHeld
  <2> QED
    BY <1>1, <1>3, <1>4, <1>8, <2>1, JobUpdates DEF TakeLease
<1>9. CASE Validate(a)
  <2>1. UNCHANGED work \/ work' = [work EXCEPT ![a].pin = still]
    BY <1>9 DEF Validate
  <2> QED
    BY <1>1, <1>3, <1>4, <1>6, <2>1, JobUpdates
<1>10. CASE Rename(a)
  <2>1. UNCHANGED work \/ work' = [work EXCEPT ![a].moved = media]
    BY <1>10 DEF Rename
  <2> QED
    BY <1>1, <1>3, <1>4, <1>6, <2>1, JobUpdates
<1>11. CASE Settle(a)
  <2>1. \/ work' = [work EXCEPT ![a].todo = Order]
        \/ work' = [work EXCEPT ![a] = [@ EXCEPT !.todo = Order, !.failed = TRUE]]
    BY <1>11 DEF Settle
  <2> QED
    BY <1>1, <1>3, <2>1, JobUpdates, LibraryAssumption
<1>12. CASE Clean(a)
  <2>1. \/ work' = [work EXCEPT ![a].todo = Tail(@)]
        \/ work' = [work EXCEPT ![a] = [@ EXCEPT !.todo = Tail(work[a].todo), !.failed = TRUE]]
    BY <1>12 DEF Clean
  <2>2. Tail(work[a].todo) \in Seq(STRING)
    <3>1. work[a].todo \in Seq(STRING) /\ work[a].todo # <<>>
      BY <1>1, <1>12, JobUpdates DEF Clean
    <3> QED
      BY <3>1, HeadTailProperties
  <2> QED
    BY <1>1, <1>3, <2>1, <2>2, JobUpdates
<1>13. CASE Look(a)
  <2>1. \/ UNCHANGED work
        \/ work' = [work EXCEPT ![a].failed = @ \/ (still # 0 /\ still = work[a].proof)]
    BY <1>13 DEF Look
  <2> DEFINE v == work[a].failed \/ (still # 0 /\ still = work[a].proof)
  <2>2. v \in BOOLEAN
    OBVIOUS
  <2>3. UNCHANGED work \/ work' = [work EXCEPT ![a].failed = v]
    BY <2>1
  <2> HIDE DEF v
  <2> QED
    BY <1>1, <1>3, <1>6, <2>2, <2>3, JobUpdates
<1>14. CASE Drop(a)
  <2>1. UNCHANGED work \/ work' = [work EXCEPT ![a].failed = TRUE]
    BY <1>14 DEF Drop
  <2> QED
    BY <1>1, <1>3, <1>6, <2>1, JobUpdates
<1>15. CASE Replay(a)
  <2>1. journal.token \in 0..MaxTokens /\ journal.fp \in FileOrNone /\ journal.proof \in 0..MaxGens
    BY DEF Typed
  <2> QED
    BY <1>3, <1>15, <2>1, JobUpdates, IdleTyped DEF Replay
<1>16. CASE Recover(a)
  <2>1. UNCHANGED work \/ work' = [work EXCEPT ![a].proven = TRUE] \/ Over(a)
    BY <1>16 DEF Recover
  <2> QED
    BY <1>1, <1>3, <1>5, <1>6, <2>1, JobUpdates
<1>17. CASE Refused(a) \/ Insert(a) \/ Withdraw(a) \/ Check(a) \/ Verify(a) \/ Destroy(a)
  <2>1. UNCHANGED work \/ Over(a)
    BY <1>17 DEF Refused, Insert, Withdraw, Check, Verify, Destroy, Retain, disk
  <2> QED
    BY <1>5, <1>6, <2>1
<1>18. CASE Restore(a) \/ PutBack(a) \/ Cancel(a) \/ Consume(a) \/ Companions(a) \/ Mark(a)
  <2>1. UNCHANGED work \/ Over(a)
    BY <1>18 DEF Restore, PutBack, Cancel, Discard, Consume, Companions, Mark, Retain
  <2> QED
    BY <1>5, <1>6, <2>1
<1>19. CASE Finish(a) \/ Probe(a) \/ Original(a) \/ Crash(a)
  <2>1. UNCHANGED work \/ Over(a)
    BY <1>19 DEF Finish, Discard, Probe, Original, Crash
  <2> QED
    BY <1>5, <1>6, <2>1
<1> QED
  BY <1>7, <1>8, <1>9, <1>10, <1>11, <1>12, <1>13, <1>14, <1>15, <1>16, <1>17, <1>18, <1>19
  DEF Acts, Works, Live, Ending, Replaying

\* What a removal step does to a file keeps files files.
LEMMA ActsTyped ==
  ASSUME RemovalInv, Typed, NEW a \in Actors, Acts(a), UNCHANGED loads PROVE Typed'
<1>1. UNCHANGED <<nextGen, installed, dpc, file>>
  BY WhoTouches DEF loads
<1>2. Existing' = Existing /\ FileOrNone' = FileOrNone /\ Job' = Job
  BY <1>1 DEF Existing, FileOrNone, Job
<1>3. work[a] \in Job /\ journal.fp \in FileOrNone
  BY DEF Typed
<1>4. faults' \in 0..MaxFaults
  <2>1. faults' = faults \/ Fails
    BY OthersStay DEF Acts, Works, Live, Ending, Replaying, Begin, TakeLease, Refused, Insert,
       Validate, Withdraw, Check, Rename, Verify, Destroy, Restore, PutBack, Cancel, Discard,
       Consume, Companions, Mark, Settle, Clean, Look, Drop, Finish, Replay, Probe, Recover,
       Original, Crash
  <2> QED
    BY <2>1, LibraryAssumption DEF Typed, Fails
<1>5. media' \in FileOrNone /\ trash' \subseteq Existing
  <2>1. CASE UNCHANGED <<media, trash>>
    BY <2>1 DEF Typed
  <2>2. CASE Rename(a)
    BY <2>2, FileFacts DEF Rename, Typed
  <2>3. CASE Verify(a) \/ Restore(a)
    <3>1. work[a].moved \in Existing
      BY <2>3 DEF Verify, Restore, At, Typed, Taken
    <3>2. UNCHANGED <<media, trash>> \/ MoveBack(a)
      BY <2>3 DEF Verify, Restore
    <3> QED
      BY <2>1, <3>1, <3>2, FileFacts DEF MoveBack, Typed
  <2> QED
    BY <2>1, <2>2, <2>3, WhoTouches
<1>6. record' \in FileOrNone /\ recClaim' \in [Tokens -> FileOrNone]
  <2>1. CASE UNCHANGED <<record, recClaim>>
    BY <2>1 DEF Typed
  <2>2. CASE Withdraw(a) \/ PutBack(a) \/ Consume(a) \/ Settle(a)
    <3>1. work[a].token \in Tokens
      BY <2>2, TokenOfMine DEF Withdraw, PutBack, Consume, Settle, At, Busy, Steps
    <3> QED
      BY <2>2, <3>1, FileFacts DEF Withdraw, PutBack, Consume, Settle, Typed
  <2> QED
    BY <2>1, <2>2, WhoTouches
<1>7. claim' \in [Tokens -> FileOrNone]
  <2>1. CASE UNCHANGED claim
    BY <2>1 DEF Typed
  <2>2. CASE Rename(a) \/ Verify(a) \/ Restore(a) \/ Destroy(a) \/ Recover(a)
    <3>1. work[a].token \in Tokens
      BY <2>2, TokenOfMine DEF Rename, Verify, Restore, Destroy, Recover, At, Busy, Steps
    <3> QED
      BY <2>2, <3>1, FileFacts DEF Rename, Verify, Restore, MoveBack, Destroy, Recover, Typed
  <2> QED
    BY <2>1, <2>2, WhoTouches
<1>8. gone' \subseteq Existing
  <2>1. CASE UNCHANGED gone
    BY <2>1 DEF Typed
  <2>2. CASE Destroy(a) \/ Recover(a)
    <3>1. work[a].token \in Tokens /\ work[a].fp.gen \in asked
      BY <2>2, TokenOfMine DEF Destroy, Recover, At, Busy, Steps, RemovalInv, Given
    <3>2. UNCHANGED gone \/ (claim[work[a].token].gen = work[a].fp.gen
                              /\ gone' = gone \cup {claim[work[a].token]})
      BY <2>2 DEF Destroy, Recover, Prepared, At, RemovalInv, ClaimKnown
    <3>3. claim[work[a].token] \in FileOrNone /\ work[a].fp.gen # 0
      BY <3>1, LibraryAssumption DEF Typed
    <3> QED
      BY <2>1, <3>2, <3>3, FileFacts DEF Typed
  <2> QED
    BY <2>1, <2>2, WhoTouches
<1>9. still' \in 0..MaxGens /\ refs' \in [Stores -> 0..MaxGens]
  <2>1. 0 \in 0..MaxGens
    BY LibraryAssumption
  <2>2. UNCHANGED still \/ still' = 0
    BY WhoTouches DEF Companions, Drop
  <2>3. UNCHANGED refs \/ refs' = [refs EXCEPT ![Head(work[a].todo)] = 0]
    BY WhoTouches DEF Clean
  <2> QED
    BY <2>1, <2>2, <2>3 DEF Typed
<1>10. journal' \in [token : 0..MaxTokens, fp : FileOrNone, committed : BOOLEAN,
                     proof : 0..MaxGens]
  <2>1. CASE UNCHANGED journal
    BY <2>1 DEF Typed
  <2>2. CASE journal' = NoIntent
    BY <2>2, FileFacts, LibraryAssumption DEF NoIntent
  <2>3. CASE Insert(a)
    <3>1. /\ work[a].token \in 0..MaxTokens /\ work[a].fp \in FileOrNone
          /\ work[a].proof \in 0..MaxGens
      BY <1>3, JobUpdates
    <3>2. \/ UNCHANGED journal
          \/ journal' = [token |-> work[a].token, fp |-> work[a].fp, committed |-> FALSE,
                         proof |-> work[a].proof]
      BY <2>3 DEF Insert
    <3>3. [token |-> work[a].token, fp |-> work[a].fp, committed |-> FALSE,
           proof |-> work[a].proof]
            \in [token : 0..MaxTokens, fp : FileOrNone, committed : BOOLEAN, proof : 0..MaxGens]
      BY <3>1
    <3> QED
      BY <2>1, <3>2, <3>3
  <2>4. CASE Mark(a)
    BY <2>1, <2>4 DEF Mark, Typed
  <2> QED
    BY <2>1, <2>2, <2>3, <2>4, WhoTouches DEF Cancel, Finish, Discard, disk
<1>11. lease' \subseteq Actors /\ pathLock' \subseteq Actors \cup Installers
  BY DEF Typed, Acts, Works, Live, Ending, Replaying, Begin, TakeLease, Refused, Insert,
     Validate, Withdraw, Check, Rename, Verify, Destroy, Restore, PutBack, Cancel, Discard,
     Consume, Companions, Mark, Settle, Clean, Look, Drop, Finish, Replay, Probe, Recover,
     Original, Crash, Retain, Over, locks
<1>12. asked' \subseteq 1..(nextGen - 1)
  <2>1. UNCHANGED asked \/ (There(media) /\ asked' = asked \cup {media.gen})
    BY WhoTouches DEF TakeLease
  <2>2. There(media) => media.gen \in 1..(nextGen - 1)
    BY FileFacts DEF Typed
  <2> QED
    BY <2>1, <2>2 DEF Typed
<1>13. ASSUME NEW b \in Actors
       PROVE  /\ pc'[b] = "idle" => work'[b] = Idle
              /\ pc'[b] \in Taken => work'[b].moved \in Existing
  <2>1. CASE b # a
    BY <2>1, OthersStay DEF Typed
  <2>2. pc'[a] = "idle" => work'[a] = Idle
    BY WhoArrives DEF Over, RemovalInv, Shaped
  <2>3. pc'[a] \in Taken => work'[a].moved \in Existing
    <3>1. CASE pc'[a] = "verify"
      <4>1. There(media) /\ work' = [work EXCEPT ![a].moved = media]
        BY <3>1, WhoArrives DEF Rename, GoTo, RemovalInv, Shaped
      <4>2. work'[a].moved = media
        BY <1>3, <4>1 DEF Typed, Job
      <4> QED
        BY <4>1, <4>2, FileFacts DEF Typed
    <3>2. CASE pc'[a] = "destroy"
      <4>1. pc[a] = "verify" /\ UNCHANGED work
        BY <3>2, WhoArrives DEF Verify, Retain, Over, GoTo, At, RemovalInv, Shaped
      <4> QED
        BY <4>1 DEF Typed, Taken
    <3>3. CASE pc'[a] = "restore"
      <4>1. pc[a] = "destroy" /\ UNCHANGED work
        BY <3>3, WhoArrives DEF Destroy, At
      <4> QED
        BY <4>1 DEF Typed, Taken
    <3> QED
      BY <3>1, <3>2, <3>3 DEF Taken
  <2> QED
    BY <2>1, <2>2, <2>3
<1> QED
  BY <1>1, <1>2, <1>4, <1>5, <1>6, <1>7, <1>8, <1>9, <1>10, <1>11, <1>12, <1>13, WorkTypes
  DEF Typed

\* A new file is a file from then on, and what was one stays one.
LEMMA MoreFiles ==
  ASSUME Typed, nextGen' = nextGen + 1
  PROVE  /\ Existing \subseteq Existing' /\ FileOrNone \subseteq FileOrNone' /\ Job \subseteq Job'
         /\ New(nextGen) \in Existing' /\ New(nextGen) \in FileOrNone'
         /\ 1..(nextGen - 1) \subseteq 1..(nextGen' - 1) /\ nextGen \in 1..(nextGen' - 1)
<1>1. nextGen \in Nat /\ nextGen > 1
  BY LibraryAssumption DEF Typed
<1>2. Existing \subseteq Existing' /\ FileOrNone \subseteq FileOrNone'
  BY <1>1 DEF Existing, FileOrNone
<1>3. Job \subseteq Job'
  BY <1>2 DEF Job
<1> QED
  BY <1>1, <1>2, <1>3 DEF Existing, FileOrNone, New

LEMMA InitTyped == Init => Typed
<1> SUFFICES ASSUME Init PROVE Typed
  OBVIOUS
<1>1. nextGen = 2 /\ MaxGens \in Nat /\ MaxGens > 0 /\ MaxTokens \in Nat /\ MaxFaults \in Nat
  BY LibraryAssumption DEF Init, InitFiles
<1>2. NoFile \in FileOrNone /\ New(1) \in FileOrNone /\ Idle \in Job
  BY <1>1, LibraryAssumption DEF FileOrNone, Existing, New, Idle, Job
<1>3. NoIntent \in [token : 0..MaxTokens, fp : FileOrNone, committed : BOOLEAN,
                    proof : 0..MaxGens]
  BY <1>1, <1>2 DEF NoIntent
<1>4. work \in [Actors -> Job] /\ \A a \in Actors : pc[a] = "idle" /\ work[a] = Idle
  BY <1>2 DEF Init, InitRemoval
<1> QED
  BY <1>1, <1>2, <1>3, <1>4 DEF Init, InitFiles, InitDownload, Typed, Taken

\* Everybody else's steps: a new file is a file from then on.
LEMMA LoadsTyped ==
  ASSUME Typed, NEW d \in Installers, Loads(d), UNCHANGED acts PROVE Typed'
<1>1. UNCHANGED <<still, claim, recClaim, trash, refs, journal, lease, asked, gone, pc, work>>
  BY DEF Loads, Installs, Choose, PublishMedia, Confirm, PublishRecord, SweepLooks,
     SweepRetires, Dies, Untouched, acts
<1>2. faults' \in 0..MaxFaults
  BY LibraryAssumption DEF Loads, Installs, Choose, PublishMedia, Confirm, PublishRecord,
     SweepLooks, SweepRetires, Dies, Breaks, Typed
<1>3. pathLock' \subseteq Actors \cup Installers
  BY DEF Loads, Installs, Choose, PublishMedia, Confirm, PublishRecord, SweepLooks,
     SweepRetires, Dies, Leaving, Typed
<1>4. dpc' \in [Installers -> {"idle", "chosen", "published", "confirmed", "sweep"}]
  BY DEF Loads, Installs, Choose, PublishMedia, Confirm, PublishRecord, SweepLooks,
     SweepRetires, Dies, Leaving, Turn, Typed
<1>5. CASE UNCHANGED <<nextGen, installed, media>>
  <2>1. Existing' = Existing /\ FileOrNone' = FileOrNone /\ Job' = Job
    BY <1>5 DEF Existing, FileOrNone, Job
  <2>2. file' \in [Installers -> FileOrNone] /\ record' \in FileOrNone
    <3>1. nextGen' # nextGen + 1
      BY <1>5, LibraryAssumption DEF Typed
    <3>2. /\ \/ UNCHANGED file \/ file' = [file EXCEPT ![d] = NoFile]
             \/ file' = [file EXCEPT ![d] = record]
          /\ UNCHANGED record \/ record' = file[d] \/ record' = NoFile
      BY <3>1 DEF Loads, Installs, Choose, PublishMedia, Confirm, PublishRecord, SweepLooks,
         SweepRetires, Dies, Leaving
    <3> QED
      BY <3>2, FileFacts DEF Typed
  <2> QED
    BY <1>1, <1>2, <1>3, <1>4, <1>5, <2>1, <2>2 DEF Typed
<1>6. CASE ~UNCHANGED <<nextGen, installed, media>>
  <2>1. /\ nextGen <= MaxGens /\ nextGen' = nextGen + 1 /\ UNCHANGED record
        /\ media' = New(nextGen) /\ installed' = installed \cup {nextGen}
        /\ file' = [file EXCEPT ![d] = New(nextGen)]
    <3>1. PublishMedia(d)
      BY <1>6 DEF Loads, Installs, Choose, Confirm, PublishRecord, SweepLooks, SweepRetires, Dies
    <3> QED
      BY <1>6, <3>1 DEF PublishMedia, Leaving
  <2>2. nextGen \in Nat /\ nextGen > 1 /\ MaxGens \in Nat
    BY LibraryAssumption DEF Typed
  <2> QED
    BY <1>1, <1>2, <1>3, <1>4, <2>1, <2>2, MoreFiles DEF Typed
<1> QED
  BY <1>5, <1>6

LEMMA NextTyped ==
  ASSUME RemovalInv, Typed, [Next]_vars PROVE Typed'
<1>1. ASSUME UNCHANGED <<nextGen, media, record, claim, recClaim, trash, gone, journal, locks,
                         asked, installed, pc, work, dpc, file, faults>>,
             still' \in 0..MaxGens, refs' \in [Stores -> 0..MaxGens]
      PROVE  Typed'
  BY <1>1 DEF Typed, Existing, FileOrNone, Job, locks
<1>2. CASE World /\ UNCHANGED <<acts, loads>>
  <2>0. nextGen \in Nat /\ nextGen > 1 /\ MaxGens \in Nat
    BY LibraryAssumption DEF Typed
  <2>1. media.gen \in 0..MaxGens
    BY <2>0, FileFacts DEF Typed
  <2>2. CASE Capture
    BY <1>1, <1>2, <2>1, <2>2 DEF Capture, acts, loads, ghosts, Typed
  <2>3. CASE Author
    BY <1>1, <1>2, <2>1, <2>3 DEF Author, acts, loads, ghosts, Typed
  <2>4. CASE StrangerTakes
    BY <1>2, <2>4, FileFacts
    DEF StrangerTakes, acts, loads, ghosts, locks, Typed, Existing, FileOrNone, Job
  <2>5. CASE StrangerPuts
    BY <1>2, <2>0, <2>5, MoreFiles DEF StrangerPuts, acts, loads, ghosts, locks, Typed
  <2> QED
    BY <1>2, <2>2, <2>3, <2>4, <2>5 DEF World
<1>3. ASSUME NEW a \in Actors, Acts(a) /\ UNCHANGED loads PROVE Typed'
  BY <1>3, ActsTyped
<1>4. ASSUME NEW d \in Installers, Loads(d) /\ UNCHANGED acts PROVE Typed'
  BY <1>4, LoadsTyped
<1>5. CASE UNCHANGED vars
  BY <1>1, <1>5 DEF vars, disk, ghosts, acts, loads, Typed
<1> QED
  BY <1>2, <1>3, <1>4, <1>5 DEF Next

\* The shapes the code gives the disk, the locks and the work in hand are kept: in
\* particular a token is never reused, a file never gets a generation that is not its own,
\* and whoever is idle holds on to nothing.
THEOREM LifeTypes == Spec => []TypeOK
<1>1. RemovalInv /\ Typed => TypeOK
  <2> SUFFICES ASSUME RemovalInv, Typed PROVE TypeOK
    OBVIOUS
  <2>1. nextGen \in Nat /\ nextGen <= MaxGens + 1 /\ MaxGens \in Nat /\ MaxTokens \in Nat
    BY LibraryAssumption DEF Typed
  <2>2. FileOrNone \subseteq File /\ Existing \subseteq File /\ NoFile \in File
    BY <2>1 DEF FileOrNone, Existing, File, NoFile
  <2>3. FilesTypeOK
    BY <2>1, <2>2 DEF Typed, FilesTypeOK
  <2>4. DOMAIN Idle = Fields
    BY Records
  <2>5. RemovalTypeOK
    BY <2>2, <2>3, <2>4, JobUpdates DEF RemovalTypeOK, RemovalInv, Shaped, Typed
  <2>6. DownloadTypeOK
    BY <2>2 DEF Typed, DownloadTypeOK
  <2> QED
    BY <2>5, <2>6 DEF TypeOK
<1> QED
  BY <1>1, InitRemovalInv, NextKeeps, InitTyped, NextTyped, PTL DEF Spec

-----------------------------------------------------------------------------
(* The path's locks.                                                       *)

\* The steps at which a removal, or a replay at its last one, has the path's locks.
Locked == Held \cup {"locked", "consume", "companions", "drop"}

HoldsPath(a) == pc[a] \in Locked => pathLock = {a}
Installing(d) == dpc[d] \in {"published", "confirmed"} => pathLock = {d}

PathInv == (\A a \in Actors : HoldsPath(a)) /\ (\A d \in Installers : Installing(d))

LEMMA ActsKeepPath ==
  ASSUME RemovalInv, PathInv, NEW a \in Actors, Acts(a), UNCHANGED loads PROVE PathInv'
<1>1. pathLock' \in {pathLock, pathLock \ {a}} \/ pathLock = {}
  BY OthersStay DEF Begin, TakeLease, Replay, Move, locks
<1>2. ASSUME NEW b \in Actors, b # a PROVE HoldsPath(b)'
  BY <1>1, <1>2, OthersStay DEF PathInv, HoldsPath
<1>3. \A d \in Installers : Installing(d)'
  BY <1>1, LibraryAssumption DEF PathInv, Installing, loads
<1>4. HoldsPath(a)'
  <2> SUFFICES ASSUME pc'[a] \in Locked PROVE pathLock' = {a}
    BY DEF HoldsPath
  <2>1. CASE pc'[a] = "locked"
    BY <2>1, WhoArrives DEF Begin
  <2>2. CASE pc'[a] = "drop"
    BY <2>2, WhoArrives DEF Look, GoTo, RemovalInv, Shaped
  <2>3. CASE pc'[a] \in {"leased", "prepared", "withdraw", "check"}
    <3>1. pc[a] \in Locked
      BY <2>3, WhoArrives DEF TakeLease, Insert, Validate, Withdraw, At, Locked, Held
    <3>2. pathLock' = pathLock
      <4>1. TakeLease(a) \/ Insert(a) \/ Validate(a) \/ Withdraw(a)
        BY <2>3, WhoArrives
      <4>2. ~Over(a)
        BY <2>3 DEF Over, RemovalInv, Shaped
      <4> QED
        BY <4>1, <4>2 DEF TakeLease, Insert, Validate, Withdraw, Retain, locks
    <3> QED
      BY <3>1, <3>2 DEF PathInv, HoldsPath
  <2>4. CASE pc'[a] \in {"rename", "verify", "destroy", "restore", "consume", "companions"}
    <3>1. pc[a] \in Locked
      BY <2>4, WhoArrives DEF Check, Rename, Verify, Destroy, Consume, At, Locked, Held
    <3>2. pathLock' = pathLock
      BY <2>4, WhoArrives DEF Check, Rename, Verify, Destroy, Consume, Retain, Over, locks,
         RemovalInv, Shaped
    <3> QED
      BY <3>1, <3>2 DEF PathInv, HoldsPath
  <2> QED
    BY <2>1, <2>2, <2>3, <2>4 DEF Locked, Held
<1> QED
  BY <1>2, <1>3, <1>4 DEF PathInv

LEMMA LoadsKeepPath ==
  ASSUME PathInv, Typed, NEW d \in Installers, Loads(d), UNCHANGED acts PROVE PathInv'
<1>1. UNCHANGED pc /\ d \notin Actors
  BY LibraryAssumption DEF acts
<1>2. pathLock' \in {pathLock, pathLock \ {d}} \/ (pathLock = {} /\ PublishMedia(d))
  BY DEF Loads, Installs, Choose, PublishMedia, Confirm, PublishRecord, SweepLooks, SweepRetires,
     Dies, Leaving
<1>3. \A a \in Actors : HoldsPath(a)'
  BY <1>1, <1>2 DEF PathInv, HoldsPath
<1>4. ASSUME NEW e \in Installers, e # d PROVE Installing(e)'
  <2>1. dpc'[e] = dpc[e]
    BY <1>4 DEF Loads, Installs, Choose, PublishMedia, Confirm, PublishRecord, SweepLooks,
       SweepRetires, Dies, Leaving, Turn, Typed
  <2> QED
    BY <1>2, <1>4, <2>1 DEF PathInv, Installing
<1>5. Installing(d)'
  BY DEF Loads, Installs, Choose, PublishMedia, Confirm, PublishRecord, SweepLooks, SweepRetires,
     Dies, Leaving, Turn, In, Typed, PathInv, Installing
<1> QED
  BY <1>3, <1>4, <1>5 DEF PathInv

LEMMA InitPath == Init => PathInv
  BY DEF Init, InitFiles, InitRemoval, InitDownload, PathInv, HoldsPath, Installing, Locked, Held

LEMMA NextKeepsPath ==
  ASSUME RemovalInv, Typed, PathInv, [Next]_vars PROVE PathInv'
<1>1. CASE (World /\ UNCHANGED <<acts, loads>>) \/ UNCHANGED vars
  <2>1. UNCHANGED <<pc, dpc, pathLock>>
    BY <1>1 DEF World, StrangerPuts, StrangerTakes, Capture, Author, acts, loads, locks, vars
  <2> QED
    BY <2>1 DEF PathInv, HoldsPath, Installing
<1> QED
  BY <1>1, ActsKeepPath, LoadsKeepPath DEF Next

-----------------------------------------------------------------------------
(* What is in the claims, and who answers for it.                          *)

\* Whatever is in a claim, the journal names it; a withdrawn record is the one the intent
\* was prepared with.
Traced ==
  \A t \in Tokens : /\ There(claim[t]) \/ There(recClaim[t]) => journal.token = t
                    /\ There(recClaim[t]) => recClaim[t] = journal.fp

\* The intent is in the journal as long as the live removal may move anything, and nobody
\* knows of a removal that has not written it yet.
Announced(a) ==
  /\ pc[a] \in Held \ {"leased"} => journal.token = work[a].token
  /\ pc[a] = "leased" => /\ journal.token # work[a].token
                         /\ \A b \in Actors : b # a => work[b].token # work[a].token

\* Whoever works on the intent of the journal works for the same file.
SameIntent(a) == journal.token = work[a].token /\ journal # NoIntent => work[a].fp = journal.fp

\* The steps at which the media claim of the removal is known to be empty.
NoClaim == {"prepared", "withdraw", "check", "rename", "original", "putback", "cancel", "consume",
            "companions", "mark", "settle", "clean", "drop", "finish"}

ClaimSpent(a) ==
  /\ pc[a] \in NoClaim => claim[work[a].token] = NoFile
  /\ pc[a] = "verify" => claim[work[a].token] = IF work[a].trashed THEN NoFile ELSE work[a].moved
  /\ pc[a] \in {"destroy", "restore"} =>
       ~work[a].trashed /\ claim[work[a].token] = work[a].moved

\* The steps at which its record's claim is empty.
RecordSpent(a) ==
  /\ pc[a] \in {"prepared", "withdraw", "cancel"} => recClaim[work[a].token] = NoFile
  /\ pc[a] \in {"clean", "drop", "finish"} /\ ~work[a].failed => recClaim[work[a].token] = NoFile

CommitSpent == journal.committed => claim[journal.token] = NoFile

ClaimInv ==
  /\ Traced /\ CommitSpent
  /\ \A a \in Actors : Announced(a) /\ SameIntent(a) /\ ClaimSpent(a) /\ RecordSpent(a)

\* What a step of a removal may do to the journal: write its own intent over none, drop its
\* own, or mark it.
LEMMA JournalSteps ==
  ASSUME RemovalInv, NEW a \in Actors, Acts(a)
  PROVE  \/ UNCHANGED journal
         \/ /\ pc[a] = "leased" /\ journal = NoIntent
            /\ pc'[a] = "prepared" /\ UNCHANGED <<work, claim, recClaim>>
            /\ journal'.token = work[a].token /\ journal'.fp = work[a].fp
            /\ journal'.committed = FALSE /\ journal' # NoIntent
         \/ /\ pc[a] = "cancel" \/ (pc[a] \in {"clean", "finish"} /\ ~work[a].failed)
            /\ Owns(a) /\ journal' = NoIntent /\ pc'[a] = "idle"
            /\ UNCHANGED <<claim, recClaim>>
         \/ /\ pc[a] = "mark" /\ Owns(a) /\ UNCHANGED <<claim, recClaim, work>>
            /\ pc'[a] = "settle"
            /\ journal' = [journal EXCEPT !.committed = TRUE]
<1> a \in DOMAIN pc
  BY DEF RemovalInv, Shaped
<1>1. CASE UNCHANGED journal
  BY <1>1
<1>2. CASE Insert(a)
  <2>1. work[a].token # 0
    BY <1>2, LibraryAssumption DEF Insert, At, RemovalInv, Shaped, Given, Busy, Steps
  <2> QED
    BY <1>1, <1>2, <2>1, Records DEF Insert, At, GoTo
<1>3. CASE Cancel(a) \/ Finish(a)
  <2>1. \/ UNCHANGED journal
        \/ /\ pc[a] = "cancel" \/ (pc[a] \in {"clean", "finish"} /\ ~work[a].failed)
           /\ Discard(a)
    BY <1>3 DEF Cancel, Finish, At, disk
  <2>2. Discard(a) => \/ UNCHANGED journal
                      \/ /\ Owns(a) /\ journal' = NoIntent /\ pc'[a] = "idle"
                         /\ UNCHANGED <<claim, recClaim>>
    BY DEF Discard, Over
  <2> QED
    BY <1>1, <2>1, <2>2
<1>4. CASE Mark(a)
  BY <1>1, <1>4 DEF Mark, At, GoTo, Over
<1> QED
  BY <1>1, <1>2, <1>3, <1>4, WhoTouches

\* Only the renames of a live removal fill a claim, its own and an empty one.
LEMMA ClaimSteps ==
  ASSUME RemovalInv, Typed, NEW a \in Actors, Acts(a)
  PROVE  /\ \A t \in Tokens :
              \/ claim'[t] \in {claim[t], NoFile}
              \/ Rename(a) /\ t = work[a].token /\ pc[a] = "rename"
         /\ \A t \in Tokens :
              \/ recClaim'[t] \in {recClaim[t], NoFile}
              \/ /\ Withdraw(a) /\ t = work[a].token /\ pc[a] = "withdraw"
                 /\ recClaim'[t] = work[a].fp
         /\ \A t \in Tokens : t # work[a].token =>
              claim'[t] = claim[t] /\ recClaim'[t] = recClaim[t]
<1>1. /\ \A t \in Tokens :
           \/ claim'[t] \in {claim[t], NoFile}
           \/ Rename(a) /\ t = work[a].token /\ pc[a] = "rename"
      /\ \A t \in Tokens : t # work[a].token => claim'[t] = claim[t]
  <2>1. CASE UNCHANGED claim
    BY <2>1
  <2>2. CASE Rename(a) \/ Verify(a) \/ Restore(a) \/ Destroy(a) \/ Recover(a)
    BY <2>2 DEF Rename, Verify, Restore, MoveBack, Destroy, Recover, At, Typed
  <2> QED
    BY <2>1, <2>2, WhoTouches
<1>2. /\ \A t \in Tokens :
           \/ recClaim'[t] \in {recClaim[t], NoFile}
           \/ /\ Withdraw(a) /\ t = work[a].token /\ pc[a] = "withdraw"
              /\ recClaim'[t] = work[a].fp
      /\ \A t \in Tokens : t # work[a].token => recClaim'[t] = recClaim[t]
  <2>1. CASE UNCHANGED recClaim
    BY <2>1
  <2>2. CASE Withdraw(a) \/ PutBack(a) \/ Consume(a) \/ Settle(a)
    BY <2>2 DEF Withdraw, PutBack, Consume, Settle, At, Typed
  <2> QED
    BY <2>1, <2>2, WhoTouches
<1> QED
  BY <1>1, <1>2

\* Beside a live removal nobody fills, empties or takes anything from its claims.
LEMMA HeldClaimsStay ==
  ASSUME RemovalInv, Typed, NEW a \in Actors, Acts(a), NEW b \in Actors, b # a, pc[b] \in Held
  PROVE  /\ claim'[work[b].token] = claim[work[b].token]
         /\ recClaim'[work[b].token] = recClaim[work[b].token]
<1>1. work[b].token \in Tokens
  BY TokenOfMine DEF Held, Busy, Steps
<1>2. CASE work[a].token # work[b].token
  BY <1>1, <1>2, ClaimSteps
<1>3. CASE work[a].token = work[b].token
  <2>1. pc[a] = "probe"
    BY <1>3 DEF RemovalInv, Alone
  <2>2. UNCHANGED <<claim, recClaim>>
    BY <2>1, WhoTouches DEF Rename, Verify, Restore, Destroy, Recover, Withdraw, PutBack, Consume,
       Settle, At
  <2> QED
    BY <2>2
<1> QED
  BY <1>2, <1>3

\* With no intent in the journal there is nothing in any claim.
LEMMA NoIntentNoClaim ==
  ASSUME ClaimInv, Typed, journal = NoIntent
  PROVE  \A t \in Tokens : claim[t] = NoFile /\ recClaim[t] = NoFile
  BY Records, LibraryAssumption DEF ClaimInv, Traced, Tokens, There

LEMMA TracedKept ==
  ASSUME RemovalInv, Typed, ClaimInv, NEW a \in Actors, Acts(a) PROVE Traced'
<1>1. CASE UNCHANGED journal
  <2>1. ASSUME NEW t \in Tokens, There(claim'[t]) \/ There(recClaim'[t]) PROVE journal.token = t
    <3>1. CASE There(claim[t]) \/ There(recClaim[t])
      BY <3>1 DEF ClaimInv, Traced
    <3>2. CASE t = work[a].token /\ pc[a] \in {"rename", "withdraw"}
      BY <3>2 DEF ClaimInv, Announced, Held
    <3> QED
      BY <2>1, <3>1, <3>2, ClaimSteps DEF There
  <2>2. ASSUME NEW t \in Tokens, There(recClaim'[t]) PROVE recClaim'[t] = journal.fp
    <3>1. CASE recClaim'[t] = recClaim[t]
      BY <2>2, <3>1 DEF ClaimInv, Traced
    <3>2. CASE t = work[a].token /\ pc[a] = "withdraw" /\ recClaim'[t] = work[a].fp
      <4>1. journal.token = work[a].token /\ journal # NoIntent
        BY <3>2, Records, LibraryAssumption DEF ClaimInv, Announced, Held, Tokens
      <4> QED
        BY <3>2, <4>1 DEF ClaimInv, SameIntent
    <3> QED
      BY <2>2, <3>1, <3>2, ClaimSteps DEF There
  <2> QED
    BY <1>1, <2>1, <2>2 DEF Traced
<1>2. CASE journal = NoIntent /\ UNCHANGED <<claim, recClaim>>
  BY <1>2, NoIntentNoClaim DEF Traced, There
<1>3. CASE /\ pc[a] = "cancel" \/ (pc[a] \in {"clean", "finish"} /\ ~work[a].failed)
           /\ Owns(a) /\ UNCHANGED <<claim, recClaim>>
  <2>1. claim[work[a].token] = NoFile /\ recClaim[work[a].token] = NoFile
    BY <1>3 DEF ClaimInv, ClaimSpent, RecordSpent, NoClaim
  <2>2. \A t \in Tokens : claim[t] = NoFile /\ recClaim[t] = NoFile
    BY <1>3, <2>1 DEF ClaimInv, Traced, There, Owns
  <2> QED
    BY <1>3, <2>2 DEF Traced, There
<1>4. CASE journal' = [journal EXCEPT !.committed = TRUE] /\ UNCHANGED <<claim, recClaim>>
  BY <1>4 DEF ClaimInv, Traced, Typed
<1> QED
  BY <1>1, <1>2, <1>3, <1>4, JournalSteps

LEMMA AnnouncedKept ==
  ASSUME RemovalInv, Typed, ClaimInv, NEW a \in Actors, Acts(a), NEW b \in Actors
  PROVE  Announced(b)'
<1>1. pc[b] \in Held => work[b].token # 0 /\ work[b].token \in Tokens
  BY TokenOfMine, LibraryAssumption DEF Held, Busy, Steps, Tokens
<1>2. CASE b # a
  <2>1. pc'[b] = pc[b] /\ work'[b] = work[b]
    BY <1>2, OthersStay
  <2>2. ASSUME pc[b] \in Held \ {"leased"} PROVE journal'.token = work[b].token
    <3>1. journal.token = work[b].token
      BY <2>2 DEF ClaimInv, Announced
    <3>2. work[a].token = work[b].token => pc[a] = "probe"
      BY <1>2, <2>2 DEF RemovalInv, Alone
    <3>3. journal # NoIntent
      BY <1>1, <2>2, <3>1, Records
    <3> QED
      BY <3>1, <3>2, <3>3, JournalSteps DEF Owns
  <2>3. ASSUME pc[b] = "leased"
        PROVE  /\ journal'.token # work[b].token
               /\ \A c \in Actors : c # b => work'[c].token # work[b].token
    <3>1. /\ journal.token # work[b].token
          /\ \A c \in Actors : c # b => work[c].token # work[b].token
      BY <2>3 DEF ClaimInv, Announced
    <3>2. journal'.token # work[b].token
      <4>1. CASE journal' = [journal EXCEPT !.committed = TRUE]
        BY <3>1, <4>1 DEF Typed
      <4>2. CASE journal' = NoIntent
        BY <1>1, <2>3, <4>2, Records DEF Held
      <4> QED
        BY <1>2, <3>1, <4>1, <4>2, JournalSteps
    <3>3. work'[a].token # work[b].token
      <4>1. CASE \E trashed \in BOOLEAN : Begin(a, trashed)
        BY <1>1, <2>3, <4>1, Records DEF Begin, RemovalInv, Shaped, Held, Fields
      <4>2. CASE TakeLease(a)
        BY <1>2, <2>3, <4>2 DEF TakeLease, RemovalInv, LeaseHeld, Held
      <4>3. CASE Replay(a)
        BY <3>1, <4>3, Records DEF Replay, RemovalInv, Shaped, Fields
      <4>4. CASE Move(a)
        BY <1>1, <1>2, <2>3, <3>1, <4>4 DEF Move, OwnMove, Held
      <4> QED
        BY <4>1, <4>2, <4>3, <4>4, OthersStay
    <3> QED
      BY <1>2, <3>1, <3>2, <3>3, OthersStay
  <2> QED
    BY <2>1, <2>2, <2>3 DEF Announced
<1>3. CASE b = a
  <2>1. CASE pc'[a] = "leased"
    <3>1. TakeLease(a)
      BY <2>1, WhoArrives
    <3>2. work'[a].token = nextToken /\ UNCHANGED journal
      BY <3>1 DEF TakeLease, RemovalInv, Shaped, Fields, disk
    <3>3. journal.token < nextToken /\ \A c \in Actors : work[c].token < nextToken
      BY LibraryAssumption, Records DEF RemovalInv, JournalGiven, Given, Shaped
    <3> QED
      BY <1>3, <2>1, <3>2, <3>3, OthersStay DEF Announced, RemovalInv, Shaped
  <2>2. CASE pc'[a] = "prepared"
    BY <1>3, <2>2, WhoArrives DEF Insert, GoTo, Over, Announced, RemovalInv, Shaped
  <2>3. CASE pc'[a] \in Held \ {"leased", "prepared"}
    <3>1. pc[a] \in Held \ {"leased"}
      BY <2>3, WhoArrives
      DEF Validate, Withdraw, Check, Rename, Verify, Destroy, At, Held
    <3>2. journal.token = work[a].token /\ work'[a].token = work[a].token
      BY <2>3, <3>1, OthersStay
      DEF ClaimInv, Announced, Begin, TakeLease, Replay, Move, OwnMove, At, Held
    <3>3. UNCHANGED journal
      BY <2>3, <3>1, JournalSteps DEF Held
    <3> QED
      BY <1>3, <2>3, <3>2, <3>3 DEF Announced
  <2> QED
    BY <1>3, <2>1, <2>2, <2>3 DEF Announced, Held
<1> QED
  BY <1>2, <1>3

LEMMA SameIntentKept ==
  ASSUME RemovalInv, Typed, ClaimInv, NEW a \in Actors, Acts(a), NEW b \in Actors
  PROVE  SameIntent(b)'
<1> SUFFICES ASSUME journal'.token = work'[b].token, journal' # NoIntent
             PROVE  work'[b].fp = journal'.fp
  BY DEF SameIntent
<1>1. CASE b # a
  <2>1. work'[b] = work[b]
    BY <1>1, OthersStay
  <2>2. CASE pc[a] = "leased" /\ journal'.token = work[a].token
    BY <1>1, <2>1, <2>2 DEF ClaimInv, Announced
  <2>3. CASE journal' = journal \/ journal' = [journal EXCEPT !.committed = TRUE]
    <3>1. journal'.token = journal.token /\ journal'.fp = journal.fp
      BY <2>3 DEF Typed
    <3>2. journal # NoIntent
      <4>1. CASE journal' = journal
        BY <4>1
      <4>2. CASE pc[a] = "mark" /\ Owns(a)
        BY <4>2, Records, LibraryAssumption, TokenOfMine DEF Owns, Busy, Steps, Tokens
      <4> QED
        BY <2>3, <4>1, <4>2, JournalSteps, Records
    <3> QED
      BY <2>1, <3>1, <3>2 DEF ClaimInv, SameIntent
  <2> QED
    BY <2>2, <2>3, JournalSteps
<1>2. CASE b = a
  <2>1. CASE journal' = NoIntent
    BY <2>1
  <2>2. CASE pc[a] = "leased" /\ UNCHANGED work /\ journal'.fp = work[a].fp
    BY <1>2, <2>2
  <2>3. CASE /\ pc[a] = "mark" /\ Owns(a) /\ UNCHANGED work
             /\ journal' = [journal EXCEPT !.committed = TRUE]
    <3>1. journal # NoIntent
      BY <2>3, Records, LibraryAssumption, TokenOfMine DEF Owns, Busy, Steps, Tokens
    <3>2. journal'.fp = journal.fp
      BY <2>3 DEF Typed
    <3> QED
      BY <1>2, <2>3, <3>1, <3>2 DEF ClaimInv, SameIntent, Owns
  <2>4. CASE UNCHANGED journal
    <3>1. journal.token # 0 /\ journal.token < nextToken
      BY <2>4, LibraryAssumption DEF RemovalInv, JournalGiven, Shaped
    <3>2. CASE TakeLease(a)
      BY <1>2, <2>4, <3>1, <3>2 DEF TakeLease, RemovalInv, Shaped, Fields
    <3>3. CASE Replay(a)
      BY <1>2, <2>4, <3>3, Records DEF Replay, RemovalInv, Shaped, Fields
    <3>4. CASE \E trashed \in BOOLEAN : Begin(a, trashed)
      BY <1>2, <2>4, <3>1, <3>4, Records DEF Begin, RemovalInv, Shaped, Fields
    <3>5. CASE Move(a)
      BY <1>2, <2>4, <3>1, <3>5 DEF Move, OwnMove, ClaimInv, SameIntent
    <3> QED
      BY <3>2, <3>3, <3>4, <3>5, OthersStay
  <2> QED
    BY <2>1, <2>2, <2>3, <2>4, JournalSteps
<1> QED
  BY <1>1, <1>2

\* The others' claims: only the renames of a live removal fill one, and then whoever has its
\* token has yet to find the lease free.
LEMMA OthersStaySpent ==
  ASSUME RemovalInv, Typed, ClaimInv, NEW a \in Actors, Acts(a), NEW b \in Actors, b # a
  PROVE  ClaimSpent(b)' /\ RecordSpent(b)'
<1>1. pc'[b] = pc[b] /\ work'[b] = work[b] /\ ClaimSpent(b) /\ RecordSpent(b)
  BY OthersStay DEF ClaimInv
<1>2. pc[b] \in NoClaim \cup Held => work[b].token \in Tokens
  BY TokenOfMine DEF NoClaim, Held, Busy, Steps
<1>3. pc[a] \in {"rename", "withdraw"} /\ work[b].token = work[a].token => pc[b] = "probe"
  BY DEF RemovalInv, Alone, Held
<1>4. ASSUME pc[b] \in NoClaim PROVE claim'[work[b].token] = NoFile
  BY <1>1, <1>2, <1>3, <1>4, ClaimSteps DEF ClaimSpent, NoClaim
<1>5. ASSUME pc[b] \in {"prepared", "withdraw", "cancel", "clean", "drop", "finish"},
             recClaim[work[b].token] = NoFile
      PROVE  recClaim'[work[b].token] = NoFile
  BY <1>1, <1>2, <1>3, <1>5, ClaimSteps DEF NoClaim
<1>6. ASSUME pc[b] \in Taken PROVE claim'[work[b].token] = claim[work[b].token]
  BY <1>6, HeldClaimsStay DEF Taken, Held
<1> QED
  BY <1>1, <1>4, <1>5, <1>6 DEF ClaimSpent, RecordSpent, Taken

\* A removal keeps its token and the file it was prepared for until it is over.
LEMMA OwnTokenStays ==
  ASSUME RemovalInv, NEW a \in Actors, Acts(a),
         pc'[a] \notin {"idle", "locked", "leased", "probe"},
         ~Replay(a)
  PROVE  pc[a] \in Busy /\ work'[a].token = work[a].token /\ work'[a].fp = work[a].fp
<1>1. CASE Move(a)
  BY <1>1 DEF Move, OwnMove
<1>2. CASE TakeLease(a) \/ \E trashed \in BOOLEAN : Begin(a, trashed)
  BY <1>2 DEF TakeLease, Begin, GoTo, RemovalInv, Shaped
<1> QED
  BY <1>1, <1>2, OthersStay

\* Its own claims: it comes to none of these steps before its claim is what they need.
LEMMA OwnClaimSpent ==
  ASSUME RemovalInv, Typed, ClaimInv, NEW a \in Actors, Acts(a) PROVE ClaimSpent(a)'
<1> DEFINE t == work[a].token
<1>1. /\ a \in DOMAIN pc /\ a \in DOMAIN work /\ work[a] \in Job
      /\ pc[a] \in Busy => t \in Tokens
      /\ ClaimSpent(a) /\ RecordSpent(a)
  BY TokenOfMine DEF RemovalInv, Shaped, Typed, ClaimInv
<1>2. CASE pc'[a] = "prepared"
  <2>1. Insert(a) /\ journal = NoIntent /\ UNCHANGED <<work, claim>> /\ pc[a] = "leased"
    BY <1>1, <1>2, WhoArrives DEF Insert, GoTo, Over, At
  <2> QED
    BY <1>1, <1>2, <2>1, NoIntentNoClaim DEF ClaimSpent, Busy, Steps
<1>3. CASE pc'[a] \in {"withdraw", "check", "rename", "cancel", "companions", "settle", "drop",
                       "finish"}
  <2>1. \/ Validate(a) \/ Withdraw(a) \/ Check(a) \/ PutBack(a) \/ Consume(a) \/ Mark(a) \/ Look(a)
        \/ Drop(a)
    BY <1>3, WhoArrives
  <2>2. pc[a] \in NoClaim
    BY <2>1 DEF Validate, Withdraw, Check, PutBack, Consume, Mark, Look, Drop, At, NoClaim
  <2>3. UNCHANGED claim
    BY <2>1 DEF Validate, Withdraw, Check, PutBack, Consume, Mark, Look, Drop, disk
  <2>4. work'[a].token = t
    BY <1>3, <2>2, OwnTokenStays DEF Replay, At, NoClaim
  <2> QED
    BY <1>1, <1>3, <2>2, <2>3, <2>4 DEF ClaimSpent, Taken
<1>4. CASE pc'[a] = "original"
  <2>1. Recover(a) /\ pc[a] = "recover"
    BY <1>4, WhoArrives DEF Recover, At
  <2>2. claim[t] = NoFile /\ UNCHANGED claim
    BY <1>1, <1>4, <2>1 DEF Recover, GoTo, Over, There
  <2>3. work'[a].token = t
    BY <1>4, <2>1, OwnTokenStays DEF Replay, At
  <2> QED
    BY <1>4, <2>2, <2>3 DEF ClaimSpent
<1>5. CASE pc'[a] = "putback"
  <2>1. /\ Check(a) \/ Rename(a) \/ Verify(a) \/ Restore(a) \/ Original(a)
        /\ pc[a] \in {"check", "rename", "verify", "restore", "original"}
    BY <1>5, WhoArrives DEF Check, Rename, Verify, Restore, Original, At
  <2>2. \/ pc[a] \in NoClaim /\ UNCHANGED claim
        \/ pc[a] \in {"verify", "restore"} /\ MoveBack(a)
    <3>1. CASE Check(a) \/ Rename(a) \/ Original(a)
      BY <1>1, <1>5, <3>1 DEF Check, Rename, Original, GoTo, Over, At, NoClaim, disk
    <3>2. CASE Verify(a)
      BY <1>1, <1>5, <3>2 DEF Verify, GoTo, Retain, Over, At
    <3>3. CASE Restore(a)
      BY <1>1, <1>5, <3>3 DEF Restore, GoTo, Retain, Over, At
    <3> QED
      BY <2>1, <3>1, <3>2, <3>3
  <2>3. work'[a].token = t
    BY <1>5, <2>1, OwnTokenStays DEF Replay, At
  <2>4. claim'[t] = NoFile
    BY <1>1, <2>1, <2>2, OwnTokenStays DEF MoveBack, ClaimSpent, Busy, Steps, Typed, Taken
  <2> QED
    BY <1>5, <2>3, <2>4 DEF ClaimSpent
<1>6. CASE pc'[a] = "consume"
  <2>1. (Verify(a) /\ pc[a] = "verify") \/ (Destroy(a) /\ pc[a] = "destroy")
    BY <1>6, WhoArrives DEF Verify, Destroy, At
  <2>2. \/ pc[a] = "verify" /\ work[a].trashed /\ UNCHANGED claim
        \/ pc[a] = "destroy" /\ claim' = [claim EXCEPT ![t] = NoFile]
    <3>1. CASE Verify(a)
      BY <1>1, <1>6, <3>1 DEF Verify, GoTo, Retain, Over, At
    <3>2. CASE Destroy(a)
      BY <1>1, <1>6, <3>2 DEF Destroy, GoTo, At
    <3> QED
      BY <2>1, <3>1, <3>2
  <2>3. work'[a].token = t
    BY <1>6, <2>1, OwnTokenStays DEF Replay, At
  <2>4. claim'[t] = NoFile
    BY <1>1, <2>1, <2>2 DEF ClaimSpent, Busy, Steps, Typed
  <2> QED
    BY <1>6, <2>3, <2>4 DEF ClaimSpent
<1>7. CASE pc'[a] = "clean"
  <2>1. pc[a] \in {"settle", "clean"} /\ UNCHANGED claim
    BY <1>7, WhoArrives DEF Settle, Clean, At
  <2>2. work'[a].token = t
    BY <1>7, <2>1, OwnTokenStays DEF Replay, At
  <2> QED
    BY <1>1, <1>7, <2>1, <2>2 DEF ClaimSpent, NoClaim
<1>8. CASE pc'[a] = "mark" /\ Replay(a)
  <2>1. journal.committed /\ UNCHANGED claim
    BY <1>1, <1>8 DEF Replay, GoTo, disk
  <2>2. work'[a].token = journal.token
    BY <1>1, <1>8, Records DEF Replay, Fields
  <2> QED
    BY <1>8, <2>1, <2>2 DEF ClaimSpent, ClaimInv, CommitSpent
<1>9. CASE pc'[a] = "mark" /\ ~Replay(a)
  <2>1. Companions(a) \/ Recover(a) \/ Original(a)
    BY <1>9, WhoArrives
  <2>2. work'[a].token = t /\ t \in Tokens
    BY <1>1, <1>9, OwnTokenStays
  <2>3. CASE Recover(a)
    <3>1. claim' = [claim EXCEPT ![t] = NoFile]
      BY <1>1, <1>9, <2>3 DEF Recover, GoTo, Over
    <3> QED
      BY <1>9, <2>2, <3>1 DEF ClaimSpent, Typed
  <2>4. CASE Companions(a) \/ Original(a)
    BY <1>1, <1>9, <2>2, <2>4 DEF Companions, Original, At, disk, ClaimSpent, NoClaim
  <2> QED
    BY <2>1, <2>3, <2>4
<1>10. CASE pc'[a] = "verify"
  <2>1. /\ Rename(a) /\ pc[a] = "rename" /\ work' = [work EXCEPT ![a].moved = media]
        /\ IF work[a].trashed THEN UNCHANGED claim ELSE claim' = [claim EXCEPT ![t] = media]
    BY <1>1, <1>10, WhoArrives DEF Rename, GoTo, At
  <2>2. work'[a].moved = media /\ work'[a].token = t /\ work'[a].trashed = work[a].trashed
    BY <1>1, <2>1 DEF Job
  <2>3. claim'[t] = IF work[a].trashed THEN NoFile ELSE media
    BY <1>1, <2>1 DEF ClaimSpent, NoClaim, Busy, Steps, Typed
  <2> QED
    BY <1>10, <2>2, <2>3 DEF ClaimSpent, NoClaim
<1>11. CASE pc'[a] \in {"destroy", "restore"}
  <2>1. \/ pc[a] = "verify" /\ ~work[a].trashed
        \/ pc[a] = "destroy"
    BY <1>1, <1>11, WhoArrives DEF Verify, Destroy, GoTo, Retain, Over, At
  <2>2. UNCHANGED <<claim, work>>
    BY <1>1, <1>11, WhoArrives DEF Verify, Destroy, GoTo, Retain, Over, At
  <2> QED
    BY <1>1, <1>11, <2>1, <2>2 DEF ClaimSpent, NoClaim
<1> QED
  BY <1>2, <1>3, <1>4, <1>5, <1>6, <1>7, <1>8, <1>9, <1>10, <1>11 DEF ClaimSpent, NoClaim

\* Its own record's claim: nothing is cancelled, or finished with nothing failed, before it
\* is empty.
LEMMA OwnRecordSpent ==
  ASSUME RemovalInv, Typed, ClaimInv, NEW a \in Actors, Acts(a) PROVE RecordSpent(a)'
<1> DEFINE t == work[a].token
<1>1. /\ a \in DOMAIN pc /\ a \in DOMAIN work /\ work[a] \in Job
      /\ pc[a] \in Busy => t \in Tokens
      /\ RecordSpent(a)
  BY TokenOfMine DEF RemovalInv, Shaped, Typed, ClaimInv
<1>2. CASE pc'[a] = "prepared"
  <2>1. journal = NoIntent /\ UNCHANGED <<work, recClaim>> /\ pc[a] = "leased"
    BY <1>1, <1>2, WhoArrives DEF Insert, GoTo, Over, At
  <2> QED
    BY <1>1, <1>2, <2>1, NoIntentNoClaim DEF RecordSpent, Busy, Steps
<1>3. CASE pc'[a] = "withdraw"
  <2>1. pc[a] = "prepared" /\ UNCHANGED recClaim
    BY <1>3, WhoArrives DEF Validate, At, disk
  <2>2. work'[a].token = t
    BY <1>3, <2>1, OwnTokenStays DEF Replay, At
  <2> QED
    BY <1>1, <1>3, <2>1, <2>2 DEF RecordSpent
<1>4. CASE pc'[a] = "cancel"
  <2>1. /\ Validate(a) \/ Withdraw(a) \/ PutBack(a)
        /\ pc[a] \in {"prepared", "withdraw", "putback"}
    BY <1>4, WhoArrives DEF Validate, Withdraw, PutBack, At
  <2>2. work'[a].token = t
    BY <1>4, <2>1, OwnTokenStays DEF Replay, At
  <2>3. recClaim'[t] = NoFile
    <3>1. CASE Validate(a)
      BY <1>1, <3>1 DEF Validate, At, disk, RecordSpent
    <3>2. CASE Withdraw(a)
      BY <1>1, <1>4, <3>2 DEF Withdraw, GoTo, Retain, Over, At, RecordSpent
    <3>3. CASE PutBack(a)
      BY <1>1, <1>4, <2>1, <3>3 DEF PutBack, GoTo, Retain, Over, At, There, Busy, Steps, Typed
    <3> QED
      BY <2>1, <3>1, <3>2, <3>3
  <2> QED
    BY <1>4, <2>2, <2>3 DEF RecordSpent
<1>5. CASE pc'[a] = "clean" /\ Settle(a)
  <2>1. pc[a] = "settle"
    BY <1>5 DEF Settle, At
  <2>2. work'[a].token = t
    BY <1>5, <2>1, OwnTokenStays DEF Replay, At
  <2>3. \/ recClaim' = [recClaim EXCEPT ![t] = NoFile]
        \/ work' = [work EXCEPT ![a] = [@ EXCEPT !.todo = Order, !.failed = TRUE]]
    BY <1>5 DEF Settle
  <2>4. CASE recClaim' = [recClaim EXCEPT ![t] = NoFile]
    BY <1>1, <1>5, <2>1, <2>2, <2>4 DEF RecordSpent, Busy, Steps, Typed
  <2>5. CASE work' = [work EXCEPT ![a] = [@ EXCEPT !.todo = Order, !.failed = TRUE]]
    <3>1. work'[a].failed = TRUE
      BY <1>1, <2>5 DEF Job
    <3> QED
      BY <1>5, <3>1 DEF RecordSpent
  <2> QED
    BY <2>3, <2>4, <2>5
<1>6. CASE pc'[a] \in {"drop", "finish"} \/ (pc'[a] = "clean" /\ ~Settle(a))
  <2>1. /\ Clean(a) \/ Look(a) \/ Drop(a)
        /\ pc[a] \in {"clean", "drop"} /\ UNCHANGED recClaim
    BY <1>6, WhoArrives DEF Clean, Look, Drop, At, disk
  <2>2. work'[a].token = t
    BY <1>6, <2>1, OwnTokenStays DEF Replay, At
  <2>3. work[a].failed => work'[a].failed
    <3>1. CASE Clean(a)
      BY <1>1, <3>1 DEF Clean, Job
    <3>2. CASE Look(a)
      <4>1. \/ UNCHANGED work
            \/ work' = [work EXCEPT ![a].failed = @ \/ (still # 0 /\ still = work[a].proof)]
        BY <3>2 DEF Look
      <4> DEFINE v == work[a].failed \/ (still # 0 /\ still = work[a].proof)
      <4>2. work[a].failed => v
        OBVIOUS
      <4>3. UNCHANGED work \/ work' = [work EXCEPT ![a].failed = v]
        BY <4>1
      <4> HIDE DEF v
      <4> QED
        BY <1>1, <4>2, <4>3 DEF Job
    <3>3. CASE Drop(a)
      BY <1>1, <3>3 DEF Drop, Job
    <3> QED
      BY <2>1, <3>1, <3>2, <3>3
  <2> QED
    BY <1>1, <1>6, <2>1, <2>2, <2>3 DEF RecordSpent
<1>7. CASE pc'[a] \notin {"prepared", "withdraw", "cancel", "clean", "drop", "finish"}
  BY <1>7 DEF RecordSpent
<1> QED
  BY <1>2, <1>3, <1>4, <1>5, <1>6, <1>7

LEMMA CommitSpentKept ==
  ASSUME RemovalInv, Typed, ClaimInv, NEW a \in Actors, Acts(a) PROVE CommitSpent'
<1> SUFFICES ASSUME journal'.committed PROVE claim'[journal'.token] = NoFile
  BY DEF CommitSpent
<1>1. CASE UNCHANGED journal
  <2>1. CASE pc[a] = "rename"
    BY <1>1, <2>1 DEF RemovalInv, LeaseHeld, ClaimInv, Announced, Held
  <2>2. journal.token \in Tokens /\ claim[journal.token] = NoFile
    <3>1. journal # NoIntent
      BY <1>1 DEF NoIntent
    <3> QED
      BY <1>1, <3>1, LibraryAssumption
      DEF ClaimInv, CommitSpent, RemovalInv, JournalGiven, Shaped, Tokens
  <2> QED
    BY <1>1, <2>1, <2>2, ClaimSteps
<1>2. CASE journal' = NoIntent
  BY <1>2 DEF NoIntent
<1>3. CASE /\ pc[a] = "mark" /\ Owns(a) /\ UNCHANGED claim
           /\ journal' = [journal EXCEPT !.committed = TRUE]
  BY <1>3 DEF Owns, ClaimInv, ClaimSpent, NoClaim, Typed
<1> QED
  BY <1>1, <1>2, <1>3, JournalSteps

LEMMA ActsKeepClaims ==
  ASSUME RemovalInv, Typed, ClaimInv, NEW a \in Actors, Acts(a) PROVE ClaimInv'
<1>1. ASSUME NEW b \in Actors PROVE ClaimSpent(b)' /\ RecordSpent(b)'
  BY OthersStaySpent, OwnClaimSpent, OwnRecordSpent
<1> QED
  BY <1>1, TracedKept, CommitSpentKept, AnnouncedKept, SameIntentKept DEF ClaimInv

LEMMA InitClaims == Init => ClaimInv
<1> SUFFICES ASSUME Init PROVE ClaimInv
  OBVIOUS
<1>1. /\ \A t \in Tokens : claim[t] = NoFile /\ recClaim[t] = NoFile
      /\ journal = NoIntent /\ \A a \in Actors : pc[a] = "idle"
  BY DEF Init, InitFiles, InitRemoval
<1>2. ~There(NoFile) /\ NoIntent.committed = FALSE
  BY DEF There, NoIntent
<1> QED
  BY <1>1, <1>2 DEF ClaimInv, Traced, CommitSpent, Announced, SameIntent, ClaimSpent, RecordSpent,
     NoClaim, Held

LEMMA NextKeepsClaims ==
  ASSUME RemovalInv, Typed, ClaimInv, [Next]_vars PROVE ClaimInv'
<1>1. ASSUME UNCHANGED <<pc, work, claim, recClaim, journal>> PROVE ClaimInv'
  BY <1>1 DEF ClaimInv, Traced, CommitSpent, Announced, SameIntent, ClaimSpent, RecordSpent, There
<1>2. CASE World /\ UNCHANGED <<acts, loads>>
  BY <1>1, <1>2 DEF World, StrangerPuts, StrangerTakes, Capture, Author, acts
<1>3. ASSUME NEW d \in Installers, Loads(d), UNCHANGED acts PROVE ClaimInv'
  BY <1>1, <1>3 DEF Loads, Installs, Choose, PublishMedia, Confirm, PublishRecord, SweepLooks,
     SweepRetires, Dies, Untouched, acts
<1>4. CASE UNCHANGED vars
  BY <1>1, <1>4 DEF vars, disk, acts
<1> QED
  BY <1>2, <1>3, <1>4, ActsKeepClaims DEF Next

\* Whatever a removal has moved into a claim is found again, whoever dies at whatever step and
\* however many replays work on the same intent: no intent is dropped that still says where
\* a file is (cancel_removal, commit_removal, _retry_removals).
THEOREM NoClaimIsOrphaned == Spec => []ClaimsAreOwned
<1>1. ClaimInv => ClaimsAreOwned
  BY DEF ClaimInv, Traced, ClaimsAreOwned
<1> QED
  BY <1>1, InitRemovalInv, NextKeeps, InitTyped, NextTyped, InitClaims, NextKeepsClaims, PTL
  DEF Spec

-----------------------------------------------------------------------------
(* A wallpaper that has left its path.                                     *)

\* Nothing of generation g is at the path, nor can a removal still move it back there.
Left(g) ==
  /\ media.gen # g
  /\ \A b \in Actors : pc[b] \in Taken => work[b].moved.gen # g

\* What a live removal took has left, and so has what it was prepared for.
Apart(a) == pc[a] \in Taken => media.gen # work[a].moved.gen /\ media.gen # work[a].fp.gen

\* The steps after the media is gone for good; at "mark" that is known only of an intent the
\* journal still has, for only its owner may commit it.
Past == {"consume", "companions", "settle", "clean", "drop", "finish"}

HasLeft(a) == pc[a] \in Past \/ (pc[a] = "mark" /\ Owns(a)) => Left(work[a].fp.gen)

\* What is claimed is not at the path.
ClaimLeft == \A t \in Tokens : There(claim[t]) => claim[t].gen # media.gen

\* So is what a committed intent is about.
CommitLeft == journal.committed => Left(journal.fp.gen)

LeftInv ==
  /\ ClaimLeft /\ CommitLeft
  /\ \A a \in Actors : Apart(a) /\ HasLeft(a)

\* Two live removals are never at work at once.
LEMMA OneLive ==
  ASSUME RemovalInv, NEW a \in Actors, NEW b \in Actors, pc[a] \in Held, pc[b] \in Held
  PROVE  a = b
  BY DEF RemovalInv, LeaseHeld

\* Where the media comes from.
LEMMA MediaSteps ==
  ASSUME RemovalInv, Typed, NEW a \in Actors, Acts(a)
  PROVE  \/ UNCHANGED media
         \/ Rename(a) /\ media' = NoFile /\ pc[a] = "rename" /\ pc'[a] = "verify"
         \/ /\ pc[a] \in {"verify", "restore"} /\ MoveBack(a) /\ pc'[a] \notin Taken
            /\ media'.gen = work[a].moved.gen
<1> a \in DOMAIN pc
  BY DEF RemovalInv, Shaped
<1>1. CASE Rename(a)
  BY <1>1 DEF Rename, GoTo, At
<1>2. CASE Verify(a) \/ Restore(a)
  <2>1. pc[a] \in {"verify", "restore"} /\ (UNCHANGED media \/ (MoveBack(a) /\ pc'[a] \notin Taken))
    BY <1>2 DEF Verify, Restore, GoTo, Retain, Over, At, Taken
  <2>2. MoveBack(a) => media'.gen = work[a].moved.gen
    BY <2>1, FileFacts DEF MoveBack, Typed, Taken
  <2> QED
    BY <2>1, <2>2
<1> QED
  BY <1>1, <1>2, WhoTouches

\* What has left does not come back.
LEMMA LeftStays ==
  ASSUME RemovalInv, Typed, NEW a \in Actors, Acts(a), NEW g, g # 0, Left(g) PROVE Left(g)'
<1>1. media'.gen # g
  BY MediaSteps, FileFacts DEF Left, Taken
<1>2. ASSUME NEW b \in Actors, pc'[b] \in Taken PROVE work'[b].moved.gen # g
  <2>1. CASE b # a
    BY <1>2, <2>1, OthersStay DEF Left
  <2>2. CASE b = a /\ pc'[a] = "verify"
    <3>1. work' = [work EXCEPT ![a].moved = media]
      BY <2>2, WhoArrives DEF Rename, GoTo, RemovalInv, Shaped
    <3>2. work'[a].moved = media
      BY <3>1 DEF Typed, Job
    <3> QED
      BY <2>2, <3>2 DEF Left
  <2>3. CASE b = a /\ pc'[a] \in {"destroy", "restore"}
    <3>1. pc[a] \in Taken /\ UNCHANGED work
      BY <2>3, WhoArrives DEF Verify, Destroy, GoTo, Retain, Over, At, RemovalInv, Shaped, Taken
    <3> QED
      BY <2>3, <3>1 DEF Left
  <2> QED
    BY <1>2, <2>1, <2>2, <2>3 DEF Taken
<1> QED
  BY <1>1, <1>2 DEF Left

\* A file that the claim of the intent holds, or that is not at the path while nobody who could
\* move it back is at work on it, has left.
LEMMA ReplayFindsItLeft ==
  ASSUME RemovalInv, ClaimInv, NEW a \in Actors, Owns(a), pc[a] \in {"recover", "original"},
         NEW g, media.gen # g
  PROVE  Left(g)
<1>1. ASSUME NEW b \in Actors, pc[b] \in Taken PROVE FALSE
  <2>1. b # a /\ work[a].token = work[b].token
    BY <1>1 DEF Taken, Held, ClaimInv, Announced, Owns
  <2> QED
    BY <1>1, <2>1 DEF RemovalInv, Alone, Taken, Held
<1> QED
  BY <1>1 DEF Left

LEMMA ActsKeepLeft ==
  ASSUME RemovalInv, Typed, ClaimInv, LeftInv, NEW a \in Actors, Acts(a) PROVE LeftInv'
<1> a \in DOMAIN pc /\ a \in DOMAIN work /\ work[a] \in Job
  BY DEF RemovalInv, Shaped, Typed
<1>0. \A b \in Actors : pc[b] \in Busy => work[b].fp.gen # 0
  BY LibraryAssumption DEF RemovalInv, Given, Typed
<1>1. ASSUME NEW t \in Tokens, There(claim'[t]) PROVE claim'[t].gen # media'.gen
  <2>1. CASE claim'[t] = claim[t] /\ UNCHANGED media
    BY <1>1, <2>1 DEF LeftInv, ClaimLeft
  <2>2. CASE media' = NoFile
    <3>1. claim'[t] \in FileOrNone
      BY ClaimSteps, FileFacts, WhoTouches DEF Rename, Typed
    <3> QED
      BY <1>1, <2>2, <3>1, FileFacts
  <2>3. CASE pc[a] \in {"verify", "restore"} /\ MoveBack(a)
    <3>1. journal.token = work[a].token
      BY <2>3 DEF ClaimInv, Announced, Held
    <3>2. claim'[t] = claim[t] /\ There(claim[t])
      BY <1>1, <2>3, ClaimSteps DEF At, Rename, There
    <3>3. t = work[a].token
      BY <3>1, <3>2 DEF ClaimInv, Traced
    <3>4. claim'[t] = NoFile
      BY <2>3, <3>2, <3>3 DEF MoveBack, ClaimInv, ClaimSpent, Typed
    <3> QED
      BY <1>1, <3>4 DEF There
  <2>4. CASE pc[a] = "rename" /\ Rename(a) /\ UNCHANGED media
    BY <1>1, <2>4 DEF Rename, LeftInv, ClaimLeft, There
  <2> QED
    BY <1>1, <2>1, <2>2, <2>3, <2>4, MediaSteps, ClaimSteps DEF There
<1>2. ASSUME NEW b \in Actors PROVE Apart(b)'
  <2> SUFFICES ASSUME pc'[b] \in Taken
               PROVE  media'.gen # work'[b].moved.gen /\ media'.gen # work'[b].fp.gen
    BY DEF Apart
  <2>1. CASE b # a
    <3>1. pc[b] \in Taken /\ work'[b] = work[b]
      BY <2>1, OthersStay
    <3>2. pc[a] \notin Held
      BY <2>1, <3>1, OneLive DEF Taken, Held
    <3>3. UNCHANGED media
      BY <3>2, MediaSteps DEF Held
    <3> QED
      BY <3>1, <3>3 DEF LeftInv, Apart
  <2>2. CASE b = a /\ pc'[a] = "verify"
    <3>1. /\ media' = NoFile /\ pc[a] = "rename" /\ There(media)
          /\ work' = [work EXCEPT ![a].moved = media]
      BY <2>2, WhoArrives DEF Rename, GoTo, At
    <3>2. work'[a].moved = media /\ work'[a].fp = work[a].fp
      BY <3>1 DEF Job
    <3>3. work[a].fp.gen # 0 /\ media.gen # 0
      BY <1>0, <3>1, FileFacts DEF Busy, Steps, Typed
    <3> QED
      BY <2>2, <3>1, <3>2, <3>3, FileFacts
  <2>3. CASE b = a /\ pc'[a] \in {"destroy", "restore"}
    <3>1. pc[a] \in Taken /\ UNCHANGED <<work, media>>
      BY <2>3, WhoArrives DEF Verify, Destroy, GoTo, Retain, Over, At, Taken
    <3> QED
      BY <2>3, <3>1 DEF LeftInv, Apart
  <2> QED
    BY <2>1, <2>2, <2>3 DEF Taken
<1>3. CommitLeft'
  <2> SUFFICES ASSUME journal'.committed, NEW g, g = journal'.fp.gen PROVE Left(g)'
    BY DEF CommitLeft, Left
  <2>1. CASE UNCHANGED journal
    <3>1. journal # NoIntent
      BY <2>1 DEF NoIntent
    <3>2. g # 0 /\ Left(g)
      BY <2>1, <3>1, LibraryAssumption DEF RemovalInv, JournalGiven, Typed, LeftInv, CommitLeft
    <3> QED
      BY <3>2, LeftStays
  <2>2. CASE journal' = NoIntent
    BY <2>2 DEF NoIntent
  <2>3. CASE pc[a] = "mark" /\ Owns(a) /\ journal' = [journal EXCEPT !.committed = TRUE]
    <3>1. journal # NoIntent
      BY <2>3, Records, LibraryAssumption, TokenOfMine DEF Owns, Busy, Steps, Tokens
    <3>2. work[a].fp = journal.fp /\ journal'.fp = journal.fp
      BY <2>3, <3>1 DEF ClaimInv, SameIntent, Owns, Typed
    <3>3. Left(g) /\ g # 0
      BY <1>0, <2>3, <3>2 DEF LeftInv, HasLeft, Busy, Steps
    <3> QED
      BY <3>3, LeftStays
  <2> QED
    BY <2>1, <2>2, <2>3, JournalSteps
<1>4. ASSUME NEW b \in Actors, b # a PROVE HasLeft(b)'
  <2> SUFFICES ASSUME pc[b] \in Past \/ (pc[b] = "mark" /\ journal'.token = work[b].token),
                      NEW g, g = work[b].fp.gen
               PROVE  Left(g)'
    BY <1>4, OthersStay DEF HasLeft, Owns, Left
  <2>1. Left(g)
    <3>1. CASE pc[b] \in Past
      BY <3>1 DEF LeftInv, HasLeft
    <3>2. CASE pc[b] = "mark" /\ journal'.token = work[b].token
      <4>1. work[b].token # 0
        BY <3>2, LibraryAssumption, TokenOfMine DEF Busy, Steps, Tokens
      <4>2. journal.token = work[b].token
        <5>1. CASE pc[a] = "leased" /\ journal'.token = work[a].token
          BY <1>4, <3>2, <5>1 DEF ClaimInv, Announced
        <5>2. CASE journal' = NoIntent
          BY <3>2, <4>1, <5>2, Records
        <5>3. CASE journal' = [journal EXCEPT !.committed = TRUE]
          BY <3>2, <5>3 DEF Typed
        <5> QED
          BY <3>2, <5>1, <5>2, <5>3, JournalSteps
      <4> QED
        BY <3>2, <4>2 DEF LeftInv, HasLeft, Owns
    <3> QED
      BY <3>1, <3>2
  <2>2. g # 0
    BY <1>0 DEF Past, Busy, Steps
  <2> QED
    BY <2>1, <2>2, LeftStays
<1>5. HasLeft(a)'
  <2> SUFFICES ASSUME pc'[a] \in Past \/ (pc'[a] = "mark" /\ journal'.token = work'[a].token),
                      NEW g, g = work'[a].fp.gen
               PROVE  Left(g)'
    BY DEF HasLeft, Owns, Left
  <2>1. CASE Replay(a)
    <3>1. /\ journal.committed /\ journal # NoIntent /\ g = journal.fp.gen
      BY <2>1, Records DEF Replay, GoTo, Fields, Past
    <3>2. g # 0 /\ Left(g)
      BY <3>1, LibraryAssumption DEF RemovalInv, JournalGiven, Typed, LeftInv, CommitLeft
    <3> QED
      BY <3>2, LeftStays
  <2>2. CASE ~Replay(a)
    <3>1. /\ pc[a] \in Busy /\ g = work[a].fp.gen /\ work'[a].token = work[a].token
          /\ g # 0
      BY <1>0, <2>2, OwnTokenStays DEF Past
    <3>2. CASE Left(g)
      BY <3>1, <3>2, LeftStays
    <3>3. CASE pc'[a] = "consume"
      <4>1. pc[a] \in {"verify", "destroy"} /\ UNCHANGED media
        BY <3>3, WhoArrives DEF Verify, Destroy, GoTo, Retain, Over, MoveBack, At
      <4>2. media'.gen # g
        BY <3>1, <4>1 DEF LeftInv, Apart, Taken
      <4>3. ASSUME NEW b \in Actors, pc'[b] \in Taken PROVE FALSE
        BY <3>3, <4>1, <4>3, OthersStay, OneLive DEF Taken, Held
      <4> QED
        BY <4>2, <4>3 DEF Left
    <3>4. CASE pc'[a] \in {"companions", "clean", "drop", "finish"}
      <4>1. pc[a] \in Past
        BY <3>4, WhoArrives DEF Consume, Settle, Clean, Look, Drop, At, Past
      <4> QED
        BY <3>1, <3>2, <4>1 DEF LeftInv, HasLeft
    <3>5. CASE pc'[a] = "settle"
      <4>1. pc[a] = "mark" /\ Owns(a)
        BY <3>5, WhoArrives DEF Mark, Over, GoTo, At
      <4> QED
        BY <3>1, <3>2, <4>1 DEF LeftInv, HasLeft
    <3>6. CASE pc'[a] = "mark" /\ journal'.token = work[a].token
      <4>1. CASE Companions(a)
        BY <3>1, <3>2, <4>1 DEF Companions, At, LeftInv, HasLeft, Past
      <4>2. CASE Recover(a) \/ Original(a)
        <5>1. pc[a] \in {"recover", "original"} /\ UNCHANGED <<journal, media>>
          BY <4>2 DEF Recover, Original, At, disk
        <5>2. media.gen # g
          <6>1. CASE Recover(a)
            <7>1. claim[work[a].token].gen = g
              BY <3>1, <3>6, <6>1 DEF Recover, Prepared, GoTo, Over
            <7> QED
              BY <3>1, <7>1, FileFacts, TokenOfMine DEF LeftInv, ClaimLeft, There
          <6>2. CASE Original(a)
            BY <3>1, <3>6, <6>2 DEF Original, GoTo, Over
          <6> QED
            BY <4>2, <6>1, <6>2
        <5>3. Owns(a)
          BY <3>6, <5>1 DEF Owns
        <5> QED
          BY <3>2, <5>1, <5>2, <5>3, ReplayFindsItLeft
      <4> QED
        BY <2>2, <3>6, <4>1, <4>2, WhoArrives
    <3> QED
      BY <3>1, <3>3, <3>4, <3>5, <3>6 DEF Past
  <2> QED
    BY <2>1, <2>2
<1> QED
  BY <1>1, <1>2, <1>3, <1>4, <1>5 DEF LeftInv, ClaimLeft

\* Everybody else puts only new files at the path, and takes away what is there.
LEMMA NewMediaKeepsLeft ==
  ASSUME RemovalInv, Typed, LeftInv, UNCHANGED <<pc, work, claim, journal>>,
         media' \in {media, NoFile, New(nextGen)}
  PROVE  LeftInv'
<1>1. New(nextGen).gen = nextGen /\ nextGen > 1 /\ nextGen \in Nat
  BY LibraryAssumption DEF New, Typed
<1>2. ASSUME NEW g \in 1..(nextGen - 1), Left(g) PROVE Left(g)'
  BY <1>1, <1>2, FileFacts DEF Left
<1>3. ASSUME NEW f \in Existing PROVE f.gen \in 1..(nextGen - 1)
  BY FileFacts
<1>4. ClaimLeft'
  BY <1>1, FileFacts DEF LeftInv, ClaimLeft, Typed, There
<1>5. CommitLeft'
  <2>1. journal.committed => journal.fp.gen \in 1..(nextGen - 1)
    <3>1. NoIntent.committed = FALSE
      BY DEF NoIntent
    <3> QED
      BY <3>1 DEF RemovalInv, JournalGiven, Typed
  <2> QED
    BY <1>2, <2>1 DEF LeftInv, CommitLeft, Left
<1>6. ASSUME NEW a \in Actors PROVE Apart(a)' /\ HasLeft(a)'
  <2>1. pc[a] \in Busy => work[a].fp.gen \in 1..(nextGen - 1)
    BY DEF RemovalInv, Given, Typed
  <2>2. pc[a] \in Taken => work[a].moved.gen \in 1..(nextGen - 1)
    BY <1>3 DEF Typed
  <2>3. Apart(a)'
    BY <1>1, <2>1, <2>2, FileFacts DEF LeftInv, Apart, Taken, Busy, Steps
  <2>4. HasLeft(a)'
    BY <1>2, <2>1 DEF LeftInv, HasLeft, Left, Owns, Past, Busy, Steps
  <2> QED
    BY <2>3, <2>4
<1> QED
  BY <1>4, <1>5, <1>6 DEF LeftInv

LEMMA InitLeft == Init => LeftInv
<1> SUFFICES ASSUME Init PROVE LeftInv
  OBVIOUS
<1>1. /\ \A t \in Tokens : claim[t] = NoFile
      /\ journal.committed = FALSE /\ \A a \in Actors : pc[a] = "idle"
  BY DEF Init, InitFiles, InitRemoval, NoIntent
<1> QED
  BY <1>1 DEF LeftInv, ClaimLeft, CommitLeft, Apart, HasLeft, Taken, Past, There

LEMMA NextKeepsLeft ==
  ASSUME RemovalInv, Typed, ClaimInv, LeftInv, [Next]_vars PROVE LeftInv'
<1>1. CASE (World /\ UNCHANGED <<acts, loads>>) \/ UNCHANGED vars
  BY <1>1, NewMediaKeepsLeft
  DEF World, StrangerPuts, StrangerTakes, Capture, Author, acts, vars, disk
<1>2. ASSUME NEW d \in Installers, Loads(d), UNCHANGED acts PROVE LeftInv'
  <2>1. UNCHANGED <<claim, journal>> /\ media' \in {media, New(nextGen)}
    BY <1>2 DEF Loads, Installs, Choose, PublishMedia, Confirm, PublishRecord, SweepLooks,
       SweepRetires, Dies, Untouched
  <2> QED
    BY <1>2, <2>1, NewMediaKeepsLeft DEF acts
<1> QED
  BY <1>1, <1>2, ActsKeepLeft DEF Next

\* The stores forget a wallpaper only once it has left its path for good: no replay, however
\* stale the journal it read, cleans a removal that its owner may yet undo
\* (original_generation_state, mark_committed).
THEOREM NothingCleanedEarly == Spec => []CleanedOnlyAfterItLeft
<1>1. LeftInv => CleanedOnlyAfterItLeft
  BY DEF LeftInv, HasLeft, Past, Left, CleanedOnlyAfterItLeft
<1> QED
  BY <1>1, InitRemovalInv, NextKeeps, InitTyped, NextTyped, InitClaims, NextKeepsClaims,
     InitLeft, NextKeepsLeft, PTL DEF Spec

-----------------------------------------------------------------------------
(* Whose still it is.                                                      *)

\* From the rename to the end of the companions, and at a replay's last look, the path's locks
\* keep every download away from the path.
Strangers(a) ==
  pc[a] \in Taken \cup {"consume", "companions", "drop"} => media.gen \notin installed

LEMMA ActsKeepStrangers ==
  ASSUME RemovalInv, Typed, PathInv, NEW a \in Actors, Acts(a), \A b \in Actors : Strangers(b)
  PROVE  \A b \in Actors : Strangers(b)'
<1> a \in DOMAIN pc
  BY DEF RemovalInv, Shaped
<1>1. UNCHANGED installed /\ 0 \notin installed
  BY WhoTouches, LibraryAssumption DEF Typed
<1>2. ASSUME NEW b \in Actors, b # a PROVE Strangers(b)'
  <2> SUFFICES ASSUME pc[b] \in Taken \cup {"consume", "companions", "drop"}
               PROVE  media'.gen \notin installed
    BY <1>1, <1>2, OthersStay DEF Strangers
  <2>1. pathLock = {b}
    BY DEF PathInv, HoldsPath, Locked, Held, Taken
  <2>2. UNCHANGED media
    BY <1>2, <2>1, MediaSteps DEF PathInv, HoldsPath, Locked, Held
  <2> QED
    BY <2>2 DEF Strangers
<1>3. Strangers(a)'
  <2> SUFFICES ASSUME pc'[a] \in Taken \cup {"consume", "companions", "drop"}
               PROVE  media'.gen \notin installed
    BY <1>1 DEF Strangers
  <2>1. CASE pc'[a] = "verify"
    BY <1>1, <2>1, WhoArrives, FileFacts DEF Rename, GoTo
  <2>2. CASE pc'[a] = "drop"
    <3>1. media = NoFile /\ UNCHANGED media
      BY <2>2, WhoArrives DEF Look, GoTo, Occupied, There, disk
    <3> QED
      BY <1>1, <3>1, FileFacts
  <2>3. CASE pc'[a] \in {"destroy", "restore", "consume", "companions"}
    <3>1. pc[a] \in Taken \cup {"consume"} /\ UNCHANGED media
      BY <2>3, WhoArrives
      DEF Verify, Destroy, Consume, GoTo, Retain, Over, MoveBack, At, Taken
    <3> QED
      BY <3>1 DEF Strangers
  <2> QED
    BY <2>1, <2>2, <2>3 DEF Taken
<1> QED
  BY <1>2, <1>3

LEMMA NextKeepsStrangers ==
  ASSUME RemovalInv, Typed, PathInv, [Next]_vars, \A b \in Actors : Strangers(b)
  PROVE  \A b \in Actors : Strangers(b)'
<1>1. 0 \notin installed /\ nextGen \notin installed /\ nextGen \in Nat
  BY LibraryAssumption DEF Typed
<1>2. ASSUME UNCHANGED <<pc, installed>>, media' \in {media, NoFile, New(nextGen)}
      PROVE  \A b \in Actors : Strangers(b)'
  BY <1>1, <1>2, FileFacts DEF Strangers, New
<1>3. CASE (World /\ UNCHANGED <<acts, loads>>) \/ UNCHANGED vars
  BY <1>2, <1>3
  DEF World, StrangerPuts, StrangerTakes, Capture, Author, acts, vars, disk, ghosts
<1>4. ASSUME NEW d \in Installers, Loads(d), UNCHANGED acts PROVE \A b \in Actors : Strangers(b)'
  <2>1. CASE UNCHANGED <<media, installed>>
    BY <1>2, <1>4, <2>1 DEF acts
  <2>2. CASE pathLock = {}
    BY <1>4, <2>2 DEF PathInv, HoldsPath, Locked, Held, Taken, Strangers, acts
  <2> QED
    BY <1>4, <2>1, <2>2 DEF Loads, Installs, Choose, PublishMedia, Confirm, PublishRecord,
       SweepLooks, SweepRetires, Dies, Leaving
<1> QED
  BY <1>3, <1>4, ActsKeepStrangers DEF Next

\* A still made for a download at the path is not taken from it by an older removal, live or
\* replayed (discard_pairing_artifacts, discard_proven_companions).
THEOREM StillsStay == Spec => []StillsOfTheLiving
<1>1. (\A a \in Actors : Strangers(a)) => StillsOfTheLiving
  BY DEF Strangers, StillsOfTheLiving
<1>2. Init => \A a \in Actors : Strangers(a)
  BY DEF Init, InitRemoval, Strangers, Taken
<1>3. RemovalInv /\ Typed /\ PathInv /\ (\A a \in Actors : Strangers(a)) /\ [Next]_vars
        => (\A a \in Actors : Strangers(a))'
  BY NextKeepsStrangers
<1> QED
  BY <1>1, <1>2, <1>3, InitRemovalInv, NextKeeps, InitTyped, NextTyped, InitPath, NextKeepsPath,
     PTL DEF Spec

-----------------------------------------------------------------------------
(* A destroyed file's record.                                              *)

\* A download between its rename and its record.
Confirming(d) == dpc[d] \in {"published", "confirmed"}

\* The steps of a removal that may still put the withdrawn record back.
Reviving == {"check", "rename", "verify", "destroy", "restore", "putback"}

\* Nothing of generation g is left, nor anything that could bring its record back.
Done(g) ==
  /\ Left(g) /\ record.gen # g
  /\ \A t \in Tokens : claim[t].gen # g
  /\ \A d \in Installers : Confirming(d) => file[d].gen # g
  /\ \A a \in Actors : pc[a] \in Reviving => recClaim[work[a].token].gen # g

\* A Delete has withdrawn the record before it takes the media ...
Withdrawn(a) == pc[a] \in Reviving \ {"putback"} /\ ~work[a].trashed => record = NoFile

\* ... and no record binds the file a replay would destroy.
ClaimUnbound ==
  \A t \in Tokens : There(claim[t]) =>
    /\ claim[t].gen = journal.fp.gen => record.gen # claim[t].gen
    /\ \A d \in Installers : Confirming(d) => file[d].gen # claim[t].gen

GoneInv ==
  /\ ClaimUnbound /\ \A f \in gone : Done(f.gen)
  /\ \A a \in Actors : Withdrawn(a)

LEMMA RecordSteps ==
  ASSUME RemovalInv, Typed, ClaimInv, NEW a \in Actors, Acts(a)
  PROVE  \/ record' \in {record, NoFile}
         \/ /\ pc[a] = "putback" /\ record' = recClaim[work[a].token]
            /\ There(recClaim[work[a].token])
            /\ journal.token = work[a].token /\ claim[journal.token] = NoFile
<1>1. CASE PutBack(a)
  <2>1. pc[a] = "putback" /\ work[a].token \in Tokens /\ claim[work[a].token] = NoFile
    BY <1>1, TokenOfMine DEF PutBack, At, Busy, Steps, ClaimInv, ClaimSpent, NoClaim
  <2>2. \/ UNCHANGED record
        \/ There(recClaim[work[a].token]) /\ record' = recClaim[work[a].token]
    BY <1>1 DEF PutBack
  <2> QED
    BY <2>1, <2>2 DEF ClaimInv, Traced
<1>2. CASE ~PutBack(a)
  BY <1>2, WhoTouches DEF Withdraw, Consume, Settle
<1> QED
  BY <1>1, <1>2

\* The claim of the intent is the only one that holds anything.
LEMMA OneClaim ==
  ASSUME ClaimInv, NEW t \in Tokens, NEW u \in Tokens, There(claim[t]),
         There(claim[u]) \/ There(recClaim[u])
  PROVE  t = u /\ journal.token = t
  BY DEF ClaimInv, Traced

LEMMA DoneStays ==
  ASSUME RemovalInv, Typed, ClaimInv, NEW a \in Actors, Acts(a), UNCHANGED loads,
         NEW g, g # 0, Done(g)
  PROVE  Done(g)'
<1> a \in DOMAIN pc /\ NoFile.gen = 0
  BY FileFacts DEF RemovalInv, Shaped
<1>1. Left(g)'
  BY LeftStays DEF Done
<1>2. record'.gen # g
  BY RecordSteps DEF Done, Reviving
<1>3. ASSUME NEW t \in Tokens PROVE claim'[t].gen # g
  <2>1. CASE claim'[t] \in {claim[t], NoFile}
    BY <2>1 DEF Done
  <2>2. CASE Rename(a) /\ t = work[a].token
    <3>1. claim'[t] \in {claim[t], media}
      BY <2>2 DEF Rename, Typed
    <3> QED
      BY <3>1 DEF Done, Left
  <2> QED
    BY <2>1, <2>2, ClaimSteps
<1>4. \A d \in Installers : Confirming(d)' => file'[d].gen # g
  BY DEF Done, Confirming, loads
<1>5. ASSUME NEW b \in Actors, pc'[b] \in Reviving PROVE recClaim'[work'[b].token].gen # g
  <2>1. CASE b # a
    <3>1. pc[b] \in Reviving /\ work'[b] = work[b] /\ work[b].token \in Tokens
      BY <1>5, <2>1, OthersStay, TokenOfMine DEF Reviving, Busy, Steps
    <3>2. ~(pc[a] = "withdraw" /\ work[b].token = work[a].token)
      BY <2>1, <3>1 DEF RemovalInv, Alone, Held, Reviving
    <3>3. recClaim'[work[b].token] \in {recClaim[work[b].token], NoFile}
      BY <3>1, <3>2, ClaimSteps
    <3> QED
      BY <3>1, <3>3 DEF Done
  <2>2. CASE b = a
    <3>1. ~Replay(a) /\ work'[a].token = work[a].token /\ pc[a] \in Busy /\ work[a].token \in Tokens
      <4>1. ~Replay(a)
        BY <1>5, <2>2 DEF Replay, GoTo, Reviving
      <4> QED
        BY <1>5, <2>2, <4>1, OwnTokenStays, TokenOfMine DEF Reviving
    <3>2. CASE pc'[a] = "check"
      <4>1. pc[a] = "withdraw" /\ recClaim[work[a].token] = NoFile
        BY <3>2, WhoArrives DEF Withdraw, At, ClaimInv, RecordSpent
      <4>2. \/ UNCHANGED recClaim
            \/ recClaim' = [recClaim EXCEPT ![work[a].token] = record]
        BY <3>2, WhoArrives DEF Withdraw
      <4> QED
        BY <2>2, <3>1, <4>1, <4>2 DEF Done, Typed
    <3>3. CASE pc'[a] \in Reviving \ {"check"} /\ ~Original(a)
      <4>1. pc[a] \in Reviving /\ UNCHANGED recClaim
        BY <3>3, WhoArrives DEF Check, Rename, Verify, Restore, Destroy, At, disk, Reviving
      <4> QED
        BY <2>2, <3>1, <4>1 DEF Done
    <3>4. CASE pc'[a] = "putback" /\ Original(a)
      <4>1. media = work[a].fp /\ UNCHANGED recClaim
        BY <3>4 DEF Original, GoTo, Over, disk
      <4>2. There(recClaim[work[a].token]) => recClaim[work[a].token] = media
        <5>1. journal # NoIntent \/ ~There(recClaim[work[a].token])
          BY <3>1, NoIntentNoClaim DEF There
        <5> QED
          BY <3>1, <4>1, <5>1 DEF ClaimInv, Traced, SameIntent
      <4> QED
        BY <2>2, <3>1, <4>1, <4>2 DEF Done, Left, There
    <3> QED
      BY <1>5, <2>2, <3>2, <3>3, <3>4, WhoArrives DEF Original, GoTo, Over, Reviving
  <2> QED
    BY <2>1, <2>2
<1> QED
  BY <1>1, <1>2, <1>3, <1>4, <1>5 DEF Done

\* Whoever destroys the claimed file leaves nothing of it.
LEMMA DestroyedIsDone ==
  ASSUME RemovalInv, Typed, PathInv, ClaimInv, LeftInv, GoneInv, NEW a \in Actors,
         Destroy(a) \/ Recover(a), UNCHANGED loads, ~UNCHANGED gone,
         NEW g, g = claim[work[a].token].gen
  PROVE  Done(g)'
<1> DEFINE t == work[a].token
<1>0. a \in DOMAIN pc /\ NoFile.gen = 0 /\ t \in Tokens /\ (pc[a] \in {"destroy", "recover"})
  BY FileFacts, TokenOfMine DEF RemovalInv, Shaped, Destroy, Recover, At, Busy, Steps
<1>1. /\ claim' = [claim EXCEPT ![t] = NoFile] /\ pc'[a] \notin Reviving
      /\ UNCHANGED <<media, record, recClaim>>
      /\ \A b \in Actors : b # a => pc'[b] = pc[b] /\ work'[b] = work[b]
      /\ gone' = gone \cup {claim[t]}
  BY DEF Destroy, Recover, GoTo, Over, Reviving, RemovalInv, Shaped
<1>2. g = work[a].fp.gen /\ g # 0 /\ There(claim[t]) /\ Owns(a)
  <2>1. g = work[a].fp.gen
    BY <1>0, <1>1 DEF Destroy, Recover, Prepared, At, RemovalInv, ClaimKnown
  <2>2. g # 0
    BY <1>0, <2>1, LibraryAssumption DEF RemovalInv, Given, Typed, Busy, Steps
  <2> QED
    BY <1>0, <2>1, <2>2 DEF There, ClaimInv, Traced, Owns
<1>3. Left(g)'
  <2>1. media.gen # g
    BY <1>0, <1>2 DEF LeftInv, ClaimLeft
  <2>2. ASSUME NEW b \in Actors, pc'[b] \in Taken PROVE FALSE
    <3>1. b # a /\ pc[b] \in Taken
      BY <1>1, <2>2 DEF Taken, Reviving
    <3>2. pc[a] = "destroy" => FALSE
      BY <3>1, OneLive DEF Taken, Held
    <3>3. work[b].token = t
      BY <1>2, <3>1 DEF ClaimInv, Announced, Owns, Taken, Held
    <3> QED
      BY <1>0, <3>1, <3>2, <3>3 DEF RemovalInv, Alone, Taken, Held
  <2> QED
    BY <1>1, <2>1, <2>2 DEF Left
<1>4. record'.gen # g
  <2>1. CASE pc[a] = "destroy"
    BY <1>0, <1>1, <1>2, <2>1 DEF GoneInv, Withdrawn, Reviving, ClaimInv, ClaimSpent
  <2>2. CASE pc[a] = "recover"
    <3>1. journal # NoIntent
      BY <1>0, <1>2, NoIntentNoClaim DEF There
    <3>2. claim[t].gen = journal.fp.gen
      BY <1>2, <3>1 DEF ClaimInv, SameIntent, Owns
    <3> QED
      BY <1>0, <1>1, <1>2, <3>2 DEF GoneInv, ClaimUnbound
  <2> QED
    BY <1>0, <2>1, <2>2
<1>5. ASSUME NEW u \in Tokens PROVE claim'[u].gen # g
  <2>1. claim'[u] = NoFile
    BY <1>0, <1>1, <1>2, OneClaim DEF There, Typed
  <2> QED
    BY <1>0, <1>2, <2>1
<1>6. \A d \in Installers : Confirming(d)' => file'[d].gen # g
  BY <1>0, <1>2 DEF GoneInv, ClaimUnbound, Confirming, loads
<1>7. ASSUME NEW b \in Actors, pc'[b] \in Reviving PROVE recClaim'[work'[b].token].gen # g
  <2>1. b # a /\ pc[b] \in Reviving /\ work'[b] = work[b] /\ work[b].token \in Tokens
    BY <1>1, <1>7, TokenOfMine DEF Reviving, Busy, Steps
  <2>2. CASE There(recClaim[work[b].token])
    <3>1. work[b].token = t
      BY <1>0, <1>2, <2>1, <2>2, OneClaim
    <3>2. pc[b] # "putback"
      BY <1>2, <2>1, <3>1 DEF ClaimInv, ClaimSpent, NoClaim, There
    <3> QED
      BY <1>0, <2>1, <3>1, <3>2 DEF RemovalInv, Alone, Reviving, Held
  <2>3. CASE ~There(recClaim[work[b].token])
    BY <1>0, <1>1, <1>2, <2>1, <2>3 DEF There
  <2> QED
    BY <2>2, <2>3
<1> QED
  BY <1>3, <1>4, <1>5, <1>6, <1>7 DEF Done

LEMMA WithdrawnKept ==
  ASSUME RemovalInv, Typed, ClaimInv, GoneInv, NEW a \in Actors, Acts(a), NEW b \in Actors
  PROVE  Withdrawn(b)'
<1> a \in DOMAIN pc /\ a \in DOMAIN work /\ work[a] \in Job
  BY DEF RemovalInv, Shaped, Typed
<1> SUFFICES ASSUME pc'[b] \in Reviving \ {"putback"}, ~work'[b].trashed PROVE record' = NoFile
  BY DEF Withdrawn
<1>1. CASE b # a
  <2>1. pc[b] \in Reviving \ {"putback"} /\ work'[b] = work[b] /\ record = NoFile
    BY <1>1, OthersStay DEF GoneInv, Withdrawn
  <2>2. ~(pc[a] = "putback" /\ journal.token = work[a].token)
    BY <1>1, <2>1 DEF RemovalInv, Alone, Reviving, Held, ClaimInv, Announced
  <2> QED
    BY <2>1, <2>2, RecordSteps
<1>2. CASE b = a /\ pc'[a] = "check"
  <2>1. Withdraw(a) /\ work' = work
    BY <1>2, WhoArrives DEF Withdraw, Retain, Over, GoTo
  <2>2. ~work[a].trashed
    BY <1>2, <2>1
  <2> QED
    BY <1>2, <2>1, <2>2 DEF Withdraw, GoTo
<1>3. CASE b = a /\ pc'[a] # "check"
  <2>1. pc[a] \in Reviving \ {"putback"} /\ UNCHANGED record
    BY <1>3, WhoArrives DEF Check, Rename, Verify, Destroy, At, disk, Reviving
  <2>2. work'[a].trashed = work[a].trashed
    BY <1>3, WhoArrives DEF Check, Rename, Verify, Destroy, Retain, Over, GoTo, Job, Reviving
  <2> QED
    BY <1>3, <2>1, <2>2 DEF GoneInv, Withdrawn
<1> QED
  BY <1>1, <1>2, <1>3

LEMMA UnboundKept ==
  ASSUME RemovalInv, Typed, PathInv, ClaimInv, GoneInv, NEW a \in Actors, Acts(a), UNCHANGED loads
  PROVE  ClaimUnbound'
<1> SUFFICES ASSUME NEW t \in Tokens, There(claim'[t])
             PROVE  /\ claim'[t].gen = journal'.fp.gen => record'.gen # claim'[t].gen
                    /\ \A d \in Installers : Confirming(d)' => file[d].gen # claim'[t].gen
  BY DEF ClaimUnbound, loads, There
<1>1. NoFile.gen = 0 /\ NoFile \in FileOrNone /\ \A f \in FileOrNone : There(f) => f.gen # 0
  BY FileFacts, LibraryAssumption DEF Existing
<1>2. CASE claim'[t] \in {claim[t], NoFile}
  <2>1. claim'[t] = claim[t] /\ There(claim[t]) /\ claim[t].gen # 0
    BY <1>1, <1>2 DEF There, Typed
  <2>2. journal.token = t /\ journal'.token = t
    BY <2>1, TracedKept DEF ClaimInv, Traced, There
  <2>3. journal'.fp = journal.fp
    <3>1. journal # NoIntent /\ journal' # NoIntent
      BY <2>2, Records, LibraryAssumption DEF Tokens
    <3> QED
      BY <3>1, JournalSteps DEF Typed
  <2>4. record' \in {record, NoFile}
    BY <2>1, <2>2, RecordSteps DEF There
  <2> QED
    BY <1>1, <2>1, <2>3, <2>4 DEF GoneInv, ClaimUnbound, Confirming, loads
<1>3. CASE Rename(a) /\ t = work[a].token /\ pc[a] = "rename" /\ claim'[t] \notin {claim[t], NoFile}
  <2>1. claim'[t] = media /\ ~work[a].trashed /\ UNCHANGED record
    BY <1>3 DEF Rename, Typed
  <2>2. record = NoFile
    BY <1>3, <2>1 DEF GoneInv, Withdrawn, Reviving
  <2>3. pathLock = {a}
    BY <1>3 DEF PathInv, HoldsPath, Locked, Held
  <2>4. \A d \in Installers : ~Confirming(d)'
    BY <2>3, LibraryAssumption DEF PathInv, Installing, Confirming, loads
  <2>5. media.gen # 0
    BY <1>1, <2>1 DEF Typed
  <2> QED
    BY <1>1, <2>1, <2>2, <2>4, <2>5
<1> QED
  BY <1>2, <1>3, ClaimSteps

LEMMA ActsKeepGone ==
  ASSUME RemovalInv, Typed, PathInv, ClaimInv, LeftInv, GoneInv, NEW a \in Actors, Acts(a),
         UNCHANGED loads
  PROVE  GoneInv'
<1>1. ASSUME NEW f \in gone' PROVE Done(f.gen)'
  <2>1. CASE f \in gone
    <3>1. f.gen # 0
      BY <2>1, FileFacts, LibraryAssumption DEF Typed
    <3> QED
      BY <2>1, <3>1, DoneStays DEF GoneInv
  <2>2. CASE f \notin gone
    <3>1. Destroy(a) \/ Recover(a)
      BY <2>2, WhoTouches
    <3>2. f = claim[work[a].token]
      BY <2>2, <3>1 DEF Destroy, Recover
    <3> QED
      BY <2>2, <3>1, <3>2, DestroyedIsDone
  <2> QED
    BY <2>1, <2>2
<1> QED
  BY <1>1, WithdrawnKept, UnboundKept DEF GoneInv

LEMMA LoadsKeepGone ==
  ASSUME RemovalInv, Typed, PathInv, GoneInv, NEW d \in Installers, Loads(d), UNCHANGED acts
  PROVE  GoneInv'
<1>0. nextGen \in Nat /\ NoFile.gen = 0 /\ New(nextGen).gen = nextGen
  BY FileFacts, LibraryAssumption DEF Typed, New
<1>1. /\ UNCHANGED <<claim, recClaim, journal, gone, pc, work>>
      /\ media' \in {media, New(nextGen)}
      /\ record' \in {record, NoFile} \/ (record' = file[d] /\ dpc[d] = "confirmed")
      /\ \A e \in Installers : Confirming(e)' =>
           file'[e] = New(nextGen) \/ (Confirming(e) /\ file'[e] = file[e])
  <2>1. /\ UNCHANGED <<claim, recClaim, journal, gone, pc, work>>
        /\ media' \in {media, New(nextGen)}
    BY DEF Loads, Installs, Choose, PublishMedia, Confirm, PublishRecord, SweepLooks, SweepRetires,
       Dies, Untouched, acts
  <2>2. record' \in {record, NoFile} \/ (record' = file[d] /\ dpc[d] = "confirmed")
    BY DEF Loads, Installs, Choose, PublishMedia, Confirm, PublishRecord, SweepLooks, SweepRetires,
       Dies, In
  <2>3. \A e \in Installers : Confirming(e)' =>
          file'[e] = New(nextGen) \/ (Confirming(e) /\ file'[e] = file[e])
    BY DEF Loads, Installs, Choose, PublishMedia, Confirm, PublishRecord, SweepLooks, SweepRetires,
       Dies, In, Turn, Leaving, Confirming, Typed
  <2> QED
    BY <2>1, <2>2, <2>3
<1>2. \A f \in FileOrNone : f.gen < nextGen
  BY <1>0, FileFacts
<1>3. ASSUME NEW f \in gone PROVE Done(f.gen)'
  <2> DEFINE g == f.gen
  <2>1. g # 0 /\ g < nextGen /\ Done(g)
    BY <1>0, FileFacts DEF Typed, GoneInv
  <2> HIDE DEF g
  <2>2. Left(g)'
    BY <1>0, <1>1, <2>1 DEF Done, Left
  <2>3. record'.gen # g
    BY <1>0, <1>1, <2>1 DEF Done, Confirming
  <2>4. \A e \in Installers : Confirming(e)' => file'[e].gen # g
    BY <1>0, <1>1, <2>1 DEF Done
  <2>5. Done(g)'
    BY <1>1, <2>1, <2>2, <2>3, <2>4 DEF Done
  <2> QED
    BY <2>5 DEF g
<1>4. ClaimUnbound'
  <2>1. \A t \in Tokens : claim[t].gen < nextGen /\ (There(claim[t]) => claim[t].gen # 0)
    BY <1>0, <1>2, FileFacts DEF Typed
  <2> QED
    BY <1>0, <1>1, <2>1 DEF GoneInv, ClaimUnbound, Confirming, There
<1>5. ASSUME NEW a \in Actors PROVE Withdrawn(a)'
  <2> SUFFICES ASSUME pc[a] \in Reviving \ {"putback"}, ~work[a].trashed PROVE record' = NoFile
    BY <1>1 DEF Withdrawn
  <2>1. pathLock = {a} /\ record = NoFile
    BY DEF PathInv, HoldsPath, Locked, Held, Reviving, GoneInv, Withdrawn
  <2>2. dpc[d] # "confirmed"
    BY <2>1, LibraryAssumption DEF PathInv, Installing
  <2> QED
    BY <1>1, <2>1, <2>2
<1> QED
  BY <1>1, <1>3, <1>4, <1>5 DEF GoneInv

LEMMA NextKeepsGone ==
  ASSUME RemovalInv, Typed, PathInv, ClaimInv, LeftInv, GoneInv, [Next]_vars PROVE GoneInv'
<1>1. CASE (World /\ UNCHANGED <<acts, loads>>) \/ UNCHANGED vars
  <2>0. nextGen \in Nat /\ NoFile.gen = 0 /\ New(nextGen).gen = nextGen
    BY FileFacts, LibraryAssumption DEF Typed, New
  <2>1. /\ UNCHANGED <<record, claim, recClaim, journal, gone, pc, work, dpc, file>>
        /\ media' \in {media, NoFile, New(nextGen)}
    BY <1>1 DEF World, StrangerPuts, StrangerTakes, Capture, Author, acts, loads, vars, disk, ghosts
  <2>2. ASSUME NEW f \in gone PROVE Done(f.gen)'
    <3> DEFINE g == f.gen
    <3>1. g # 0 /\ g < nextGen /\ Done(g)
      BY <2>0, FileFacts DEF Typed, GoneInv
    <3> HIDE DEF g
    <3>2. Done(g)'
      BY <2>0, <2>1, <3>1 DEF Done, Left, Confirming
    <3> QED
      BY <3>2 DEF g
  <2> QED
    BY <2>1, <2>2 DEF GoneInv, ClaimUnbound, Withdrawn, Confirming, There
<1> QED
  BY <1>1, ActsKeepGone, LoadsKeepGone DEF Next

LEMMA InitGone == Init => GoneInv
<1> SUFFICES ASSUME Init PROVE GoneInv
  OBVIOUS
<1>1. /\ \A t \in Tokens : claim[t] = NoFile
      /\ gone = {} /\ \A a \in Actors : pc[a] = "idle"
  BY DEF Init, InitFiles, InitRemoval
<1> QED
  BY <1>1 DEF GoneInv, ClaimUnbound, Withdrawn, Reviving, There

\* No record is ever left to speak for a file the application has destroyed, whichever of its
\* owner and the replays destroys it (_withdraw_download_authority, recover_removal_claim).
THEOREM RecordsLeaveFirst == Spec => []AuthorityLeavesFirst
<1>1. GoneInv => AuthorityLeavesFirst
  BY DEF GoneInv, Done, AuthorityLeavesFirst
<1> QED
  BY <1>1, InitRemovalInv, NextKeeps, InitTyped, NextTyped, InitPath, NextKeepsPath, InitClaims,
     NextKeepsClaims, InitLeft, NextKeepsLeft, InitGone, NextKeepsGone, PTL DEF Spec

-----------------------------------------------------------------------------
(* What the stores still say.                                              *)

Listed(q, s) == \E i \in 1..Len(q) : q[i] = s

\* A store that still has the path for the removed wallpaper is on the list of those left to
\* clean, as long as none has failed.
Forgetting(a) ==
  /\ pc[a] \in {"drop", "finish"} => work[a].todo = <<>>
  /\ pc[a] \in {"clean", "drop", "finish"} /\ ~work[a].failed =>
       \A s \in Stores : refs[s] = work[a].fp.gen => Listed(work[a].todo, s)

LEMMA ListedFacts ==
  /\ \A s : ~Listed(<<>>, s)
  /\ \A s \in Stores : Listed(Order, s)
  /\ \A q \in Seq(STRING) : \A s : q # <<>> /\ Listed(q, s) => s = Head(q) \/ Listed(Tail(q), s)
<1>1. \A s : ~Listed(<<>>, s)
  BY DEF Listed
<1>2. \A s \in Stores : Listed(Order, s)
  BY LibraryAssumption DEF Stores, Listed
<1>3. ASSUME NEW q \in Seq(STRING), NEW s, q # <<>>, Listed(q, s)
      PROVE  s = Head(q) \/ Listed(Tail(q), s)
  <2>1. PICK i \in 1..Len(q) : q[i] = s
    BY <1>3 DEF Listed
  <2>2. /\ Len(q) \in Nat /\ Head(q) = q[1] /\ Len(Tail(q)) = Len(q) - 1
        /\ \A j \in 1..Len(Tail(q)) : Tail(q)[j] = q[j + 1]
    BY <1>3, HeadTailProperties
  <2>3. CASE i = 1
    BY <2>1, <2>2, <2>3
  <2>4. CASE i # 1
    <3>1. i - 1 \in 1..Len(Tail(q)) /\ (i - 1) + 1 = i
      BY <2>1, <2>2, <2>4
    <3> QED
      BY <2>1, <2>2, <3>1 DEF Listed
  <2> QED
    BY <2>3, <2>4
<1> QED
  BY <1>1, <1>2, <1>3

LEMMA ActsKeepForgetting ==
  ASSUME RemovalInv, Typed, NEW a \in Actors, Acts(a), \A b \in Actors : Forgetting(b)
  PROVE  \A b \in Actors : Forgetting(b)'
<1> /\ a \in DOMAIN pc /\ a \in DOMAIN work /\ work[a] \in Job
    /\ work[a].todo \in Seq(STRING) /\ refs \in [Stores -> 0..MaxGens]
  BY JobUpdates DEF RemovalInv, Shaped, Typed
<1>0. \A b \in Actors : pc[b] \in Busy => work[b].fp.gen # 0
  BY LibraryAssumption DEF RemovalInv, Given, Typed
<1>1. \A s \in Stores : refs'[s] \in {refs[s], 0}
  BY WhoTouches DEF Clean
<1>2. ASSUME NEW b \in Actors, b # a PROVE Forgetting(b)'
  BY <1>0, <1>1, <1>2, OthersStay DEF Forgetting, Busy, Steps
<1> SUFFICES Forgetting(a)'
  BY <1>2
<1>3. CASE pc'[a] = "clean" /\ Settle(a)
  <2>1. \/ work' = [work EXCEPT ![a].todo = Order]
        \/ work' = [work EXCEPT ![a] = [@ EXCEPT !.todo = Order, !.failed = TRUE]]
    BY <1>3 DEF Settle
  <2>2. work'[a].todo = Order
    <3>1. CASE work' = [work EXCEPT ![a].todo = Order]
      BY <3>1 DEF Job
    <3>2. CASE work' = [work EXCEPT ![a] = [@ EXCEPT !.todo = Order, !.failed = TRUE]]
      BY <3>2 DEF Job
    <3> QED
      BY <2>1, <3>1, <3>2
  <2> QED
    BY <1>3, <2>2, ListedFacts DEF Forgetting
<1>4. CASE pc'[a] = "clean" /\ ~Settle(a)
  <2>1. Clean(a)
    BY <1>4, WhoArrives
  <2>2. /\ pc[a] = "clean" /\ work[a].todo # <<>> /\ work'[a].fp = work[a].fp
        /\ work'[a].todo = Tail(work[a].todo)
    BY <2>1 DEF Clean, At, Job
  <2>3. CASE work' = [work EXCEPT ![a] = [@ EXCEPT !.todo = Tail(work[a].todo), !.failed = TRUE]]
    <3>1. work'[a].failed = TRUE
      BY <2>3 DEF Job
    <3> QED
      BY <1>4, <3>1 DEF Forgetting
  <2>4. CASE /\ refs' = [refs EXCEPT ![Head(work[a].todo)] = 0]
             /\ work' = [work EXCEPT ![a].todo = Tail(@)]
    <3>1. work'[a].failed = work[a].failed
      BY <2>4 DEF Job
    <3>2. ASSUME NEW s \in Stores, ~work[a].failed, refs'[s] = work[a].fp.gen
          PROVE  Listed(Tail(work[a].todo), s)
      <4>1. refs'[s] # 0 /\ s # Head(work[a].todo) /\ refs[s] = work[a].fp.gen
        BY <1>0, <2>2, <2>4, <3>2 DEF Busy, Steps
      <4>2. Listed(work[a].todo, s)
        BY <2>2, <3>2, <4>1 DEF Forgetting
      <4> QED
        BY <2>2, <4>1, <4>2, ListedFacts
    <3> QED
      BY <1>4, <2>2, <3>1, <3>2 DEF Forgetting
  <2> QED
    BY <2>1, <2>3, <2>4 DEF Clean
<1>5. CASE pc'[a] \in {"drop", "finish"}
  <2>1. Look(a) \/ Drop(a)
    BY <1>5, WhoArrives
  <2>2. pc[a] \in {"clean", "drop"} /\ UNCHANGED refs /\ (pc[a] = "clean" => work[a].todo = <<>>)
    BY <2>1 DEF Look, Drop, At, disk
  <2>3. \/ UNCHANGED work
        \/ \E v \in BOOLEAN : work' = [work EXCEPT ![a].failed = v] /\ (work[a].failed => v)
    <3>1. CASE Drop(a)
      BY <3>1 DEF Drop
    <3>2. CASE Look(a)
      <4> DEFINE v == work[a].failed \/ (still # 0 /\ still = work[a].proof)
      <4>1. v \in BOOLEAN /\ (work[a].failed => v)
        OBVIOUS
      <4>2. UNCHANGED work \/ work' = [work EXCEPT ![a].failed = v]
        BY <3>2 DEF Look
      <4> HIDE DEF v
      <4> QED
        BY <4>1, <4>2
    <3> QED
      BY <2>1, <3>1, <3>2
  <2>4. /\ work'[a].todo = work[a].todo /\ work'[a].fp = work[a].fp
        /\ work[a].failed => work'[a].failed
    BY <2>3 DEF Job
  <2> QED
    BY <1>5, <2>2, <2>4 DEF Forgetting
<1>6. CASE pc'[a] \notin {"clean", "drop", "finish"}
  BY <1>6 DEF Forgetting
<1> QED
  BY <1>3, <1>4, <1>5, <1>6

LEMMA NextKeepsForgetting ==
  ASSUME RemovalInv, Typed, LeftInv, [Next]_vars, \A b \in Actors : Forgetting(b)
  PROVE  \A b \in Actors : Forgetting(b)'
<1>1. CASE UNCHANGED <<pc, work, refs>>
  BY <1>1 DEF Forgetting
<1>2. CASE Author /\ UNCHANGED acts
  <2>1. UNCHANGED <<pc, work>> /\ \A s \in Stores : refs'[s] = media.gen
    BY <1>2 DEF Author, acts
  <2>2. \A b \in Actors : pc[b] \in {"clean", "drop", "finish"} => media.gen # work[b].fp.gen
    BY DEF LeftInv, HasLeft, Past, Left
  <2> QED
    BY <2>1, <2>2 DEF Forgetting
<1>3. CASE (World /\ UNCHANGED <<acts, loads>>) \/ UNCHANGED vars
  BY <1>1, <1>2, <1>3 DEF World, StrangerPuts, StrangerTakes, Capture, acts, vars, disk
<1>4. ASSUME NEW d \in Installers, Loads(d), UNCHANGED acts PROVE \A b \in Actors : Forgetting(b)'
  BY <1>1, <1>4 DEF Loads, Installs, Choose, PublishMedia, Confirm, PublishRecord, SweepLooks,
     SweepRetires, Dies, Untouched, acts
<1> QED
  BY <1>3, <1>4, ActsKeepForgetting DEF Next

\* Who cleans up after a removal drops its intent only once no store refers to what was removed:
\* a favourite, an assignment or a playlist entry that could not be written is left to the next
\* replay, and none that is made meanwhile is for the removed wallpaper (_cleanup_removed_item).
THEOREM NoReferenceDangles == Spec => NothingDangles
<1> DEFINE Kept == \A b \in Actors : Forgetting(b)
           Drops == \A a \in Actors :
                      /\ pc[a] \in {"clean", "finish"} /\ pc'[a] = "idle"
                      /\ Owns(a) /\ journal' = NoIntent
                      => \A s \in Stores : refs[s] # work[a].fp.gen
<1>1. Init => Kept
  BY DEF Init, InitRemoval, Forgetting
<1>2. RemovalInv /\ Typed /\ LeftInv /\ Kept /\ [Next]_vars => Kept'
  BY NextKeepsForgetting
<1>3. RemovalInv /\ Typed /\ Kept /\ [Next]_vars => Drops
  <2> SUFFICES ASSUME RemovalInv, Typed, Kept, [Next]_vars, NEW a \in Actors,
                      pc[a] \in {"clean", "finish"}, pc'[a] = "idle", Owns(a), journal' = NoIntent
               PROVE  \A s \in Stores : refs[s] # work[a].fp.gen
    OBVIOUS
  <2>1. journal # NoIntent
    BY Records, LibraryAssumption, TokenOfMine DEF Owns, Busy, Steps, Tokens
  <2>2. Acts(a)
    <3>1. CASE UNCHANGED pc
      BY <3>1
    <3>2. ~UNCHANGED pc => \E b \in Actors : Acts(b)
      BY DEF Next, acts, vars
    <3> QED
      BY <3>1, <3>2, OthersStay
  <2>3. Finish(a)
    BY <2>1, <2>2, WhoTouches DEF Insert, Cancel, Mark, At
  <2>4. ~work[a].failed /\ (pc[a] = "finish" \/ work[a].todo = <<>>)
    BY <2>1, <2>3 DEF Finish, At, disk
  <2> QED
    BY <2>4, ListedFacts DEF Forgetting
<1> HIDE DEF Kept
<1>4. RemovalInv /\ Typed /\ Kept /\ [Next]_vars => [Drops]_vars
  BY <1>3
<1> QED
  BY <1>1, <1>2, <1>4, InitRemovalInv, NextKeeps, InitTyped, NextTyped, InitClaims,
     NextKeepsClaims, InitLeft, NextKeepsLeft, PTL DEF Spec, NothingDangles

-----------------------------------------------------------------------------
(* What becomes of each file.                                              *)

\* A file in the trash is nowhere else, and there once; a removal that looks at what it moved
\* there finds it there.
Aside ==
  /\ \A f \in trash : /\ f.gen # media.gen
                      /\ \A h \in trash : h.gen = f.gen => h = f
                      /\ \A t \in Tokens : claim[t].gen # f.gen
  /\ \A a \in Actors : pc[a] = "verify" /\ work[a].trashed => work[a].moved \in trash

\* A file moved back is the one the step moved, and its claim is empty then.
LEMMA MovesBack ==
  ASSUME RemovalInv, Typed, ClaimInv, Aside, NEW a \in Actors, Acts(a), MoveBack(a),
         pc[a] \in {"verify", "restore"}
  PROVE  /\ work[a].moved \in Existing /\ media = NoFile /\ media'.gen = work[a].moved.gen
         /\ IF work[a].trashed
            THEN /\ work[a].moved \in trash /\ trash' = trash \ {work[a].moved}
                 /\ UNCHANGED claim
            ELSE /\ claim[work[a].token] = work[a].moved /\ UNCHANGED trash
                 /\ \A t \in Tokens : claim'[t] = NoFile
<1>1. work[a].moved \in Existing /\ work[a].token \in Tokens
  BY TokenOfMine DEF Typed, Taken, Busy, Steps
<1>2. media = NoFile /\ media'.gen = work[a].moved.gen
  BY <1>1, FileFacts DEF MoveBack, There
<1>3. CASE work[a].trashed
  BY <1>1, <1>2, <1>3 DEF MoveBack, Aside, ClaimInv, ClaimSpent
<1>4. CASE ~work[a].trashed
  <2>1. claim[work[a].token] = work[a].moved
    BY <1>4 DEF ClaimInv, ClaimSpent
  <2>2. claim' = [claim EXCEPT ![work[a].token] = NoFile] /\ UNCHANGED trash
    BY <1>4 DEF MoveBack
  <2>3. ASSUME NEW t \in Tokens, t # work[a].token PROVE claim[t] = NoFile
    BY <1>1, <2>1, <2>3, OneClaim, FileFacts DEF There
  <2>4. \A t \in Tokens : claim'[t] = NoFile
    BY <1>1, <2>2, <2>3 DEF Typed
  <2> QED
    BY <1>1, <1>2, <1>4, <2>1, <2>2, <2>4
<1> QED
  BY <1>3, <1>4

\* What is renamed from the path goes where nothing of it is.
LEMMA RenamesAside ==
  ASSUME RemovalInv, Typed, ClaimInv, NEW a \in Actors, Rename(a), There(media)
  PROVE  /\ media \in Existing /\ media' = NoFile /\ work[a].token \in Tokens
         /\ work' = [work EXCEPT ![a].moved = media] /\ pc'[a] = "verify"
         /\ \A t \in Tokens : claim[t] = NoFile
         /\ IF work[a].trashed THEN trash' = trash \cup {media} /\ UNCHANGED claim
            ELSE claim' = [claim EXCEPT ![work[a].token] = media] /\ UNCHANGED trash
<1>1. pc[a] = "rename" /\ work[a].token \in Tokens /\ a \in DOMAIN pc
  BY TokenOfMine DEF Rename, At, Busy, Steps, RemovalInv, Shaped
<1>2. journal.token = work[a].token /\ claim[work[a].token] = NoFile
  BY <1>1 DEF ClaimInv, Announced, ClaimSpent, Held, NoClaim
<1>3. \A t \in Tokens : claim[t] = NoFile
  BY <1>2 DEF ClaimInv, Traced, There
<1> QED
  BY <1>1, <1>3, FileFacts DEF Rename, GoTo, Typed

\* Who moves anything that the stores, claims and trash hold of the wallpaper's files.
LEMMA FileSteps ==
  ASSUME RemovalInv, Typed, ClaimInv, NEW a \in Actors, Acts(a)
  PROVE  \/ UNCHANGED <<media, claim, trash, gone>>
         \/ Rename(a) /\ There(media) /\ UNCHANGED gone
         \/ MoveBack(a) /\ pc[a] \in {"verify", "restore"} /\ UNCHANGED gone
         \/ /\ pc[a] \in {"destroy", "recover"} /\ UNCHANGED <<media, trash>>
            /\ There(claim[work[a].token])
            /\ gone' = gone \cup {claim[work[a].token]}
            /\ claim' = [claim EXCEPT ![work[a].token] = NoFile]
<1>1. CASE Rename(a)
  BY <1>1, WhoTouches DEF Rename
<1>2. CASE Verify(a) \/ Restore(a)
  <2>1. UNCHANGED gone /\ pc[a] \in {"verify", "restore"}
    BY <1>2 DEF Verify, Restore, At
  <2> QED
    BY <1>2, <2>1 DEF Verify, Restore
<1>3. CASE Destroy(a)
  <2>1. pc[a] = "destroy" /\ claim[work[a].token] = work[a].moved /\ work[a].moved \in Existing
    BY <1>3 DEF Destroy, At, ClaimInv, ClaimSpent, Typed, Taken
  <2>2. UNCHANGED <<media, trash>>
    BY <1>3 DEF Destroy
  <2> QED
    BY <1>3, <2>1, <2>2, FileFacts DEF Destroy
<1>4. CASE Recover(a)
  <2>1. pc[a] = "recover" /\ UNCHANGED <<media, trash>>
    BY <1>4 DEF Recover, At
  <2>2. work[a].fp.gen \in asked
    BY <2>1 DEF RemovalInv, Given, Busy, Steps
  <2>3. work[a].fp.gen # 0 /\ NoFile.gen = 0
    BY <2>2, FileFacts DEF Typed
  <2>4. Prepared(a, claim[work[a].token]) => There(claim[work[a].token])
    BY <2>3 DEF Prepared, There
  <2> QED
    BY <1>4, <2>1, <2>4 DEF Recover
<1> QED
  BY <1>1, <1>2, <1>3, <1>4, WhoTouches

LEMMA ActsKeepAside ==
  ASSUME RemovalInv, Typed, ClaimInv, LeftInv, Aside, NEW a \in Actors, Acts(a) PROVE Aside'
<1> /\ a \in DOMAIN pc /\ a \in DOMAIN work /\ work[a] \in Job
    /\ \A f \in trash : f \in Existing /\ f.gen # 0
  BY FileFacts DEF RemovalInv, Shaped, Typed
<1>1. ASSUME NEW f \in trash'
      PROVE  /\ f.gen # media'.gen
             /\ \A h \in trash' : h.gen = f.gen => h = f
             /\ \A t \in Tokens : claim'[t].gen # f.gen
  <2>1. CASE UNCHANGED <<media, trash>> /\ \A t \in Tokens : claim'[t] \in {claim[t], NoFile}
    BY <1>1, <2>1, FileFacts DEF Aside
  <2>2. CASE Rename(a) /\ There(media)
    <3>1. /\ media \in Existing /\ media' = NoFile /\ NoFile.gen = 0
          /\ \A t \in Tokens : claim[t] = NoFile
      BY <2>2, RenamesAside, FileFacts
    <3>2. \A t \in Tokens : claim'[t] \in {NoFile, media}
      BY <2>2, <3>1, RenamesAside DEF Typed
    <3>3. CASE ~work[a].trashed
      BY <1>1, <2>2, <3>1, <3>2, <3>3, RenamesAside DEF Aside
    <3>4. CASE work[a].trashed
      <4>1. trash' = trash \cup {media} /\ UNCHANGED claim /\ media.gen # 0
        BY <2>2, <3>4, RenamesAside, FileFacts
      <4> QED
        BY <1>1, <3>1, <4>1 DEF Aside
    <3> QED
      BY <3>3, <3>4
  <2>3. CASE MoveBack(a) /\ pc[a] \in {"verify", "restore"}
    <3>1. media'.gen = work[a].moved.gen /\ work[a].moved.gen # 0 /\ NoFile.gen = 0
      BY <2>3, MovesBack, FileFacts
    <3>2. CASE work[a].trashed
      <4>1. work[a].moved \in trash /\ trash' = trash \ {work[a].moved} /\ UNCHANGED claim
        BY <2>3, <3>2, MovesBack
      <4> QED
        BY <1>1, <3>1, <4>1 DEF Aside
    <3>3. CASE ~work[a].trashed
      <4>1. /\ UNCHANGED trash /\ (\A t \in Tokens : claim'[t] = NoFile)
            /\ claim[work[a].token] = work[a].moved /\ work[a].token \in Tokens
        BY <2>3, <3>3, MovesBack, TokenOfMine DEF Busy, Steps
      <4> QED
        BY <1>1, <3>1, <4>1 DEF Aside
    <3> QED
      BY <3>2, <3>3
  <2>4. CASE UNCHANGED <<media, trash>> /\ claim' = [claim EXCEPT ![work[a].token] = NoFile]
    BY <2>1, <2>4 DEF Typed
  <2> QED
    BY <2>1, <2>2, <2>3, <2>4, FileSteps
<1>2. ASSUME NEW b \in Actors, pc'[b] = "verify", work'[b].trashed PROVE work'[b].moved \in trash'
  <2>1. CASE b # a
    <3>1. pc[b] = "verify" /\ work'[b] = work[b]
      BY <1>2, <2>1, OthersStay
    <3>2. pc[a] \notin Held
      BY <2>1, <3>1, OneLive DEF Held
    <3>3. UNCHANGED trash
      BY <3>2, FileSteps DEF Rename, At, Held
    <3> QED
      BY <1>2, <3>1, <3>3 DEF Aside
  <2>2. CASE b = a
    <3>1. Rename(a) /\ There(media)
      BY <1>2, <2>2, WhoArrives DEF Rename, GoTo
    <3>2. work'[a].moved = media /\ work'[a].trashed = work[a].trashed
      BY <3>1, RenamesAside DEF Job
    <3> QED
      BY <1>2, <2>2, <3>1, <3>2, RenamesAside
  <2> QED
    BY <2>1, <2>2
<1> QED
  BY <1>1, <1>2 DEF Aside

LEMMA NextKeepsAside ==
  ASSUME RemovalInv, Typed, ClaimInv, LeftInv, Aside, [Next]_vars PROVE Aside'
<1>1. ASSUME UNCHANGED <<pc, work, claim, trash>>, media' \in {media, NoFile, New(nextGen)}
      PROVE  Aside'
  <2>1. \A f \in trash : f.gen \in 1..(nextGen - 1)
    BY FileFacts DEF Typed
  <2>2. New(nextGen).gen = nextGen /\ nextGen \in Nat /\ NoFile.gen = 0
    BY LibraryAssumption, FileFacts DEF New, Typed
  <2>3. \A f \in trash : f.gen # media'.gen
    BY <1>1, <2>1, <2>2 DEF Aside
  <2> QED
    BY <1>1, <2>3 DEF Aside
<1>2. CASE (World /\ UNCHANGED <<acts, loads>>) \/ UNCHANGED vars
  BY <1>1, <1>2 DEF World, StrangerPuts, StrangerTakes, Capture, Author, acts, vars, disk
<1>3. ASSUME NEW d \in Installers, Loads(d), UNCHANGED acts PROVE Aside'
  BY <1>1, <1>3 DEF Loads, Installs, Choose, PublishMedia, Confirm, PublishRecord, SweepLooks,
     SweepRetires, Dies, Untouched, acts
<1> QED
  BY <1>2, <1>3, ActsKeepAside DEF Next

LEMMA InitAside == Init => Aside
<1> SUFFICES ASSUME Init PROVE Aside
  OBVIOUS
<1>1. trash = {} /\ \A a \in Actors : pc[a] = "idle"
  BY DEF Init, InitFiles, InitRemoval
<1> QED
  BY <1>1 DEF Aside

AllInv == RemovalInv /\ Typed /\ PathInv /\ ClaimInv /\ LeftInv /\ GoneInv /\ Aside

Gens == 1..MaxGens

\* What is at the path is in no claim, in the trash or destroyed; what is claimed is not in
\* the trash.  Everything there is has a generation that was given out.
LEMMA Disjoint ==
  ASSUME AllInv
  PROVE  /\ nextGen \in Nat /\ NoFile.gen = 0 /\ 0 \notin Gens
         /\ \A f \in FileOrNone : f.gen < nextGen /\ (f.gen \in Gens => There(f))
         /\ \A f \in FileOrNone : There(f) => f.gen \in Gens
         /\ media \in FileOrNone /\ claim \in [Tokens -> FileOrNone]
         /\ trash \subseteq FileOrNone /\ gone \subseteq FileOrNone
         /\ \A t \in Tokens : claim[t].gen \in Gens => claim[t].gen # media.gen
         /\ \A f \in trash : f.gen # media.gen /\ \A t \in Tokens : claim[t].gen # f.gen
         /\ \A f \in gone : f.gen # media.gen
         /\ asked \subseteq Gens
<1>1. nextGen \in 2..(MaxGens + 1) /\ MaxGens \in Nat
  BY LibraryAssumption DEF AllInv, Typed
<1>2. \A f \in FileOrNone : f.gen < nextGen /\ (f.gen \in Gens => There(f))
  BY <1>1, FileFacts DEF AllInv, Gens, There
<1>3. \A f \in FileOrNone : There(f) => f.gen \in Gens
  BY <1>1, FileFacts DEF AllInv, Gens
<1>4. /\ media \in FileOrNone /\ claim \in [Tokens -> FileOrNone]
      /\ trash \subseteq FileOrNone /\ gone \subseteq FileOrNone
  BY FileFacts DEF AllInv, Typed
<1>5. \A t \in Tokens : claim[t].gen \in Gens => claim[t].gen # media.gen
  BY <1>2, <1>4 DEF AllInv, LeftInv, ClaimLeft
<1>6. /\ \A f \in trash : f.gen # media.gen /\ \A t \in Tokens : claim[t].gen # f.gen
      /\ \A f \in gone : f.gen # media.gen
  BY DEF AllInv, Aside, GoneInv, Done, Left
<1>7. asked \subseteq Gens
  BY <1>1 DEF AllInv, Typed, Gens
<1> QED
  BY <1>1, <1>2, <1>3, <1>4, <1>5, <1>6, <1>7, FileFacts DEF AllInv, Gens

\* The fate of one file changes.
LEMMA OneFate ==
  ASSUME NEW f \in Gens, NEW place, Fate'[f] = place,
         \A g \in Gens : g # f => FateOf(g)' = FateOf(g)
  PROVE  Fate' = [Fate EXCEPT ![f] = place]
  BY DEF Fate, Gens

LEMMA SameFates ==
  ASSUME UNCHANGED <<media, claim, trash, gone, nextGen>> PROVE UNCHANGED Fate
  BY DEF Fate, FateOf

\* A new file at the path: what it replaces is elsewhere.
LEMMA NewFileComes ==
  ASSUME AllInv, UNCHANGED <<claim, trash, gone, asked>>, nextGen <= MaxGens,
         media' = New(nextGen), nextGen' = nextGen + 1
  PROVE  Fates!Comes(nextGen) /\ nextGen \in Gens
<1>1. nextGen \in Gens /\ media'.gen = nextGen
  BY Disjoint DEF Gens, New, AllInv, Typed
<1>2. Fate[nextGen] = "new"
  BY <1>1, Disjoint DEF Fate, FateOf, Gens
<1>3. ASSUME NEW g \in Gens
      PROVE  Fate'[g] = IF g = nextGen THEN "path"
                        ELSE IF Fates!AtPath(g) THEN "elsewhere" ELSE Fate[g]
  <2>1. CASE g = nextGen
    BY <1>1, <2>1 DEF Fate, FateOf, Gens
  <2>2. CASE g # nextGen /\ media.gen = g
    <3>1. Fates!AtPath(g)
      BY <2>2 DEF Fates!AtPath, Fate, FateOf, Gens
    <3>2. FateOf(g)' = "elsewhere"
      BY <1>1, <2>2, Disjoint DEF FateOf, Gens
    <3> QED
      BY <2>2, <3>1, <3>2 DEF Fate, Gens
  <2>3. CASE g # nextGen /\ media.gen # g
    <3>1. FateOf(g)' = FateOf(g)
      BY <1>1, <2>3, Disjoint DEF FateOf, Gens
    <3>2. ~Fates!AtPath(g)
      BY <2>3 DEF Fates!AtPath, Fate, FateOf, Gens
    <3> QED
      BY <2>3, <3>1, <3>2 DEF Fate, Gens
  <2> QED
    BY <2>1, <2>2, <2>3
<1> QED
  BY <1>1, <1>2, <1>3 DEF Fates!Comes, Fate, Gens

\* What everybody else takes from the path is elsewhere.
LEMMA FileLeaves ==
  ASSUME AllInv, There(media), media' = NoFile, UNCHANGED <<claim, trash, gone, asked, nextGen>>
  PROVE  \E f \in Gens : Fates!Leaves(f)
<1>1. PICK f \in Gens : f = media.gen
  BY Disjoint
<1>2. FateOf(f) = "path" /\ FateOf(f)' = "elsewhere"
  BY <1>1, Disjoint DEF FateOf, Gens
<1>3. \A g \in Gens : g # f => FateOf(g)' = FateOf(g)
  BY <1>1, Disjoint DEF FateOf
<1>4. Fate' = [Fate EXCEPT ![f] = "elsewhere"] /\ Fate[f] = "path"
  <2>1. Fate'[f] = "elsewhere" /\ Fate[f] = "path"
    BY <1>1, <1>2 DEF Fate, Gens
  <2> QED
    BY <1>1, <1>3, <2>1, OneFate
<1> QED
  BY <1>1, <1>4 DEF Fates!Leaves, Fates!AtPath, Fates!Becomes

\* A removal asks for what is at the path.
LEMMA RemovalAsks ==
  ASSUME AllInv, NEW a \in Actors, TakeLease(a)
  PROVE  media.gen \in Gens /\ Fates!Ask(media.gen)
<1>1. /\ There(media) /\ asked' = asked \cup {media.gen}
      /\ UNCHANGED <<media, claim, trash, gone, nextGen>>
  BY DEF TakeLease, disk, Keeping
<1>2. media.gen \in Gens
  BY <1>1, Disjoint
<1>3. Fate[media.gen] = "path"
  BY <1>2 DEF Fate, FateOf, Gens
<1> QED
  BY <1>1, <1>2, <1>3, SameFates DEF Fates!Ask, Fates!AtPath

\* It takes what is there into its claim, the only one, or into the trash.
LEMMA RemovalTakes ==
  ASSUME AllInv, NEW a \in Actors, Rename(a), There(media), UNCHANGED <<gone, asked, nextGen>>
  PROVE  \E f \in Gens : Fates!Claimed(f) \/ Fates!Trashed(f)
<1>0. PICK f \in Gens : f = media.gen
  BY Disjoint
<1>1. /\ media.gen = f /\ media' = NoFile
      /\ work[a].token \in Tokens /\ \A t \in Tokens : claim[t] = NoFile
  BY <1>0, RenamesAside DEF AllInv
<1>2. asked # {}
  <2>1. pc[a] = "rename"
    BY DEF Rename, At
  <2> QED
    BY <2>1 DEF AllInv, RemovalInv, Given, Busy, Steps
<1>3. FateOf(f) = "path" /\ Fate[f] = "path"
  BY <1>1 DEF FateOf, Fate, Gens
<1>4. \A g \in Gens : Fate[g] # "claim"
  BY <1>1, Disjoint DEF Fate, FateOf, Gens
<1>5. CASE work[a].trashed
  <2>1. trash' = trash \cup {media} /\ UNCHANGED claim
    BY <1>5, RenamesAside DEF AllInv
  <2>2. FateOf(f)' = "trash"
    BY <1>1, <2>1, Disjoint DEF FateOf
  <2>3. \A g \in Gens : g # f => FateOf(g)' = FateOf(g)
    BY <1>1, <2>1, Disjoint DEF FateOf
  <2>4. Fate'[f] = "trash"
    BY <1>1, <2>2 DEF Fate, Gens
  <2>5. Fate' = [Fate EXCEPT ![f] = "trash"]
    BY <1>1, <2>3, <2>4, OneFate
  <2> QED
    BY <1>1, <1>2, <1>3, <2>5 DEF Fates!Trashed, Fates!AtPath, Fates!Becomes
<1>6. CASE ~work[a].trashed
  <2>1. claim' = [claim EXCEPT ![work[a].token] = media] /\ UNCHANGED trash
    BY <1>6, RenamesAside DEF AllInv
  <2>2. claim'[work[a].token] = media /\ \A t \in Tokens : claim'[t] \in {NoFile, media}
    BY <1>1, <2>1, Disjoint
  <2>3. FateOf(f)' = "claim"
    BY <1>1, <2>2, Disjoint DEF FateOf
  <2>4. \A g \in Gens : g # f => FateOf(g)' = FateOf(g)
    BY <1>1, <2>1, <2>2, Disjoint DEF FateOf
  <2>5. Fate'[f] = "claim"
    BY <1>1, <2>3 DEF Fate, Gens
  <2>6. Fate' = [Fate EXCEPT ![f] = "claim"]
    BY <1>1, <2>4, <2>5, OneFate
  <2> QED
    BY <1>1, <1>2, <1>3, <1>4, <2>6 DEF Fates!Claimed, Fates!AtPath, Fates!Becomes, Gens
<1> QED
  BY <1>1, <1>5, <1>6

\* It gives back what it took, over nothing.
LEMMA RemovalReturns ==
  ASSUME AllInv, NEW a \in Actors, Acts(a), MoveBack(a), pc[a] \in {"verify", "restore"},
         UNCHANGED <<gone, asked, nextGen>>
  PROVE  \E f \in Gens : Fates!Returns(f)
<1> DEFINE m == work[a].moved
<1>1. /\ m.gen \in Gens /\ media = NoFile /\ media'.gen = m.gen
      /\ IF work[a].trashed THEN m \in trash /\ trash' = trash \ {m} /\ UNCHANGED claim
         ELSE claim[work[a].token] = m /\ UNCHANGED trash /\ \A t \in Tokens : claim'[t] = NoFile
  BY MovesBack, Disjoint, FileFacts DEF AllInv
<1>2. work[a].token \in Tokens
  BY TokenOfMine DEF AllInv, Busy, Steps
<1> HIDE DEF m
<1>0. PICK f \in Gens : f = m.gen
  BY <1>1
<1>3. \A g \in Gens : FateOf(g) # "path" /\ Fate[g] # "path"
  BY <1>1, <1>0, Disjoint DEF FateOf, Fate, Gens
<1>4. FateOf(f)' = "path" /\ Fate'[f] = "path"
  BY <1>1, <1>0 DEF FateOf, Fate, Gens
<1>5. /\ FateOf(f) \in {"claim", "trash"}
      /\ \A g \in Gens : g # f => FateOf(g)' = FateOf(g)
  <2>1. CASE work[a].trashed
    <3>1. FateOf(f) \in {"claim", "trash"}
      BY <1>1, <1>0, <2>1, Disjoint DEF FateOf
    <3>2. ASSUME NEW g \in Gens, g # f PROVE FateOf(g)' = FateOf(g)
      <4>1. (\E h \in trash' : h.gen = g) <=> (\E h \in trash : h.gen = g)
        BY <1>1, <1>0, <2>1, <3>2
      <4> QED
        BY <1>1, <1>0, <2>1, <3>2, <4>1, Disjoint DEF FateOf
    <3> QED
      BY <3>1, <3>2
  <2>2. CASE ~work[a].trashed
    <3>1. FateOf(f) \in {"claim", "trash"}
      BY <1>1, <1>0, <1>2, <2>2, Disjoint DEF FateOf
    <3>2. ASSUME NEW g \in Gens, g # f, NEW t \in Tokens
          PROVE  claim[t].gen # g /\ claim'[t].gen # g
      <4>1. claim[t].gen = g => There(claim[t]) /\ There(claim[work[a].token])
        BY <1>1, <1>0, <1>2, <2>2, <3>2, Disjoint
      <4>2. claim[t].gen = g => t = work[a].token
        BY <1>2, <4>1, OneClaim DEF AllInv
      <4> QED
        BY <1>1, <1>0, <2>2, <3>2, <4>2, Disjoint
    <3>3. \A g \in Gens : g # f => FateOf(g)' = FateOf(g)
      BY <1>1, <1>0, <2>2, <3>2, Disjoint DEF FateOf
    <3> QED
      BY <3>1, <3>3
  <2> QED
    BY <2>1, <2>2
<1>6. Fate[f] \in {"claim", "trash"}
  BY <1>1, <1>0, <1>5 DEF Fate, Gens
<1>7. Fate' = [Fate EXCEPT ![f] = "path"]
  BY <1>1, <1>0, <1>4, <1>5, OneFate
<1>8. Fates!Returns(f)
  BY <1>1, <1>0, <1>3, <1>6, <1>7 DEF Fates!Returns, Fates!Free, Fates!AtPath, Fates!Becomes, Gens
<1> QED
  BY <1>8

\* What is destroyed was claimed, and asked for.
LEMMA ClaimDestroyed ==
  ASSUME AllInv, InnocentKept', NEW a \in Actors, pc[a] \in {"destroy", "recover"},
         There(claim[work[a].token]), gone' = gone \cup {claim[work[a].token]},
         claim' = [claim EXCEPT ![work[a].token] = NoFile],
         UNCHANGED <<media, trash, asked, nextGen>>
  PROVE  \E f \in Gens : Fates!Destroyed(f)
<1> DEFINE c == claim[work[a].token]
<1>1. work[a].token \in Tokens
  BY TokenOfMine DEF AllInv, Busy, Steps
<1>2. c.gen \in Gens /\ c.gen # media.gen
  BY <1>1, Disjoint
<1>3. \A t \in Tokens : (claim[t] = NoFile \/ t = work[a].token) /\ claim'[t] = NoFile
  BY <1>1, OneClaim, Disjoint DEF AllInv, There
<1>4. gone' = gone \cup {c} /\ c.gen \in asked
  BY DEF InnocentKept
<1>5. \A t \in Tokens : claim[t] \in {NoFile, c}
  BY <1>3
<1>6. \E t \in Tokens : claim[t].gen = c.gen
  BY <1>1
<1>7. \A f \in trash : f.gen # c.gen
  BY <1>1, Disjoint
<1> HIDE DEF c
<1>0. PICK h \in Gens : h = c.gen
  BY <1>2
<1>8. FateOf(h) = "claim"
  BY <1>2, <1>6, <1>0 DEF FateOf
<1>9. FateOf(h)' = "gone"
  BY <1>2, <1>3, <1>4, <1>7, <1>0, Disjoint DEF FateOf
<1>10. ASSUME NEW g \in Gens, g # h PROVE FateOf(g)' = FateOf(g)
  <2>1. (\E f \in gone' : f.gen = g) <=> (\E f \in gone : f.gen = g)
    BY <1>4, <1>10, <1>0
  <2>2. \A t \in Tokens : claim[t].gen # g /\ claim'[t].gen # g
    BY <1>3, <1>5, <1>10, <1>0, Disjoint
  <2> QED
    BY <2>1, <2>2 DEF FateOf
<1>11. Fate[h] = "claim" /\ Fate'[h] = "gone"
  BY <1>8, <1>9 DEF Fate, Gens
<1>12. Fate' = [Fate EXCEPT ![h] = "gone"]
  BY <1>10, <1>11, OneFate
<1> QED
  BY <1>4, <1>11, <1>12, <1>0 DEF Fates!Destroyed, Fates!Becomes

\* Every step of the application and of everybody else is one of FileFate's, or none.
LEMMA StepsAreFated ==
  ASSUME AllInv, AllInv', [Next]_vars PROVE [Fates!FateNext]_<<Fate, asked>>
<1>0. InnocentKept' /\ UNCHANGED vars => UNCHANGED <<Fate, asked>>
  BY SameFates DEF AllInv, RemovalInv, vars, disk, ghosts
<1>1. CASE World
  <2>1. CASE StrangerPuts
    BY <2>1, NewFileComes DEF StrangerPuts, ghosts, Fates!FateNext, Gens
  <2>2. CASE StrangerTakes
    BY <2>2, FileLeaves DEF StrangerTakes, ghosts, Fates!FateNext, Gens
  <2>3. CASE Capture \/ Author
    BY <2>3, SameFates DEF Capture, Author, ghosts
  <2> QED
    BY <1>1, <2>1, <2>2, <2>3 DEF World
<1>2. ASSUME NEW a \in Actors, Acts(a) PROVE [Fates!FateNext]_<<Fate, asked>>
  <2>1. UNCHANGED nextGen /\ (TakeLease(a) \/ UNCHANGED asked)
    BY <1>2, WhoTouches
  <2>2. CASE TakeLease(a)
    BY <2>2, RemovalAsks DEF Fates!FateNext, Gens
  <2>3. CASE UNCHANGED asked
    <3>1. CASE UNCHANGED <<media, claim, trash, gone>>
      BY <2>1, <2>3, <3>1, SameFates
    <3>2. CASE Rename(a) /\ There(media) /\ UNCHANGED gone
      BY <2>1, <2>3, <3>2, RemovalTakes DEF Fates!FateNext, Gens
    <3>3. CASE MoveBack(a) /\ pc[a] \in {"verify", "restore"} /\ UNCHANGED gone
      BY <1>2, <2>1, <2>3, <3>3, RemovalReturns DEF Fates!FateNext, Gens
    <3>4. CASE /\ pc[a] \in {"destroy", "recover"} /\ UNCHANGED <<media, trash>>
               /\ There(claim[work[a].token])
               /\ gone' = gone \cup {claim[work[a].token]}
               /\ claim' = [claim EXCEPT ![work[a].token] = NoFile]
      BY <1>0, <2>1, <2>3, <3>4, ClaimDestroyed DEF Fates!FateNext, Gens, AllInv, RemovalInv
    <3> QED
      BY <1>2, <3>1, <3>2, <3>3, <3>4, FileSteps DEF AllInv
  <2> QED
    BY <2>1, <2>2, <2>3
<1>3. ASSUME NEW d \in Installers, Loads(d) PROVE [Fates!FateNext]_<<Fate, asked>>
  <2>1. UNCHANGED <<claim, trash, gone, asked>>
    BY <1>3 DEF Loads, Installs, Choose, PublishMedia, Confirm, PublishRecord, SweepLooks,
       SweepRetires, Dies, Untouched
  <2>2. \/ UNCHANGED <<media, nextGen>>
        \/ nextGen <= MaxGens /\ media' = New(nextGen) /\ nextGen' = nextGen + 1
    BY <1>3 DEF Loads, Installs, Choose, PublishMedia, Confirm, PublishRecord, SweepLooks,
       SweepRetires, Dies
  <2>3. CASE UNCHANGED <<media, nextGen>>
    BY <2>1, <2>3, SameFates
  <2>4. CASE nextGen <= MaxGens /\ media' = New(nextGen) /\ nextGen' = nextGen + 1
    BY <2>1, <2>4, NewFileComes DEF Fates!FateNext, Gens
  <2> QED
    BY <2>2, <2>3, <2>4
<1> QED
  BY <1>0, <1>1, <1>2, <1>3 DEF Next, AllInv, RemovalInv

LEMMA InitFated == Init => Fates!FateInit
<1> SUFFICES ASSUME Init PROVE Fates!FateInit
  OBVIOUS
<1>1. /\ media.gen = 1 /\ trash = {} /\ gone = {} /\ asked = {} /\ nextGen = 2
      /\ \A t \in Tokens : claim[t].gen = 0
  BY DEF Init, InitFiles, New, NoFile
<1>2. \A g \in Gens : FateOf(g) = IF g = 1 THEN "path" ELSE "new"
  BY <1>1, LibraryAssumption DEF FateOf, Gens
<1>3. 1 \in Gens
  BY LibraryAssumption DEF Gens
<1>4. Fate = [g \in Gens |-> IF g = 1 THEN "path" ELSE "new"]
  BY <1>2 DEF Fate, Gens
<1> QED
  BY <1>1, <1>3, <1>4 DEF Fates!FateInit, Gens

LEMMA AllKept == Spec => []AllInv
<1>1. AllInv <=> RemovalInv /\ Typed /\ PathInv /\ ClaimInv /\ LeftInv /\ GoneInv /\ Aside
  BY DEF AllInv
<1> QED
  BY <1>1, InitRemovalInv, NextKeeps, InitTyped, NextTyped, InitPath, NextKeepsPath, InitClaims,
     NextKeepsClaims, InitLeft, NextKeepsLeft, InitGone, NextKeepsGone, InitAside, NextKeepsAside,
     PTL DEF Spec

\* Removals, replays and downloads implement FileFate: of every file that is ever at the path
\* they keep, together and whoever dies, what it promises (atomic_move_no_replace,
\* recover_removal_claim, install).
THEOREM FilesAreFated == Spec => FilesMeetTheirFate
  BY AllKept, InitFated, StepsAreFated, PTL DEF Spec, FilesMeetTheirFate, Fates!FateSpec
=============================================================================
