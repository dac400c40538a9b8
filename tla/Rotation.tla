------------------------------ MODULE Rotation ------------------------------
(***************************************************************************)
(* What the rotation of a playlist promises to the runtime, which takes it *)
(* for the entry in force: however it is ordered, shuffled and unwound, a  *)
(* move goes to another entry that can play or nowhere, and nothing but a  *)
(* move, a restart or a reload of the document changes what is in force.   *)
(***************************************************************************)
EXTENDS Naturals

CONSTANT MaxEntries

VARIABLES
  count,    \* how many entries there are, counted from 1
  usable,   \* those that can play
  shuffle,
  current,  \* the one in force; 0 in an empty playlist
  reply     \* the last command and whether it moved

rotation == <<count, usable, shuffle, current, reply>>

Others == usable \ {current}

Answer(op, moved) == reply' = [op |-> op, moved |-> moved]

RotationInit ==
  /\ count \in 0..MaxEntries
  /\ usable \in SUBSET (1..count)
  /\ shuffle = FALSE
  /\ current = IF count = 0 THEN 0 ELSE 1
  /\ reply = [op |-> "start", moved |-> FALSE]

Reloads ==
  /\ count' \in 0..MaxEntries
  /\ usable' \in SUBSET (1..count')
  /\ IF count' = 0 THEN current' = 0 ELSE current' \in 1..count'
  /\ Answer("reload", FALSE)
  /\ UNCHANGED shuffle

\* Another order of the same entries goes on from the one in force.
Shuffles ==
  /\ shuffle' = ~shuffle
  /\ Answer("shuffle", FALSE)
  /\ UNCHANGED <<count, usable, current>>

Loses(e) ==
  /\ usable' = usable \ {e}
  /\ Answer("failure", FALSE)
  /\ UNCHANGED <<count, shuffle, current>>

\* From the beginning: unshuffled, that is the first entry that can play.
Restarts ==
  /\ IF usable = {} THEN Answer("restart", FALSE) /\ UNCHANGED current
     ELSE /\ Answer("restart", TRUE)
          /\ current' \in usable
          /\ ~shuffle => \A e \in usable : current' <= e
  /\ UNCHANGED <<count, usable, shuffle>>

Moves(op) ==
  /\ current # 0 /\ current' \in Others
  /\ Answer(op, TRUE)
  /\ UNCHANGED <<count, usable, shuffle>>

\* `random' moves whenever there is anything to move to; `next' and `previous' may
\* have a history that leads nowhere.
Stays(op) ==
  /\ op = "random" => Others = {}
  /\ Answer(op, FALSE)
  /\ UNCHANGED <<count, usable, shuffle, current>>

RotationNext ==
  \/ Reloads \/ Shuffles \/ Restarts
  \/ \E e \in usable : Loses(e)
  \/ \E op \in {"next", "previous", "random"} : Moves(op) \/ Stays(op)

RotationSpec == RotationInit /\ [][RotationNext]_rotation
=============================================================================
