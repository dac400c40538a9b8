--------------------------- MODULE PlaylistCursor ---------------------------
(***************************************************************************)
(* The rotation of one playlist (runtime.rs, PlaylistCursor): the order it *)
(* is played in, its place there, what `previous' goes back to and what    *)
(* `next' then returns to.  Mirrored playlists and the routes of           *)
(* independent displays run the same algorithm.                            *)
(*                                                                         *)
(* Entries are their indexes, counted from 1, and so are positions.  An    *)
(* entry is usable unless it is taboo or its scene was refused (cant_play);*)
(* a renderer that crashes late can end that for any entry at any moment,  *)
(* and only a reload of the document brings one back.                      *)
(***************************************************************************)
EXTENDS Naturals, Sequences

CONSTANTS
  MaxEntries,     \* bound of the checked runs: the longest playlist
  HistoryLimit    \* PLAYBACK_HISTORY_LIMIT

ASSUME CursorAssumption == MaxEntries \in Nat /\ HistoryLimit \in Nat \ {0}

VARIABLES
  count,      \* how many entries the playlist has
  usable,     \* the entries a cursor does not step over
  shuffle,    \* shuffle_enabled for this playlist
  order, position, history, forward,   \* the cursor
  reply,      \* the last command and whether the cursor moved
  round,      \* (history) what was played since this bag was dealt ...
  unbroken    \* (history) ... and whether by `next' alone

cursor == <<order, position, history, forward>>
ghosts == <<round, unbroken>>
vars   == <<count, usable, shuffle, cursor, reply, ghosts>>

Entries == 1..count
Values(s) == {s[i] : i \in DOMAIN s}
HasCurrent == position \in DOMAIN order
Current == order[position]

\* Every order of the entries in S: what the generator can deal.
Deals(S) ==
  {d \in UNION {[1..n -> S] : n \in 0..count} :
     /\ Values(d) = S
     /\ \A i, j \in DOMAIN d : d[i] = d[j] => i = j}

\* Mutant: the limit is noticed one too late.
PushLate(s, e) == Append(IF Len(s) > HistoryLimit THEN Tail(s) ELSE s, e)

\* push_bounded: the oldest goes when there is no room.
Push(s, e) == Append(IF Len(s) = HistoryLimit THEN Tail(s) ELSE s, e)

\* Iterator::position: the first place of e in the order.
PlaceOf(e) ==
  CHOOSE i \in DOMAIN order :
    order[i] = e /\ \A j \in DOMAIN order : j < i => order[j] # e

\* The last element of s a loop of pops stops at, and that there is none.
Topmost(s, i, Stops(_)) ==
  i \in DOMAIN s /\ Stops(s[i]) /\ \A j \in DOMAIN s : j > i => ~Stops(s[j])
Nowhere(s, Stops(_)) == \A j \in DOMAIN s : ~Stops(s[j])

\* Mutant: what is taboo is not stepped over.
AnyOther(e) == e # Current

Usable(e)      == e \in usable
OtherUsable(e) == e \in usable /\ e # Current

Answer(op, moved) == reply' = [op |-> op, moved |-> moved]

-----------------------------------------------------------------------------
\* rebuild_cursors: a new cursor on entry e of n.
Rebuilt(n, shuffled, e) ==
  /\ IF shuffled /\ n > 0
     THEN \E rest \in {d \in [1..n -> 1..n] :
                         d[1] = e /\ \A i, j \in 1..n : d[i] = d[j] => i = j} :
            order' = rest /\ position' = 1
     ELSE order' = [i \in 1..n |-> i] /\ position' = e
  /\ history' = <<>> /\ forward' = <<>>
  /\ round' = {e} /\ unbroken' = TRUE

Init ==
  /\ count \in 0..MaxEntries
  /\ usable \in SUBSET (1..count)
  /\ shuffle = FALSE
  /\ order = [i \in 1..count |-> i] /\ position = 1
  /\ history = <<>> /\ forward = <<>>
  /\ reply = [op |-> "start", moved |-> FALSE]
  /\ round = {1} /\ unbroken = TRUE

\* The document is loaded again: the entry in force is found by its id, or the
\* first one stands in for it.
Reload(n, u, e) ==
  /\ n > 0 => e \in 1..n
  /\ n = 0 => e = 1
  /\ count' = n
  /\ usable' = u
  /\ Rebuilt(n, shuffle, e)
  /\ Answer("reload", FALSE)
  /\ UNCHANGED shuffle

\* set_shuffle, when it changes this playlist's order.
SetShuffle ==
  /\ shuffle' = ~shuffle
  /\ Rebuilt(count, shuffle', IF HasCurrent THEN Current ELSE 1)
  /\ Answer("shuffle", FALSE)
  /\ UNCHANGED <<count, usable>>

\* A failure marks an entry taboo, or the driver refuses its scene.
Fails(e) ==
  /\ usable' = usable \ {e}
  /\ Answer("failure", FALSE)
  /\ UNCHANGED <<count, shuffle, cursor, ghosts>>

\* reset_cursor_automatic: a pick or a schedule starts at the first usable entry.
Restart ==
  /\ IF Nowhere(order, Usable)
     THEN Answer("restart", FALSE) /\ UNCHANGED <<position, history, forward, ghosts>>
     ELSE /\ Answer("restart", TRUE)
          /\ \E i \in DOMAIN order :
               /\ order[i] \in usable
               /\ \A j \in DOMAIN order : j < i => order[j] \notin usable
               /\ position' = i
               /\ round' = {order[i]} /\ unbroken' = TRUE
          /\ history' = <<>> /\ forward' = <<>>
  /\ UNCHANGED <<count, usable, shuffle, order>>

-----------------------------------------------------------------------------
(* move_cursor_forward.                                                    *)

\* `next' after `previous': what `previous' unwound comes first.
FollowForward ==
  \E i \in DOMAIN forward :
    /\ Topmost(forward, i, Usable)
    /\ forward' = SubSeq(forward, 1, i - 1)
    /\ history' = Push(history, Current)
    /\ position' = IF forward[i] \in Values(order) THEN PlaceOf(forward[i]) ELSE position
    /\ Answer("next", forward[i] # Current)
    /\ unbroken' = FALSE
    /\ UNCHANGED <<count, usable, shuffle, order, round>>

\* Mutant: what was stepped over stays to be gone forward to.
StepToKeeping(p) ==
  /\ position' = p
  /\ history' = Push(history, Current)
  /\ UNCHANGED <<forward, count, usable, shuffle>>

\* Every other step of `next' has popped all of forward.
StepTo(p) ==
  /\ position' = p
  /\ history' = Push(history, Current)
  /\ forward' = <<>>
  /\ UNCHANGED <<count, usable, shuffle>>

\* Mutant: the search begins one entry late.
FartherUsable == {p \in DOMAIN order : p > position + 1 /\ order[p] \in usable}

AheadUsable == {p \in DOMAIN order : p > position /\ order[p] \in usable}

\* Shuffled: the next usable entry of this bag.
NextInBag ==
  /\ shuffle
  /\ \E p \in AheadUsable :
       /\ \A q \in AheadUsable : p <= q
       /\ StepTo(p)
       /\ Answer("next", order[p] # Current)
       /\ round' = round \cup {order[p]}
  /\ UNCHANGED <<order, unbroken>>

\* Mutant: the entry in force is left out of the new bag.
DealOthers(op) ==
  /\ shuffle /\ AheadUsable = {}
  /\ \E bag \in Deals(usable \ {Current}) :
       /\ bag # <<>>
       /\ order' = bag
       /\ StepTo(1)
       /\ Answer(op, TRUE)
       /\ round' = {bag[1]} /\ unbroken' = TRUE

\* The bag is empty: another is dealt, and does not begin with the entry in force.
Deal(op) ==
  /\ shuffle /\ AheadUsable = {}
  /\ \E bag \in Deals(usable) :
       /\ bag # <<>> /\ bag[1] # Current
       /\ order' = bag
       /\ StepTo(1)
       /\ Answer(op, TRUE)
       /\ round' = {bag[1]} /\ unbroken' = TRUE

\* Not shuffled: the next other usable entry, around the end.
NextInOrder ==
  /\ ~shuffle
  /\ \E offset \in 1..Len(order) :
       LET Place(k) == ((position - 1 + k) % Len(order)) + 1 IN
       /\ OtherUsable(order[Place(offset)])
       /\ \A k \in 1..(offset - 1) : ~OtherUsable(order[Place(k)])
       /\ StepTo(Place(offset))
       /\ Answer("next", TRUE)
  /\ UNCHANGED <<order, ghosts>>

\* Nothing to move to.
Stays(op) ==
  /\ IF shuffle THEN AheadUsable = {} /\ usable \subseteq {Current}
                ELSE \A e \in Values(order) : ~OtherUsable(e)
  /\ Answer(op, FALSE)

NextStays ==
  /\ Stays("next")
  /\ forward' = <<>>
  /\ UNCHANGED <<count, usable, shuffle, order, position, history, ghosts>>

MoveForward ==
  /\ HasCurrent
  /\ \/ FollowForward
     \/ /\ Nowhere(forward, Usable)
        /\ NextInBag \/ Deal("next") \/ NextInOrder \/ NextStays

-----------------------------------------------------------------------------
\* move_cursor_backward: the last other usable entry that was played.  One a new
\* bag does not hold is added to it.
MoveBackward ==
  /\ HasCurrent
  /\ \/ \E i \in DOMAIN history :
          /\ Topmost(history, i, OtherUsable)
          /\ history' = SubSeq(history, 1, i - 1)
          /\ forward' = Push(forward, Current)
          /\ IF history[i] \in Values(order)
             THEN position' = PlaceOf(history[i]) /\ UNCHANGED order
             ELSE /\ order' = Append(order, history[i])
                  /\ position' = Len(order) + 1
          /\ Answer("previous", TRUE)
     \/ /\ Nowhere(history, OtherUsable)
        /\ history' = <<>>
        /\ Answer("previous", FALSE)
        /\ UNCHANGED <<order, position, forward>>
  /\ unbroken' = FALSE
  /\ UNCHANGED <<count, usable, shuffle, round>>

-----------------------------------------------------------------------------
(* move_cursor_random.                                                     *)

\* Shuffled: any usable entry left in this bag changes places with the next.
RandomInBag ==
  /\ shuffle
  /\ \E p \in AheadUsable :
       /\ order' = [order EXCEPT ![position + 1] = order[p], ![p] = order[position + 1]]
       /\ StepTo(position + 1)
       /\ Answer("random", TRUE)
       /\ round' = round \cup {order[p]}
  /\ UNCHANGED unbroken

RandomInOrder ==
  /\ ~shuffle
  /\ \E e \in usable :
       /\ OtherUsable(e)
       /\ StepTo(IF e \in Values(order) THEN PlaceOf(e) ELSE position)
       /\ Answer("random", TRUE)
  /\ UNCHANGED <<order, ghosts>>

RandomStays ==
  /\ Stays("random")
  /\ UNCHANGED <<count, usable, shuffle, cursor, ghosts>>

MoveRandom ==
  /\ HasCurrent
  /\ RandomInBag \/ Deal("random") \/ RandomInOrder \/ RandomStays

-----------------------------------------------------------------------------
Next ==
  \/ \E n \in 0..MaxEntries : \E u \in SUBSET (1..n), e \in 1..MaxEntries : Reload(n, u, e)
  \/ SetShuffle \/ Restart
  \/ \E e \in usable : Fails(e)
  \/ MoveForward \/ MoveBackward \/ MoveRandom

Spec == Init /\ [][Next]_vars

-----------------------------------------------------------------------------
\* Every variable keeps its type.
TypeOK ==
  /\ count \in 0..MaxEntries
  /\ usable \in SUBSET Entries
  /\ shuffle \in BOOLEAN
  /\ order \in Seq(Entries) /\ position \in Nat \ {0}
  /\ history \in Seq(Entries) /\ forward \in Seq(Entries)
  /\ reply \in [op : {"start", "reload", "shuffle", "failure", "restart", "next",
                      "previous", "random"}, moved : BOOLEAN]
  /\ round \in SUBSET Nat /\ unbroken \in BOOLEAN

\* However bags are dealt, unwound and cut short, an order never holds an entry
\* twice and never loses one that can play, so none is unreachable and `previous'
\* never has to add one (move_cursor_backward's order.push).
OrderWhole ==
  /\ \A i, j \in DOMAIN order : order[i] = order[j] => i = j
  /\ usable \subseteq Values(order)

\* The cursor points into its order whenever there is anything in it, and so
\* does everything `previous' unwound: `next' can never answer that it moved
\* while its place stays where it was.
CursorPlaced ==
  /\ count > 0 => HasCurrent
  /\ Values(forward) \subseteq Values(order)

\* Neither direction of the history outgrows its limit.
HistoryBounded == Len(history) <= HistoryLimit /\ Len(forward) <= HistoryLimit

\* A shuffled round plays each usable entry once: with `next' alone, none comes
\* again before the bag is empty, and it is empty only when all were played
\* ("Every eligible entry appears once", docs/runtime-config.md).
RoundsAreFair ==
  [][unbroken /\ shuffle /\ reply'.op = "next" /\ reply'.moved =>
       IF position' > position THEN Current' \notin round ELSE usable \subseteq round]_vars

\* `next' fails only when there is nothing else to play (the same document: "If
\* every candidate is taboo, the command fails").
NextFailsOnlyAlone ==
  [][reply'.op = "next" /\ ~reply'.moved => usable \subseteq {Current}]_<<cursor, reply>>

-----------------------------------------------------------------------------
InForce == IF HasCurrent THEN Current ELSE 0

Rotates == INSTANCE Rotation WITH current <- InForce

\* The cursor implements Rotation: a command that says it moved has moved, to an entry
\* that can play, `random' does so whenever there is one, and shuffling, unwinding and
\* failures leave what is in force alone.
RotatesAsPromised == Rotates!RotationSpec
=============================================================================
