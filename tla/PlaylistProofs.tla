--------------------------- MODULE PlaylistProofs ---------------------------
(***************************************************************************)
(* Proofs about PlaylistCursor, for playlists of any length and any limit  *)
(* of the history.  The invariant adds to what the runs check what a round *)
(* is: while it is unbroken there is nothing to go forward to, and what it *)
(* played is what the order holds up to the cursor, less what failed.  The *)
(* refinement adds that an order which is not shuffled is the document's.  *)
(***************************************************************************)
EXTENDS PlaylistCursor, FiniteSetTheorems, SequenceTheorems, TLAPS

NoTwice == \A i, j \in DOMAIN order : order[i] = order[j] => i = j

RoundInv ==
  /\ unbroken => forward = <<>>
  /\ shuffle /\ unbroken /\ HasCurrent =>
       /\ \A e \in round : \E i \in DOMAIN order : i <= position /\ order[i] = e
       /\ \A i \in DOMAIN order : i <= position /\ order[i] \in usable => order[i] \in round

IInv == TypeOK /\ OrderWhole /\ CursorPlaced /\ HistoryBounded /\ RoundInv
-----------------------------------------------------------------------------
(* Histories and orders.                                                   *)

LEMMA PushKeeps ==
  ASSUME NEW S, NEW s \in Seq(S), NEW e \in S, Len(s) <= HistoryLimit
  PROVE  /\ Push(s, e) \in Seq(S)
         /\ Len(Push(s, e)) <= HistoryLimit
         /\ Values(Push(s, e)) \subseteq Values(s) \cup {e}
<1> DEFINE t == IF Len(s) = HistoryLimit THEN Tail(s) ELSE s
<1>1. /\ t \in Seq(S)
      /\ Len(t) < HistoryLimit
      /\ Values(t) \subseteq Values(s)
  <2>1. CASE Len(s) = HistoryLimit
    <3>1. s # <<>>
      BY <2>1, CursorAssumption
    <3>2. /\ Tail(s) \in Seq(S)
          /\ Len(Tail(s)) = Len(s) - 1
          /\ \A i \in 1..Len(Tail(s)) : Tail(s)[i] = s[i + 1]
      BY <3>1, HeadTailProperties
    <3>3. DOMAIN Tail(s) = 1..(Len(s) - 1) /\ DOMAIN s = 1..Len(s) /\ Len(s) \in Nat
      BY <3>2
    <3>4. Values(Tail(s)) \subseteq Values(s)
      BY <3>2, <3>3 DEF Values
    <3> QED
      BY <2>1, <3>2, <3>4, CursorAssumption
  <2>2. CASE Len(s) # HistoryLimit
    BY <2>2, CursorAssumption
  <2> QED
    BY <2>1, <2>2
<1>2. /\ Append(t, e) \in Seq(S)
      /\ Len(Append(t, e)) = Len(t) + 1
      /\ \A i \in 1..Len(t) : Append(t, e)[i] = t[i]
      /\ Append(t, e)[Len(t) + 1] = e
  <2> HIDE DEF t
  <2> QED
    BY <1>1, AppendProperties
<1>3. Values(Append(t, e)) \subseteq Values(t) \cup {e}
  <2> HIDE DEF t
  <2>1. DOMAIN Append(t, e) = 1..(Len(t) + 1) /\ DOMAIN t = 1..Len(t) /\ Len(t) \in Nat
    BY <1>1, <1>2
  <2> QED
    BY <1>2, <2>1 DEF Values
<1>4. Push(s, e) = Append(t, e)
  BY DEF Push
<1>5. Len(t) + 1 <= HistoryLimit
  <2> HIDE DEF t
  <2> QED
    BY <1>1, CursorAssumption
<1> QED
  <2> HIDE DEF t
  <2> QED
    BY <1>1, <1>2, <1>3, <1>4, <1>5

LEMMA CutKeeps ==
  ASSUME NEW S, NEW s \in Seq(S), NEW i \in DOMAIN s
  PROVE  /\ SubSeq(s, 1, i - 1) \in Seq(S)
         /\ Len(SubSeq(s, 1, i - 1)) <= Len(s)
         /\ Values(SubSeq(s, 1, i - 1)) \subseteq Values(s)
<1>1. i \in 1..Len(s) /\ Len(s) \in Nat /\ DOMAIN s = 1..Len(s)
  OBVIOUS
<1>2. \A k \in 1..(i - 1) : s[k] \in S
  BY <1>1
<1>3. /\ SubSeq(s, 1, i - 1) \in Seq(S)
      /\ Len(SubSeq(s, 1, i - 1)) = IF 1 <= i - 1 THEN i - 1 - 1 + 1 ELSE 0
      /\ \A k \in 1..(i - 1 - 1 + 1) : SubSeq(s, 1, i - 1)[k] = s[1 + k - 1]
  <2>1. i - 1 \in Int /\ 1 \in Int
    BY <1>1
  <2> QED
    BY <1>2, <2>1, SubSeqProperties
<1>4. Len(SubSeq(s, 1, i - 1)) = i - 1
  BY <1>1, <1>3
<1>5. DOMAIN SubSeq(s, 1, i - 1) = 1..(i - 1)
  BY <1>3, <1>4
<1>6. \A k \in 1..(i - 1) : SubSeq(s, 1, i - 1)[k] = s[k]
  BY <1>1, <1>3
<1> QED
  BY <1>1, <1>3, <1>4, <1>5, <1>6 DEF Values

\* Where no entry is held twice, an entry's place is the one that holds it.
LEMMA PlaceHolds ==
  ASSUME OrderWhole, order \in Seq(Entries), NEW e \in Values(order)
  PROVE  PlaceOf(e) \in DOMAIN order /\ order[PlaceOf(e)] = e
<1>1. PICK i \in DOMAIN order : order[i] = e
  BY DEF Values
<1>2. \A j \in DOMAIN order : j < i => order[j] # e
  <2> SUFFICES ASSUME NEW j \in DOMAIN order, j < i, order[j] = e
               PROVE  FALSE
    OBVIOUS
  <2>1. j = i
    BY <1>1 DEF OrderWhole
  <2>2. i \in Int
    OBVIOUS
  <2> QED
    BY <2>1, <2>2
<1> QED
  BY <1>1, <1>2 DEF PlaceOf

\* A sequence of n of the entries, none of them twice, holds them all.
LEMMA DealtAreAll ==
  ASSUME NEW n \in Nat, NEW d \in [1..n -> 1..n], \A i, j \in 1..n : d[i] = d[j] => i = j
  PROVE  Values(d) = 1..n
<1>1. d \in Injection(1..n, 1..n)
  BY DEF Injection, IsInjective
<1>2. IsFiniteSet(1..n)
  BY FS_Interval
<1>3. d \in Surjection(1..n, 1..n)
  BY <1>1, <1>2, FS_Injection
<1>4. DOMAIN d = 1..n /\ \A e \in 1..n : d[e] \in 1..n
  OBVIOUS
<1>5. \A e \in 1..n : \E i \in 1..n : d[i] = e
  BY <1>3 DEF Surjection
<1> QED
  BY <1>4, <1>5 DEF Values
-----------------------------------------------------------------------------
(* New cursors.                                                            *)

LEMMA RebuiltCursor ==
  ASSUME NEW n \in Nat, NEW shuffled \in BOOLEAN, NEW e \in Nat \ {0},
         n > 0 => e \in 1..n, Rebuilt(n, shuffled, e)
  PROVE  /\ order' \in Seq(1..n) /\ DOMAIN order' = 1..n /\ Values(order') = 1..n
         /\ NoTwice'
         /\ position' \in Nat \ {0}
         /\ n > 0 => position' \in 1..n
         /\ n > 0 /\ shuffled => position' = 1 /\ order'[1] = e
         /\ n > 0 => order'[position'] = e
<1>1. CASE shuffled /\ n > 0
  <2>1. PICK d \in [1..n -> 1..n] :
             d[1] = e /\ (\A i, j \in 1..n : d[i] = d[j] => i = j) /\ order' = d /\ position' = 1
    BY <1>1 DEF Rebuilt
  <2>2. Values(d) = 1..n
    BY <2>1, DealtAreAll
  <2>3. d \in Seq(1..n) /\ DOMAIN d = 1..n
    BY <2>1
  <2>4. NoTwice'
    BY <2>1, <2>3 DEF NoTwice
  <2> QED
    BY <1>1, <2>1, <2>2, <2>3, <2>4
<1>2. CASE ~(shuffled /\ n > 0)
  <2>1. order' = [i \in 1..n |-> i] /\ position' = e
    BY <1>2 DEF Rebuilt
  <2>2. order' \in Seq(1..n) /\ DOMAIN order' = 1..n
    BY <2>1
  <2>3. Values(order') = 1..n
    BY <2>1 DEF Values
  <2>4. NoTwice'
    BY <2>1 DEF NoTwice
  <2> QED
    BY <1>2, <2>1, <2>2, <2>3, <2>4
<1> QED
  BY <1>1, <1>2

LEMMA RebuiltInv ==
  ASSUME NEW n \in 0..MaxEntries, NEW e \in Nat \ {0}, n > 0 => e \in 1..n,
         shuffle' \in BOOLEAN, count' = n, usable' \in SUBSET (1..n),
         Rebuilt(n, shuffle', e),
         \E op \in {"reload", "shuffle"} : Answer(op, FALSE)
  PROVE  IInv'
<1>1. n \in Nat
  BY CursorAssumption
<1>2. /\ order' \in Seq(1..n) /\ DOMAIN order' = 1..n /\ Values(order') = 1..n
      /\ NoTwice'
      /\ position' \in Nat \ {0}
      /\ n > 0 => position' \in 1..n
      /\ n > 0 /\ shuffle' => position' = 1 /\ order'[1] = e
  BY <1>1, RebuiltCursor
<1>3. history' = <<>> /\ forward' = <<>> /\ round' = {e} /\ unbroken' = TRUE
  BY DEF Rebuilt
<1>4. TypeOK'
  BY <1>1, <1>2, <1>3 DEF TypeOK, Entries, Answer
<1>5. OrderWhole'
  BY <1>2 DEF OrderWhole, NoTwice, Values
<1>6. CursorPlaced'
  <2>1. (HasCurrent <=> position \in DOMAIN order)'
    BY DEF HasCurrent
  <2>2. Values(<<>>) = {}
    BY DEF Values
  <2> QED
    BY <1>2, <1>3, <2>1, <2>2 DEF CursorPlaced, Values
<1>7. HistoryBounded'
  BY <1>3, CursorAssumption DEF HistoryBounded
<1>8. RoundInv'
  <2> SUFFICES ASSUME shuffle', HasCurrent'
               PROVE  /\ \A f \in round' : \E i \in DOMAIN order' : i <= position' /\ order'[i] = f
                      /\ \A i \in DOMAIN order' :
                           i <= position' /\ order'[i] \in usable' => order'[i] \in round'
    BY <1>3 DEF RoundInv
  <2>1. n > 0
    BY <1>1, <1>2 DEF HasCurrent
  <2>2. position' = 1 /\ order'[1] = e /\ 1 \in DOMAIN order'
    BY <1>1, <1>2, <2>1
  <2> QED
    BY <1>1, <1>2, <1>3, <2>2
<1> QED
  BY <1>4, <1>5, <1>6, <1>7, <1>8 DEF IInv
-----------------------------------------------------------------------------
(* Moves.  What they all need of the cursor they begin with.               *)

LEMMA AtCurrent ==
  ASSUME IInv, HasCurrent
  PROVE  /\ Current \in Entries /\ Current \in Values(order)
         /\ DOMAIN order = 1..Len(order) /\ Len(order) \in Nat /\ position \in 1..Len(order)
         /\ count > 0
<1>1. order \in Seq(Entries) /\ position \in DOMAIN order
  BY DEF IInv, TypeOK, HasCurrent
<1>2. Current \in Entries
  BY <1>1 DEF Current
<1>3. Current \in Values(order)
  BY <1>1 DEF Current, Values
<1>4. count \in Nat
  BY CursorAssumption DEF IInv, TypeOK
<1> QED
  BY <1>1, <1>2, <1>3, <1>4 DEF Entries

\* A step that keeps the playlist and the order: what is left to show of the invariant.
LEMMA SameOrder ==
  ASSUME IInv, count' = count, shuffle' = shuffle, order' = order, usable' \subseteq usable,
         position' \in Nat \ {0}, HasCurrent => HasCurrent',
         history' \in Seq(Entries), Len(history') <= HistoryLimit,
         forward' \in Seq(Entries), Len(forward') <= HistoryLimit,
         Values(forward') \subseteq Values(order),
         NEW op \in {"failure", "restart", "next", "previous", "random"},
         NEW moved \in BOOLEAN, Answer(op, moved),
         round' \in SUBSET Nat, unbroken' \in BOOLEAN, RoundInv'
  PROVE  IInv'
<1>1. TypeOK'
  BY DEF IInv, TypeOK, Entries, Answer
<1>2. OrderWhole'
  BY DEF IInv, OrderWhole, Values
<1>3. CursorPlaced'
  BY DEF IInv, CursorPlaced, Values, HasCurrent
<1>4. HistoryBounded'
  BY DEF HistoryBounded
<1> QED
  BY <1>1, <1>2, <1>3, <1>4 DEF IInv

LEMMA FailsInv ==
  ASSUME IInv, NEW e \in usable, Fails(e)
  PROVE  IInv'
<1>1. RoundInv'
  BY DEF Fails, RoundInv, cursor, ghosts, HasCurrent, IInv
<1>2. /\ count' = count /\ shuffle' = shuffle /\ order' = order /\ position' = position
      /\ history' = history /\ forward' = forward /\ round' = round /\ unbroken' = unbroken
      /\ usable' \subseteq usable /\ Answer("failure", FALSE)
  BY DEF Fails, cursor, ghosts
<1>3. HasCurrent => HasCurrent'
  BY <1>2 DEF HasCurrent
<1> QED
  BY <1>1, <1>2, <1>3, SameOrder DEF IInv, TypeOK, CursorPlaced, HistoryBounded

LEMMA RestartInv ==
  ASSUME IInv, Restart
  PROVE  IInv'
<1>1. CASE Nowhere(order, Usable)
  <2>1. /\ count' = count /\ shuffle' = shuffle /\ order' = order /\ position' = position
        /\ history' = history /\ forward' = forward /\ round' = round /\ unbroken' = unbroken
        /\ usable' = usable /\ Answer("restart", FALSE)
    BY <1>1 DEF Restart, ghosts
  <2>2. HasCurrent => HasCurrent'
    BY <2>1 DEF HasCurrent
  <2>3. RoundInv'
    BY <2>1 DEF RoundInv, HasCurrent, IInv
  <2> QED
    BY <2>1, <2>2, <2>3, SameOrder DEF IInv, TypeOK, CursorPlaced, HistoryBounded
<1>2. CASE ~Nowhere(order, Usable)
  <2>1. PICK i \in DOMAIN order :
             /\ order[i] \in usable
             /\ \A j \in DOMAIN order : j < i => order[j] \notin usable
             /\ position' = i
             /\ round' = {order[i]} /\ unbroken' = TRUE
    BY <1>2 DEF Restart
  <2>2. /\ count' = count /\ shuffle' = shuffle /\ order' = order /\ usable' = usable
        /\ history' = <<>> /\ forward' = <<>> /\ Answer("restart", TRUE)
    BY <1>2 DEF Restart
  <2>3. i \in Nat \ {0} /\ order[i] \in Nat /\ DOMAIN order \subseteq Nat
    BY <2>1, CursorAssumption DEF IInv, TypeOK, Entries
  <2>4. RoundInv'
    <3>1. \A e \in round' : \E k \in DOMAIN order' : k <= position' /\ order'[k] = e
      BY <2>1, <2>2, <2>3
    <3>2. ASSUME NEW k \in DOMAIN order', k <= position', order'[k] \in usable'
          PROVE  order'[k] \in round'
      <4>1. k = i
        BY <2>1, <2>2, <2>3, <3>2
      <4> QED
        BY <4>1, <2>1, <2>2
    <3> QED
      BY <2>2, <3>1, <3>2 DEF RoundInv
  <2>5. HasCurrent => HasCurrent'
    BY <2>1, <2>2 DEF HasCurrent
  <2>6. Values(forward') \subseteq Values(order)
    BY <2>2 DEF Values
  <2>7. /\ position' \in Nat \ {0} /\ round' \in SUBSET Nat /\ unbroken' \in BOOLEAN
        /\ history' \in Seq(Entries) /\ forward' \in Seq(Entries)
        /\ Len(history') <= HistoryLimit /\ Len(forward') <= HistoryLimit
    BY <2>1, <2>2, <2>3, CursorAssumption
  <2> QED
    BY <2>2, <2>4, <2>5, <2>6, <2>7, SameOrder
<1> QED
  BY <1>1, <1>2

\* A step of `next' or `random' that leaves the order as it is.
LEMMA SteppedInv ==
  ASSUME IInv, HasCurrent, NEW p \in DOMAIN order, StepTo(p), order' = order,
         NEW op \in {"next", "random"}, NEW moved \in BOOLEAN, Answer(op, moved),
         round' \in SUBSET Nat, unbroken' \in BOOLEAN, RoundInv'
  PROVE  IInv'
<1>1. /\ count' = count /\ shuffle' = shuffle /\ usable' = usable /\ position' = p
      /\ history' = Push(history, Current) /\ forward' = <<>>
  BY DEF StepTo
<1>2. Current \in Entries /\ position' \in Nat \ {0}
  BY <1>1, AtCurrent
<1>3. history' \in Seq(Entries) /\ Len(history') <= HistoryLimit
  BY <1>1, <1>2, PushKeeps DEF IInv, TypeOK, HistoryBounded
<1>4. forward' \in Seq(Entries) /\ Len(forward') <= HistoryLimit
  BY <1>1, CursorAssumption
<1>5. HasCurrent' /\ Values(forward') \subseteq Values(order)
  BY <1>1 DEF HasCurrent, Values
<1> QED
  BY <1>1, <1>2, <1>3, <1>4, <1>5, SameOrder

LEMMA FollowForwardInv ==
  ASSUME IInv, HasCurrent, FollowForward
  PROVE  IInv'
<1>1. PICK i \in DOMAIN forward :
           /\ forward' = SubSeq(forward, 1, i - 1)
           /\ history' = Push(history, Current)
           /\ position' = IF forward[i] \in Values(order) THEN PlaceOf(forward[i]) ELSE position
           /\ Answer("next", forward[i] # Current)
           /\ unbroken' = FALSE
           /\ UNCHANGED <<count, usable, shuffle, order, round>>
  BY DEF FollowForward
<1>2. position' \in DOMAIN order
  BY <1>1, PlaceHolds DEF IInv, TypeOK, HasCurrent
<1>3. position' \in Nat \ {0} /\ HasCurrent'
  BY <1>1, <1>2, AtCurrent DEF HasCurrent
<1>4. history' \in Seq(Entries) /\ Len(history') <= HistoryLimit
  BY <1>1, AtCurrent, PushKeeps DEF IInv, TypeOK, HistoryBounded
<1>5. /\ forward' \in Seq(Entries)
      /\ Len(forward') <= Len(forward)
      /\ Values(forward') \subseteq Values(forward)
  BY <1>1, CutKeeps DEF IInv, TypeOK
<1>6. Len(forward') <= HistoryLimit /\ Values(forward') \subseteq Values(order)
  BY <1>5, CursorAssumption DEF IInv, TypeOK, HistoryBounded, CursorPlaced
<1>7. RoundInv'
  BY <1>1 DEF RoundInv
<1>8. (forward[i] # Current) \in BOOLEAN
  OBVIOUS
<1> QED
  BY <1>1, <1>3, <1>4, <1>5, <1>6, <1>7, <1>8, SameOrder DEF IInv, TypeOK

LEMMA NextInBagInv ==
  ASSUME IInv, HasCurrent, NextInBag
  PROVE  IInv'
<1>1. PICK p \in AheadUsable :
           /\ \A q \in AheadUsable : p <= q
           /\ StepTo(p)
           /\ Answer("next", order[p] # Current)
           /\ round' = round \cup {order[p]}
  BY DEF NextInBag
<1>2. order' = order /\ unbroken' = unbroken /\ position' = p /\ forward' = <<>>
      /\ shuffle' = shuffle /\ usable' = usable /\ shuffle
  BY <1>1 DEF NextInBag, StepTo
<1>3. p \in DOMAIN order /\ p > position /\ order[p] \in usable /\ order[p] \in Entries
  BY DEF AheadUsable, IInv, TypeOK
<1>4. RoundInv'
  <2> SUFFICES ASSUME unbroken
               PROVE  /\ \A e \in round' : \E k \in DOMAIN order' : k <= position' /\ order'[k] = e
                      /\ \A k \in DOMAIN order' :
                           k <= position' /\ order'[k] \in usable' => order'[k] \in round'
    BY <1>2 DEF RoundInv
  <2>1. /\ \A e \in round : \E k \in DOMAIN order : k <= position /\ order[k] = e
        /\ \A k \in DOMAIN order : k <= position /\ order[k] \in usable => order[k] \in round
    BY <1>2 DEF IInv, RoundInv
  <2>2. ASSUME NEW e \in round'
        PROVE  \E k \in DOMAIN order' : k <= position' /\ order'[k] = e
    BY <1>1, <1>2, <1>3, <2>1, <2>2, AtCurrent
  <2>3. ASSUME NEW k \in DOMAIN order', k <= position', order'[k] \in usable'
        PROVE  order'[k] \in round'
    <3>1. k \in DOMAIN order /\ order[k] \in usable /\ k <= p
      BY <1>2, <2>3
    <3>2. CASE k <= position
      BY <1>1, <1>2, <2>1, <3>1, <3>2
    <3>3. CASE k > position
      <4>1. k \in AheadUsable
        BY <3>1, <3>3 DEF AheadUsable
      <4>2. k = p
        BY <4>1, <3>1, <1>1, <1>3, AtCurrent
      <4> QED
        BY <4>2, <1>1, <1>2
    <3> QED
      BY <3>1, <3>2, <3>3, <1>3, AtCurrent
  <2> QED
    BY <2>2, <2>3
<1>5. round' \in SUBSET Nat /\ unbroken' \in BOOLEAN
  <2>1. order[p] \in Nat
    BY <1>3, AtCurrent DEF Entries
  <2>2. round \in SUBSET Nat /\ unbroken \in BOOLEAN
    BY DEF IInv, TypeOK
  <2> QED
    BY <1>1, <1>2, <2>1, <2>2
<1>6. (order[p] # Current) \in BOOLEAN
  OBVIOUS
<1> QED
  BY <1>1, <1>2, <1>3, <1>4, <1>5, <1>6, SteppedInv

LEMMA NextInOrderInv ==
  ASSUME IInv, HasCurrent, NextInOrder
  PROVE  IInv'
<1> DEFINE Place(k) == ((position - 1 + k) % Len(order)) + 1
<1>1. PICK offset \in 1..Len(order) : StepTo(Place(offset)) /\ Answer("next", TRUE)
  BY DEF NextInOrder
<1>2. Place(offset) \in DOMAIN order
  <2>1. Len(order) \in Nat \ {0} /\ position - 1 + offset \in Nat
    BY <1>1, AtCurrent
  <2>2. (position - 1 + offset) % Len(order) \in 0..(Len(order) - 1)
    BY <2>1
  <2> QED
    BY <2>1, <2>2, AtCurrent
<1>3. order' = order /\ round' = round /\ unbroken' = unbroken /\ ~shuffle' /\ forward' = <<>>
  BY <1>1 DEF NextInOrder, ghosts, StepTo
<1>4. RoundInv'
  BY <1>3 DEF RoundInv
<1> HIDE DEF Place
<1> QED
  BY <1>1, <1>2, <1>3, <1>4, SteppedInv DEF IInv, TypeOK

LEMMA RandomInOrderInv ==
  ASSUME IInv, HasCurrent, RandomInOrder
  PROVE  IInv'
<1>1. PICK e \in usable : /\ StepTo(IF e \in Values(order) THEN PlaceOf(e) ELSE position)
                          /\ Answer("random", TRUE)
  BY DEF RandomInOrder
<1>2. (IF e \in Values(order) THEN PlaceOf(e) ELSE position) \in DOMAIN order
  BY PlaceHolds DEF IInv, TypeOK, HasCurrent
<1>3. order' = order /\ round' = round /\ unbroken' = unbroken /\ ~shuffle' /\ forward' = <<>>
  BY <1>1 DEF RandomInOrder, ghosts, StepTo
<1>4. RoundInv'
  BY <1>3 DEF RoundInv
<1> QED
  BY <1>1, <1>2, <1>3, <1>4, SteppedInv DEF IInv, TypeOK

\* A step of `next' or `random' that changes the order for another one as whole.
LEMMA ReorderedInv ==
  ASSUME IInv, HasCurrent, NEW p \in DOMAIN order', StepTo(p), p \in Nat \ {0},
         order' \in Seq(Entries), OrderWhole',
         NEW op \in {"next", "random"}, Answer(op, TRUE),
         round' \in SUBSET Nat, unbroken' \in BOOLEAN, RoundInv'
  PROVE  IInv'
<1>1. /\ count' = count /\ shuffle' = shuffle /\ usable' = usable /\ position' = p
      /\ history' = Push(history, Current) /\ forward' = <<>>
  BY DEF StepTo
<1>2. history' \in Seq(Entries) /\ Len(history') <= HistoryLimit
  BY <1>1, AtCurrent, PushKeeps DEF IInv, TypeOK, HistoryBounded
<1>3. forward' \in Seq(Entries) /\ Len(forward') <= HistoryLimit
  BY <1>1, CursorAssumption
<1>4. TypeOK'
  BY <1>1, <1>2, <1>3 DEF IInv, TypeOK, Entries, Answer
<1>5. CursorPlaced'
  BY <1>1 DEF CursorPlaced, HasCurrent, Values
<1>6. HistoryBounded'
  BY <1>2, <1>3 DEF HistoryBounded
<1> QED
  BY <1>4, <1>5, <1>6 DEF IInv

LEMMA DealInv ==
  ASSUME IInv, HasCurrent, NEW op \in {"next", "random"}, Deal(op)
  PROVE  IInv'
<1>1. PICK bag \in Deals(usable) :
           /\ bag # <<>>
           /\ order' = bag
           /\ StepTo(1)
           /\ Answer(op, TRUE)
           /\ round' = {bag[1]} /\ unbroken' = TRUE
  BY DEF Deal
<1>2. PICK n \in 0..count : bag \in [1..n -> usable]
  BY DEF Deals
<1>3. Values(bag) = usable /\ \A i, j \in DOMAIN bag : bag[i] = bag[j] => i = j
  BY DEF Deals
<1>4. usable \subseteq Entries /\ count \in Nat
  BY CursorAssumption DEF IInv, TypeOK
<1>5. bag \in Seq(usable) /\ DOMAIN bag = 1..n /\ n \in Nat
  BY <1>2, <1>4
<1>6. order' \in Seq(Entries)
  BY <1>1, <1>4, <1>5
<1>7. 1 \in DOMAIN order'
  BY <1>1, <1>5
<1>8. OrderWhole'
  <2>1. usable' = usable
    BY <1>1 DEF StepTo
  <2> QED
    BY <1>1, <1>3, <2>1 DEF OrderWhole, Values
<1>9. round' \in SUBSET Nat
  BY <1>1, <1>4, <1>6, <1>7 DEF Entries
<1>10. RoundInv'
  <2>1. position' = 1 /\ forward' = <<>>
    BY <1>1 DEF StepTo
  <2>2. \A i \in DOMAIN order' : i <= 1 => i = 1
    BY <1>1, <1>5
  <2> QED
    BY <1>1, <1>7, <2>1, <2>2 DEF RoundInv
<1>11. 1 \in Nat \ {0} /\ unbroken' \in BOOLEAN
  BY <1>1
<1> QED
  BY <1>1, <1>6, <1>7, <1>8, <1>9, <1>10, <1>11, ReorderedInv

LEMMA RandomInBagInv ==
  ASSUME IInv, HasCurrent, RandomInBag
  PROVE  IInv'
<1>1. PICK p \in AheadUsable :
           /\ order' = [order EXCEPT ![position + 1] = order[p], ![p] = order[position + 1]]
           /\ StepTo(position + 1)
           /\ Answer("random", TRUE)
           /\ round' = round \cup {order[p]}
  BY DEF RandomInBag
<1>2. unbroken' = unbroken /\ shuffle' = shuffle /\ usable' = usable /\ shuffle
      /\ position' = position + 1 /\ forward' = <<>>
  BY <1>1 DEF RandomInBag, StepTo
<1>3. p \in DOMAIN order /\ p > position /\ order[p] \in usable
  BY DEF AheadUsable
<1>4. /\ DOMAIN order = 1..Len(order) /\ Len(order) \in Nat /\ position \in 1..Len(order)
      /\ order \in Seq(Entries)
  BY AtCurrent DEF IInv, TypeOK
<1>5. position + 1 \in DOMAIN order
  BY <1>3, <1>4
<1>6. /\ DOMAIN order' = DOMAIN order
      /\ order'[position + 1] = order[p]
      /\ order'[p] = order[position + 1]
      /\ \A i \in DOMAIN order : i # p /\ i # position + 1 => order'[i] = order[i]
  BY <1>1, <1>3, <1>5
<1>7. order' \in Seq(Entries)
  <2>1. order' \in [1..Len(order) -> Entries]
    BY <1>1, <1>3, <1>4, <1>5
  <2> QED
    BY <1>4, <2>1
<1>8. OrderWhole'
  <2> DEFINE from(i) == IF i = p THEN position + 1 ELSE IF i = position + 1 THEN p ELSE i
  <2>1. \A i \in DOMAIN order : from(i) \in DOMAIN order /\ order'[i] = order[from(i)]
    BY <1>3, <1>5, <1>6
  <2>2. \A i \in DOMAIN order : from(from(i)) = i
    OBVIOUS
  <2>3. \A i, j \in DOMAIN order' : order'[i] = order'[j] => i = j
    <3> SUFFICES ASSUME NEW i \in DOMAIN order', NEW j \in DOMAIN order', order'[i] = order'[j]
                 PROVE  i = j
      OBVIOUS
    <3>1. from(i) = from(j)
      <4> HIDE DEF from
      <4> QED
        BY <1>6, <2>1 DEF IInv, OrderWhole
    <3> QED
      BY <3>1
  <2>4. ASSUME NEW e \in usable
        PROVE  \E i \in DOMAIN order' : order'[i] = e
    <3>1. PICK i \in DOMAIN order : order[i] = e
      BY DEF IInv, OrderWhole, Values
    <3>2. from(i) \in DOMAIN order' /\ order'[from(i)] = order[from(from(i))]
      <4> HIDE DEF from
      <4> QED
        BY <1>6, <2>1
    <3> QED
      BY <2>2, <3>1, <3>2
  <2> HIDE DEF from
  <2> QED
    BY <1>2, <2>3, <2>4 DEF OrderWhole, Values
<1>9. RoundInv'
  <2> SUFFICES ASSUME unbroken
               PROVE  /\ \A e \in round' : \E k \in DOMAIN order' : k <= position' /\ order'[k] = e
                      /\ \A k \in DOMAIN order' :
                           k <= position' /\ order'[k] \in usable' => order'[k] \in round'
    BY <1>2 DEF RoundInv
  <2>1. /\ \A e \in round : \E k \in DOMAIN order : k <= position /\ order[k] = e
        /\ \A k \in DOMAIN order : k <= position /\ order[k] \in usable => order[k] \in round
    BY <1>2 DEF IInv, RoundInv
  <2>2. \A k \in DOMAIN order : k <= position => order'[k] = order[k]
    BY <1>3, <1>4, <1>6
  <2>3. ASSUME NEW e \in round'
        PROVE  \E k \in DOMAIN order' : k <= position' /\ order'[k] = e
    <3>1. CASE e = order[p]
      BY <3>1, <1>2, <1>4, <1>5, <1>6
    <3>2. CASE e \in round
      <4>1. PICK k \in DOMAIN order : k <= position /\ order[k] = e
        BY <2>1, <3>2
      <4> QED
        BY <4>1, <2>2, <1>2, <1>4, <1>6
    <3> QED
      BY <1>1, <3>1, <3>2
  <2>4. ASSUME NEW k \in DOMAIN order', k <= position', order'[k] \in usable'
        PROVE  order'[k] \in round'
    <3>1. CASE k = position + 1
      BY <3>1, <1>1, <1>6
    <3>2. CASE k <= position
      BY <3>2, <2>1, <2>2, <2>4, <1>1, <1>2, <1>6
    <3> QED
      BY <3>1, <3>2, <2>4, <1>2, <1>4, <1>6
  <2> QED
    BY <2>3, <2>4
<1>10. round' \in SUBSET Nat /\ unbroken' \in BOOLEAN
  <2>1. order[p] \in Entries /\ count \in Nat
    BY <1>3, <1>4, CursorAssumption DEF IInv, TypeOK
  <2> USE <2>1 DEF Entries
  <2>2. round \in SUBSET Nat /\ unbroken \in BOOLEAN
    BY DEF IInv, TypeOK
  <2> QED
    BY <1>1, <1>2, <2>1, <2>2
<1>11. position + 1 \in DOMAIN order' /\ position + 1 \in Nat \ {0}
  BY <1>4, <1>5, <1>6
<1> QED
  BY <1>1, <1>7, <1>8, <1>9, <1>10, <1>11, ReorderedInv

LEMMA StaysInv ==
  ASSUME IInv, HasCurrent, NextStays \/ RandomStays
  PROVE  IInv'
<1>1. /\ count' = count /\ shuffle' = shuffle /\ order' = order /\ position' = position
      /\ history' = history /\ forward' \in {forward, <<>>} /\ round' = round
      /\ unbroken' = unbroken /\ usable' = usable
  BY DEF NextStays, RandomStays, cursor, ghosts
<1>2. \E op \in {"next", "random"} : Answer(op, FALSE)
  BY DEF NextStays, RandomStays, Stays
<1>3. RoundInv'
  BY <1>1 DEF RoundInv, HasCurrent, IInv
<1>4. HasCurrent => HasCurrent'
  BY <1>1 DEF HasCurrent
<1>5. /\ forward' \in Seq(Entries) /\ Len(forward') <= HistoryLimit
      /\ Values(forward') \subseteq Values(order)
  <2>1. CASE forward' = forward
    BY <2>1 DEF IInv, TypeOK, HistoryBounded, CursorPlaced
  <2>2. CASE forward' = <<>>
    BY <2>2, CursorAssumption DEF Values
  <2> QED
    BY <1>1, <2>1, <2>2
<1> QED
  BY <1>1, <1>2, <1>3, <1>4, <1>5, SameOrder DEF IInv, TypeOK, HistoryBounded

LEMMA MoveBackwardInv ==
  ASSUME IInv, MoveBackward
  PROVE  IInv'
<1>1. HasCurrent /\ unbroken' = FALSE /\ UNCHANGED <<count, usable, shuffle, round>>
  BY DEF MoveBackward
<1>2. RoundInv'
  BY <1>1 DEF RoundInv
<1>3. ASSUME NEW i \in DOMAIN history,
             /\ Topmost(history, i, OtherUsable)
             /\ history' = SubSeq(history, 1, i - 1)
             /\ forward' = Push(forward, Current)
             /\ IF history[i] \in Values(order)
                THEN position' = PlaceOf(history[i]) /\ UNCHANGED order
                ELSE /\ order' = Append(order, history[i])
                     /\ position' = Len(order) + 1
             /\ Answer("previous", TRUE)
      PROVE  IInv'
  <2>1. history[i] \in Values(order)
    BY <1>3 DEF Topmost, OtherUsable, IInv, OrderWhole
  <2>2. position' = PlaceOf(history[i]) /\ order' = order
    BY <1>3, <2>1
  <2>3. position' \in DOMAIN order
    BY <2>1, <2>2, PlaceHolds DEF IInv, TypeOK
  <2>4. position' \in Nat \ {0} /\ HasCurrent'
    BY <1>1, <2>2, <2>3, AtCurrent DEF HasCurrent
  <2>5. history' \in Seq(Entries) /\ Len(history') <= Len(history)
    BY <1>3, CutKeeps DEF IInv, TypeOK
  <2>6. Len(history') <= HistoryLimit
    BY <2>5, CursorAssumption DEF IInv, TypeOK, HistoryBounded
  <2>7. /\ forward' \in Seq(Entries) /\ Len(forward') <= HistoryLimit
        /\ Values(forward') \subseteq Values(forward) \cup {Current}
    BY <1>1, <1>3, AtCurrent, PushKeeps DEF IInv, TypeOK, HistoryBounded
  <2>8. Values(forward') \subseteq Values(order)
    BY <1>1, <2>7, AtCurrent DEF IInv, CursorPlaced
  <2> QED
    BY <1>1, <1>2, <1>3, <2>2, <2>4, <2>5, <2>6, <2>7, <2>8, SameOrder DEF IInv, TypeOK
<1>4. ASSUME history' = <<>>, Answer("previous", FALSE), UNCHANGED <<order, position, forward>>
      PROVE  IInv'
  <2>1. history' \in Seq(Entries) /\ Len(history') <= HistoryLimit
    BY <1>4, CursorAssumption
  <2>2. HasCurrent => HasCurrent'
    BY <1>4 DEF HasCurrent
  <2> QED
    BY <1>1, <1>2, <1>4, <2>1, <2>2, SameOrder DEF IInv, TypeOK, HistoryBounded, CursorPlaced
<1> QED
  BY <1>3, <1>4 DEF MoveBackward
-----------------------------------------------------------------------------
LEMMA InitInv == Init => IInv
<1> SUFFICES ASSUME Init
             PROVE  IInv
  OBVIOUS
<1>1. count \in Nat /\ order = [i \in 1..count |-> i] /\ position = 1 /\ forward = <<>>
      /\ usable \in SUBSET (1..count) /\ history = <<>> /\ shuffle = FALSE
  BY CursorAssumption DEF Init
<1>2. TypeOK
  <2>1. order \in Seq(Entries) /\ history \in Seq(Entries) /\ forward \in Seq(Entries)
    BY <1>1 DEF Entries
  <2>2. round \in SUBSET Nat /\ unbroken \in BOOLEAN
    BY DEF Init
  <2>3. reply \in [op : {"start", "reload", "shuffle", "failure", "restart", "next",
                        "previous", "random"}, moved : BOOLEAN]
    BY DEF Init
  <2>4. count \in 0..MaxEntries /\ usable \in SUBSET Entries /\ shuffle \in BOOLEAN
    BY DEF Init, Entries
  <2>5. position \in Nat \ {0}
    BY <1>1
  <2> QED
    BY <2>1, <2>2, <2>3, <2>4, <2>5 DEF TypeOK
<1>3. OrderWhole /\ CursorPlaced
  BY <1>1 DEF OrderWhole, CursorPlaced, HasCurrent, Values
<1>4. HistoryBounded
  BY <1>1, CursorAssumption DEF HistoryBounded
<1>5. RoundInv
  BY <1>1 DEF RoundInv
<1> QED
  BY <1>2, <1>3, <1>4, <1>5 DEF IInv

LEMMA NextInv == IInv /\ [Next]_vars => IInv'
<1> SUFFICES ASSUME IInv, [Next]_vars
             PROVE  IInv'
  OBVIOUS
<1>1. ASSUME NEW n \in 0..MaxEntries, NEW u \in SUBSET (1..n), NEW e \in 1..MaxEntries,
             Reload(n, u, e)
      PROVE  IInv'
  <2>1. /\ n > 0 => e \in 1..n
        /\ count' = n /\ usable' = u /\ shuffle' = shuffle
        /\ Rebuilt(n, shuffle, e) /\ Answer("reload", FALSE)
    BY <1>1 DEF Reload
  <2>2. shuffle' \in BOOLEAN /\ e \in Nat \ {0}
    BY <2>1, CursorAssumption DEF IInv, TypeOK
  <2>3. Rebuilt(n, shuffle', e)
    BY <2>1
  <2> QED
    BY <2>1, <2>2, <2>3, RebuiltInv
<1>2. CASE SetShuffle
  <2> DEFINE e == IF HasCurrent THEN Current ELSE 1
  <2>1. /\ shuffle' = ~shuffle /\ count' = count /\ usable' = usable
        /\ Rebuilt(count, shuffle', e) /\ Answer("shuffle", FALSE)
    BY <1>2 DEF SetShuffle
  <2>2. e \in Nat \ {0} /\ (count > 0 => e \in 1..count)
    BY AtCurrent DEF IInv, CursorPlaced, Entries
  <2>3. shuffle' \in BOOLEAN /\ count \in 0..MaxEntries /\ usable' \in SUBSET (1..count)
    BY <2>1 DEF IInv, TypeOK, Entries
  <2> HIDE DEF e
  <2> QED
    BY <2>1, <2>2, <2>3, RebuiltInv
<1>3. CASE Restart
  BY <1>3, RestartInv
<1>4. ASSUME NEW e \in usable, Fails(e)
      PROVE  IInv'
  BY <1>4, FailsInv
<1>5. CASE MoveForward
  BY <1>5, FollowForwardInv, NextInBagInv, DealInv, NextInOrderInv, StaysInv DEF MoveForward
<1>6. CASE MoveBackward
  BY <1>6, MoveBackwardInv
<1>7. CASE MoveRandom
  BY <1>7, RandomInBagInv, DealInv, RandomInOrderInv, StaysInv DEF MoveRandom
<1>8. CASE UNCHANGED vars
  <2>1. /\ count' = count /\ usable' = usable /\ shuffle' = shuffle /\ order' = order
        /\ position' = position /\ history' = history /\ forward' = forward /\ reply' = reply
        /\ round' = round /\ unbroken' = unbroken
    BY <1>8 DEF vars, cursor, ghosts
  <2>2. TypeOK'
    BY <2>1 DEF IInv, TypeOK, Entries
  <2>3. OrderWhole' /\ CursorPlaced' /\ HistoryBounded' /\ RoundInv'
    BY <2>1 DEF IInv, OrderWhole, CursorPlaced, HistoryBounded, RoundInv, HasCurrent, Values
  <2> QED
    BY <2>2, <2>3 DEF IInv
<1> QED
  BY <1>1, <1>2, <1>3, <1>4, <1>5, <1>6, <1>7, <1>8 DEF Next

\* Whatever is loaded, shuffled, dealt and refused, the invariant holds.
THEOREM CursorInvariant == Spec => []IInv
  BY InitInv, NextInv, PTL DEF Spec

\* The cursor keeps its type, and so do its histories.
THEOREM CursorTypes == Spec => []TypeOK
  BY CursorInvariant, PTL DEF IInv

\* An order holds no entry twice and every one that can play, for a playlist of any
\* length and after any sequence of commands, reloads and failures.
THEOREM OrderIsWhole == Spec => []OrderWhole
  BY CursorInvariant, PTL DEF IInv

\* The cursor is always on an entry, and so is all that `next' would return to.
THEOREM CursorIsPlaced == Spec => []CursorPlaced
  BY CursorInvariant, PTL DEF IInv

\* Neither history outgrows PLAYBACK_HISTORY_LIMIT, whatever the limit.
THEOREM HistoryIsBounded == Spec => []HistoryBounded
  BY CursorInvariant, PTL DEF IInv
-----------------------------------------------------------------------------
(* What the moves answer.                                                  *)

Arrives == Current' # Current /\ Current' \in usable

LEMMA DealArrives ==
  ASSUME IInv, HasCurrent, NEW op, Deal(op)
  PROVE  Arrives
<1>1. PICK bag \in Deals(usable) : bag # <<>> /\ bag[1] # Current /\ order' = bag /\ StepTo(1)
  BY DEF Deal
<1>2. Current' = bag[1]
  BY <1>1 DEF StepTo, Current
<1>3. bag[1] \in usable
  <2>1. PICK n \in 0..count : bag \in [1..n -> usable]
    BY DEF Deals
  <2>2. n \in Nat /\ n # 0
    BY <1>1, <2>1, CursorAssumption DEF IInv, TypeOK
  <2> QED
    BY <2>1, <2>2
<1> QED
  BY <1>1, <1>2, <1>3 DEF Arrives

LEMMA MoveForwardArrives ==
  ASSUME IInv, MoveForward, reply'.moved
  PROVE  Arrives
<1>1. HasCurrent
  BY DEF MoveForward
<1>2. CASE FollowForward
  <2>1. PICK i \in DOMAIN forward :
             /\ Topmost(forward, i, Usable)
             /\ position' = IF forward[i] \in Values(order) THEN PlaceOf(forward[i]) ELSE position
             /\ Answer("next", forward[i] # Current)
             /\ order' = order
    BY <1>2 DEF FollowForward
  <2>2. forward[i] \in usable /\ forward[i] \in Values(order)
    BY <2>1 DEF Topmost, Usable, IInv, CursorPlaced, Values
  <2>3. Current' = forward[i]
    BY <2>1, <2>2, PlaceHolds DEF Current, IInv, TypeOK
  <2> QED
    BY <2>1, <2>2, <2>3 DEF Answer, Arrives
<1>3. CASE NextInBag
  <2>1. PICK p \in AheadUsable : StepTo(p) /\ Answer("next", order[p] # Current)
    BY <1>3 DEF NextInBag
  <2>2. Current' = order[p]
    BY <1>3, <2>1 DEF NextInBag, StepTo, Current
  <2> QED
    BY <2>1, <2>2 DEF Answer, Arrives, AheadUsable
<1>4. CASE Deal("next")
  BY <1>1, <1>4, DealArrives
<1>5. CASE NextInOrder
  <2>1. PICK offset \in 1..Len(order) :
             LET Place(k) == ((position - 1 + k) % Len(order)) + 1 IN
             OtherUsable(order[Place(offset)]) /\ StepTo(Place(offset))
    BY <1>5 DEF NextInOrder
  <2> QED
    BY <1>5, <2>1 DEF NextInOrder, StepTo, Current, OtherUsable, Arrives
<1>6. CASE NextStays
  BY <1>6 DEF NextStays, Stays, Answer
<1> QED
  BY <1>2, <1>3, <1>4, <1>5, <1>6 DEF MoveForward

LEMMA MoveBackwardArrives ==
  ASSUME IInv, MoveBackward, reply'.moved
  PROVE  Arrives
<1>1. PICK i \in DOMAIN history :
           /\ Topmost(history, i, OtherUsable)
           /\ IF history[i] \in Values(order)
              THEN position' = PlaceOf(history[i]) /\ UNCHANGED order
              ELSE /\ order' = Append(order, history[i])
                   /\ position' = Len(order) + 1
  BY DEF MoveBackward, Answer
<1>2. history[i] \in usable /\ history[i] # Current /\ history[i] \in Values(order)
  BY <1>1 DEF Topmost, OtherUsable, IInv, OrderWhole
<1>3. Current' = history[i]
  BY <1>1, <1>2, PlaceHolds DEF Current, IInv, TypeOK
<1> QED
  BY <1>2, <1>3 DEF Arrives

LEMMA MoveRandomArrives ==
  ASSUME IInv, MoveRandom, reply'.moved
  PROVE  Arrives
<1>1. HasCurrent
  BY DEF MoveRandom
<1>2. CASE RandomInBag
  <2>1. PICK p \in AheadUsable :
             /\ order' = [order EXCEPT ![position + 1] = order[p], ![p] = order[position + 1]]
             /\ StepTo(position + 1)
    BY <1>2 DEF RandomInBag
  <2>2. p \in DOMAIN order /\ p > position /\ order[p] \in usable
    BY DEF AheadUsable
  <2>3. position + 1 \in DOMAIN order
    BY <1>1, <2>2, AtCurrent
  <2>4. Current' = order[p]
    BY <2>1, <2>2, <2>3 DEF StepTo, Current
  <2>5. order[p] # Current
    BY <1>1, <2>2, AtCurrent DEF IInv, OrderWhole, Current
  <2> QED
    BY <2>2, <2>4, <2>5 DEF Arrives
<1>3. CASE Deal("random")
  BY <1>1, <1>3, DealArrives
<1>4. CASE RandomInOrder
  <2>1. PICK e \in usable : /\ OtherUsable(e)
                            /\ StepTo(IF e \in Values(order) THEN PlaceOf(e) ELSE position)
    BY <1>4 DEF RandomInOrder
  <2>2. e \in Values(order)
    BY DEF IInv, OrderWhole
  <2>3. Current' = e
    BY <1>4, <2>1, <2>2, PlaceHolds DEF RandomInOrder, StepTo, Current, IInv, TypeOK
  <2> QED
    BY <2>1, <2>3 DEF OtherUsable, Arrives
<1>5. CASE RandomStays
  BY <1>5 DEF RandomStays, Stays, Answer
<1> QED
  BY <1>2, <1>3, <1>4, <1>5 DEF MoveRandom

\* Commands and changes that are none of the moves say so.
LEMMA OnlyMovesMove ==
  ASSUME Next, reply'.op \in {"next", "previous", "random"}
  PROVE  \/ MoveForward /\ reply'.op \in {"next"}
         \/ MoveBackward /\ reply'.op \in {"previous"}
         \/ MoveRandom /\ reply'.op \in {"random"}
<1>1. ASSUME NEW n, NEW u, NEW e, Reload(n, u, e)
      PROVE  FALSE
  BY <1>1 DEF Reload, Answer
<1>2. ~SetShuffle /\ ~Restart
  BY DEF SetShuffle, Restart, Answer
<1>3. ASSUME NEW e, Fails(e)
      PROVE  FALSE
  BY <1>3 DEF Fails, Answer
<1>4. MoveForward => reply'.op = "next"
  BY DEF MoveForward, FollowForward, NextInBag, Deal, NextInOrder, NextStays, Stays, Answer
<1>5. MoveBackward => reply'.op = "previous"
  BY DEF MoveBackward, Answer
<1>6. MoveRandom => reply'.op = "random"
  BY DEF MoveRandom, RandomInBag, Deal, RandomInOrder, RandomStays, Stays, Answer
<1> QED
  BY <1>1, <1>2, <1>3, <1>4, <1>5, <1>6 DEF Next

LEMMA MoveForwardIsFair ==
  ASSUME IInv, MoveForward, unbroken, shuffle, reply'.moved
  PROVE  IF position' > position THEN Current' \notin round ELSE usable \subseteq round
<1>1. HasCurrent
  BY DEF MoveForward
<1>2. /\ forward = <<>>
      /\ \A e \in round : \E i \in DOMAIN order : i <= position /\ order[i] = e
      /\ \A i \in DOMAIN order : i <= position /\ order[i] \in usable => order[i] \in round
  BY <1>1 DEF IInv, RoundInv
<1>3. ~FollowForward
  BY <1>2 DEF FollowForward
<1>4. CASE NextInBag
  <2>1. PICK p \in AheadUsable : StepTo(p)
    BY <1>4 DEF NextInBag
  <2>2. position' = p /\ Current' = order[p] /\ p \in DOMAIN order /\ p > position
    BY <1>4, <2>1 DEF NextInBag, StepTo, Current, AheadUsable
  <2>3. \A i \in DOMAIN order : i <= position => i # p
    BY <1>1, <2>2, AtCurrent
  <2>4. order[p] \notin round
    BY <1>2, <2>2, <2>3 DEF IInv, OrderWhole
  <2> QED
    BY <2>2, <2>4
<1>5. CASE Deal("next")
  <2>1. position' = 1 /\ AheadUsable = {}
    BY <1>5 DEF Deal, StepTo
  <2>2. ~(position' > position)
    BY <1>1, <2>1, AtCurrent
  <2>3. ASSUME NEW e \in usable
        PROVE  e \in round
    <3>1. PICK i \in DOMAIN order : order[i] = e
      BY DEF IInv, OrderWhole, Values
    <3>2. ~(i > position)
      BY <2>1, <3>1 DEF AheadUsable
    <3>3. i <= position
      BY <1>1, <3>2, AtCurrent
    <3> QED
      BY <1>2, <3>1, <3>3
  <2> QED
    BY <2>2, <2>3
<1>6. ~NextInOrder
  BY DEF NextInOrder
<1>7. CASE NextStays
  BY <1>7 DEF NextStays, Stays, Answer
<1> QED
  BY <1>3, <1>4, <1>5, <1>6, <1>7 DEF MoveForward

\* While `next' is the only command, a shuffled round plays nothing twice and ends only
\* when all that can play were played, for a playlist of any length.
THEOREM RoundIsFair == Spec => RoundsAreFair
<1>1. IInv /\ [Next]_vars =>
        [unbroken /\ shuffle /\ reply'.op = "next" /\ reply'.moved =>
           IF position' > position THEN Current' \notin round ELSE usable \subseteq round]_vars
  BY OnlyMovesMove, MoveForwardIsFair
<1> QED
  BY <1>1, CursorInvariant, PTL DEF Spec, RoundsAreFair
-----------------------------------------------------------------------------
(* The cursor implements Rotation.                                         *)

\* Not shuffled, the order is the document's.
Straight == ~shuffle => order = [i \in 1..count |-> i]

LEMMA NextStraight ==
  ASSUME IInv, Straight, [Next]_vars
  PROVE  Straight'
<1>1. ASSUME NEW n, NEW u, NEW e, Reload(n, u, e)
      PROVE  Straight'
  BY <1>1 DEF Reload, Rebuilt, Straight
<1>2. CASE SetShuffle
  BY <1>2 DEF SetShuffle, Rebuilt, Straight
<1>3. ASSUME UNCHANGED <<count, shuffle, order>>
      PROVE  Straight'
  BY <1>3 DEF Straight
<1>4. ASSUME NEW e, Fails(e)
      PROVE  Straight'
  BY <1>3, <1>4 DEF Fails, cursor
<1>5. Restart => Straight'
  BY <1>3 DEF Restart
<1>6. ASSUME NEW op, Deal(op)
      PROVE  Straight'
  BY <1>6 DEF Deal, StepTo, Straight
<1>7. MoveForward => Straight'
  <2>1. FollowForward \/ NextInBag \/ NextInOrder \/ NextStays =>
          UNCHANGED <<count, shuffle, order>>
    BY DEF FollowForward, NextInBag, NextInOrder, NextStays, StepTo
  <2> QED
    BY <1>3, <1>6, <2>1 DEF MoveForward
<1>8. MoveBackward => UNCHANGED <<count, shuffle, order>>
  BY DEF MoveBackward, Topmost, OtherUsable, IInv, OrderWhole
<1>9. MoveRandom => Straight'
  <2>1. RandomInBag => Straight'
    BY DEF RandomInBag, StepTo, Straight
  <2>2. RandomInOrder \/ RandomStays => UNCHANGED <<count, shuffle, order>>
    BY DEF RandomInOrder, RandomStays, StepTo, cursor
  <2> QED
    BY <1>3, <1>6, <2>1, <2>2 DEF MoveRandom
<1>10. UNCHANGED vars => Straight'
  BY <1>3 DEF vars, cursor
<1> QED
  BY <1>1, <1>2, <1>3, <1>4, <1>5, <1>7, <1>8, <1>9, <1>10 DEF Next

\* Where the cursor is on an entry, that one is in force.
LEMMA EntryInForce ==
  /\ HasCurrent => InForce = Current
  /\ HasCurrent' => InForce' = Current'
  /\ ~HasCurrent' => InForce' = 0
  BY DEF InForce

LEMMA InitRotates == Init => Rotates!RotationInit
<1> SUFFICES ASSUME Init PROVE Rotates!RotationInit
  OBVIOUS
<1>1. count \in Nat /\ order = [i \in 1..count |-> i] /\ position = 1
  BY CursorAssumption DEF Init
<1>2. InForce = IF count = 0 THEN 0 ELSE 1
  BY <1>1 DEF InForce, HasCurrent, Current
<1> QED
  BY <1>2 DEF Init, Rotates!RotationInit

LEMMA ReloadRotates ==
  ASSUME NEW n \in 0..MaxEntries, NEW u \in SUBSET (1..n), NEW e \in 1..MaxEntries,
         IInv, Reload(n, u, e)
  PROVE  Rotates!Reloads
<1>1. n \in Nat /\ e \in Nat \ {0} /\ shuffle \in BOOLEAN
  BY CursorAssumption DEF IInv, TypeOK
<1>2. /\ n > 0 => e \in 1..n
      /\ count' = n /\ usable' = u /\ Rebuilt(n, shuffle, e)
      /\ Answer("reload", FALSE) /\ shuffle' = shuffle
  BY DEF Reload
<1>3. DOMAIN order' = 1..n /\ (n > 0 => position' \in 1..n /\ order'[position'] = e)
  BY <1>1, <1>2, RebuiltCursor
<1>4. IF n = 0 THEN InForce' = 0 ELSE InForce' = e
  BY <1>1, <1>3 DEF InForce, HasCurrent, Current
<1> QED
  BY <1>1, <1>2, <1>4 DEF Rotates!Reloads, Rotates!Answer, Answer

LEMMA ShuffleRotates ==
  ASSUME IInv, SetShuffle
  PROVE  Rotates!Shuffles
<1> DEFINE e == IF HasCurrent THEN Current ELSE 1
<1>1. /\ shuffle' = ~shuffle /\ count' = count /\ usable' = usable
      /\ Rebuilt(count, shuffle', e) /\ Answer("shuffle", FALSE)
  BY DEF SetShuffle
<1>2. count \in Nat /\ shuffle' \in BOOLEAN
  BY <1>1, CursorAssumption DEF IInv, TypeOK
<1>3. e \in Nat \ {0} /\ (count > 0 => e \in 1..count)
  BY AtCurrent DEF IInv, CursorPlaced, Entries
<1>4. count > 0 => HasCurrent /\ e = Current
  BY DEF IInv, CursorPlaced
<1>5. count = 0 => ~HasCurrent
  BY AtCurrent
<1> HIDE DEF e
<1>6. /\ DOMAIN order' = 1..count
      /\ count > 0 => position' \in 1..count /\ order'[position'] = e
  BY <1>1, <1>2, <1>3, RebuiltCursor
<1>7. InForce' = InForce
  BY <1>2, <1>4, <1>5, <1>6 DEF InForce, HasCurrent, Current
<1> QED
  BY <1>1, <1>7 DEF Rotates!Shuffles, Rotates!Answer, Answer

LEMMA RestartRotates ==
  ASSUME IInv, Straight, Restart
  PROVE  Rotates!Restarts
<1>1. UNCHANGED <<count, usable, shuffle, order>>
  BY DEF Restart
<1>2. CASE Nowhere(order, Usable)
  <2>1. usable = {}
    BY <1>2 DEF Nowhere, Usable, IInv, OrderWhole, Values
  <2>2. position' = position /\ Answer("restart", FALSE)
    BY <1>2 DEF Restart
  <2>3. InForce' = InForce
    BY <1>1, <2>2 DEF InForce, HasCurrent, Current
  <2> QED
    BY <1>1, <2>1, <2>2, <2>3 DEF Rotates!Restarts, Rotates!Answer, Answer
<1>3. CASE ~Nowhere(order, Usable)
  <2>1. PICK i \in DOMAIN order :
             /\ order[i] \in usable
             /\ \A j \in DOMAIN order : j < i => order[j] \notin usable
             /\ position' = i
    BY <1>3 DEF Restart
  <2>2. InForce' = order[i] /\ Answer("restart", TRUE)
    BY <1>1, <1>3, <2>1 DEF Restart, InForce, HasCurrent, Current
  <2>3. ASSUME ~shuffle, NEW e \in usable
        PROVE  order[i] <= e
    <3>1. order = [k \in 1..count |-> k] /\ usable \subseteq 1..count /\ count \in Nat
      BY <2>3, CursorAssumption DEF Straight, IInv, TypeOK, Entries
    <3>2. i \in 1..count /\ order[i] = i /\ e \in 1..count /\ order[e] = e
      BY <2>1, <2>3, <3>1
    <3> QED
      BY <2>1, <2>3, <3>1, <3>2
  <2> QED
    BY <1>1, <2>1, <2>2, <2>3 DEF Rotates!Restarts, Rotates!Answer, Answer
<1> QED
  BY <1>2, <1>3

\* A command that moves goes to another entry that can play; one that does not stays.
LEMMA CommandRotates ==
  ASSUME IInv, IInv', HasCurrent, UNCHANGED <<count, usable, shuffle>>,
         NEW op \in {"next", "previous", "random"}, NEW moved \in BOOLEAN, Answer(op, moved),
         moved => Arrives,
         ~moved => Current' = Current /\ (op = "random" => usable \subseteq {Current})
  PROVE  Rotates!RotationNext
<1>1. HasCurrent' /\ count > 0
  BY AtCurrent DEF IInv, CursorPlaced
<1>2. InForce = Current /\ InForce' = Current'
  BY <1>1, EntryInForce
<1>3. InForce # 0
  BY <1>2, AtCurrent, CursorAssumption DEF Entries
<1>4. CASE moved
  BY <1>2, <1>3, <1>4 DEF Rotates!RotationNext, Rotates!Moves, Rotates!Others, Rotates!Answer,
     Answer, Arrives
<1>5. CASE ~moved
  BY <1>2, <1>5 DEF Rotates!RotationNext, Rotates!Stays, Rotates!Others, Rotates!Answer, Answer
<1> QED
  BY <1>4, <1>5

LEMMA MoveForwardRotates ==
  ASSUME IInv, IInv', MoveForward
  PROVE  Rotates!RotationNext
<1>1. HasCurrent
  BY DEF MoveForward
<1>2. ASSUME NEW moved \in BOOLEAN, Answer("next", moved),
             UNCHANGED <<count, usable, shuffle>>, ~moved => Current' = Current
      PROVE  Rotates!RotationNext
  <2>1. reply'.moved = moved
    BY <1>2 DEF Answer
  <2>2. moved => Arrives
    BY <2>1, MoveForwardArrives
  <2> QED
    BY <1>1, <1>2, <2>2, CommandRotates
<1>3. CASE FollowForward
  <2>1. PICK i \in DOMAIN forward :
             /\ position' = IF forward[i] \in Values(order) THEN PlaceOf(forward[i]) ELSE position
             /\ Answer("next", forward[i] # Current)
             /\ UNCHANGED <<count, usable, shuffle, order>>
    BY <1>3 DEF FollowForward
  <2>2. forward[i] = Current => Current' = Current
    BY <1>1, <2>1, AtCurrent, PlaceHolds DEF Current, IInv, TypeOK
  <2> DEFINE moved == forward[i] # Current
  <2>3. moved \in BOOLEAN /\ Answer("next", moved) /\ (~moved => Current' = Current)
    BY <2>1, <2>2
  <2> HIDE DEF moved
  <2> QED
    BY <1>2, <2>1, <2>3
<1>4. CASE NextInBag
  <2>1. PICK p \in AheadUsable : StepTo(p) /\ Answer("next", order[p] # Current)
    BY <1>4 DEF NextInBag
  <2>2. Current' = order[p] /\ UNCHANGED <<count, usable, shuffle>>
    BY <1>4, <2>1 DEF NextInBag, StepTo, Current
  <2> DEFINE moved == order[p] # Current
  <2>3. moved \in BOOLEAN /\ Answer("next", moved) /\ (~moved => Current' = Current)
    BY <2>1, <2>2
  <2> HIDE DEF moved
  <2> QED
    BY <1>2, <2>2, <2>3
<1>5. CASE Deal("next")
  BY <1>2, <1>5 DEF Deal, StepTo
<1>6. CASE NextInOrder
  BY <1>2, <1>6 DEF NextInOrder, StepTo
<1>7. CASE NextStays
  BY <1>2, <1>7 DEF NextStays, Stays, Current
<1> QED
  BY <1>3, <1>4, <1>5, <1>6, <1>7 DEF MoveForward

LEMMA MoveBackwardRotates ==
  ASSUME IInv, IInv', MoveBackward
  PROVE  Rotates!RotationNext
<1>1. HasCurrent /\ UNCHANGED <<count, usable, shuffle>>
  BY DEF MoveBackward
<1>2. \/ Answer("previous", TRUE)
      \/ Answer("previous", FALSE) /\ UNCHANGED <<order, position>>
  BY DEF MoveBackward
<1>3. CASE Answer("previous", TRUE)
  <2>1. Arrives
    BY <1>3, MoveBackwardArrives DEF Answer
  <2> QED
    BY <1>1, <1>3, <2>1, CommandRotates
<1>4. CASE Answer("previous", FALSE) /\ UNCHANGED <<order, position>>
  <2>1. Current' = Current
    BY <1>4 DEF Current
  <2> QED
    BY <1>1, <1>4, <2>1, CommandRotates
<1> QED
  BY <1>2, <1>3, <1>4

LEMMA MoveRandomRotates ==
  ASSUME IInv, IInv', MoveRandom
  PROVE  Rotates!RotationNext
<1>1. HasCurrent
  BY DEF MoveRandom
<1>2. ASSUME Answer("random", TRUE), UNCHANGED <<count, usable, shuffle>>
      PROVE  Rotates!RotationNext
  <2>1. Arrives
    BY <1>2, MoveRandomArrives DEF Answer
  <2> QED
    BY <1>1, <1>2, <2>1, CommandRotates
<1>3. RandomInBag \/ Deal("random") \/ RandomInOrder => Rotates!RotationNext
  BY <1>2 DEF RandomInBag, Deal, RandomInOrder, StepTo
<1>4. CASE RandomStays
  <2>1. Answer("random", FALSE) /\ UNCHANGED <<count, usable, shuffle, order, position>>
    BY <1>4 DEF RandomStays, Stays, cursor
  <2>2. Current' = Current
    BY <2>1 DEF Current
  <2>3. usable \subseteq {Current}
    <3>1. usable \subseteq Values(order)
      BY DEF IInv, OrderWhole
    <3> QED
      BY <1>4, <3>1 DEF RandomStays, Stays, OtherUsable
  <2> QED
    BY <1>1, <2>1, <2>2, <2>3, CommandRotates
<1> QED
  BY <1>3, <1>4 DEF MoveRandom

LEMMA NextRotates ==
  ASSUME IInv, IInv', Straight, [Next]_vars
  PROVE  [Rotates!RotationNext]_(Rotates!rotation)
<1>1. ASSUME NEW n \in 0..MaxEntries, NEW u \in SUBSET (1..n), NEW e \in 1..MaxEntries,
             Reload(n, u, e)
      PROVE  Rotates!RotationNext
  BY <1>1, ReloadRotates DEF Rotates!RotationNext
<1>2. SetShuffle \/ Restart => Rotates!RotationNext
  BY ShuffleRotates, RestartRotates DEF Rotates!RotationNext
<1>3. ASSUME NEW e \in usable, Fails(e)
      PROVE  Rotates!RotationNext
  <2>1. InForce' = InForce
    BY <1>3 DEF Fails, cursor, InForce, HasCurrent, Current
  <2>2. Rotates!Loses(e)
    BY <1>3, <2>1 DEF Fails, Rotates!Loses, Rotates!Answer, Answer
  <2> QED
    BY <2>2 DEF Rotates!RotationNext
<1>4. MoveForward \/ MoveBackward \/ MoveRandom => Rotates!RotationNext
  BY MoveForwardRotates, MoveBackwardRotates, MoveRandomRotates
<1>5. CASE UNCHANGED vars
  <2>1. UNCHANGED <<count, usable, shuffle, order, position, reply>>
    BY <1>5 DEF vars, cursor
  <2>2. InForce' = InForce
    BY <2>1 DEF InForce, HasCurrent, Current
  <2> QED
    BY <2>1, <2>2 DEF Rotates!rotation
<1> QED
  BY <1>1, <1>2, <1>3, <1>4, <1>5 DEF Next

\* However a playlist is ordered, dealt and unwound (move_cursor_forward, _backward and
\* _random, set_shuffle, reset_cursor_automatic), it is a Rotation: a move that says it
\* moved is on another entry that can play, and one that does not has moved nothing.
THEOREM CursorRotates == Spec => RotatesAsPromised
<1>1. Init => Straight
  BY DEF Init, Straight
<1>2. IInv /\ Straight /\ [Next]_vars => Straight'
  BY NextStraight
<1>3. IInv /\ IInv' /\ Straight /\ [Next]_vars => [Rotates!RotationNext]_(Rotates!rotation)
  BY NextRotates
<1> QED
  BY <1>1, <1>2, <1>3, InitRotates, CursorInvariant, PTL
  DEF Spec, RotatesAsPromised, Rotates!RotationSpec
=============================================================================
