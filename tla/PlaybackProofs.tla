--------------------------- MODULE PlaybackProofs ---------------------------
(***************************************************************************)
(* Proofs about Playback, for any media, playlists, documents and number   *)
(* of attempts.                                                            *)
(***************************************************************************)
EXTENDS Playback, TLAPS

\* What waits to be tried again goes back to what is selected, keeps a chosen playlist,
\* and is not the cycle's while paused.  A start waits only while it plays.
Waits(s, p) ==
  /\ p.baseline = Selection(s)
  /\ s.manual # None => p.candidate.active = s.manual
  /\ p.reason = "cycle" => s.state # "Paused"
  /\ p.reason = "startup" => s.state = "Playing" /\ p.candidate = p.baseline

\* A runtime before and after its selection was applied.
Chosen(s) ==
  /\ s \in Runtimes
  /\ s.manual # None => s.active = s.manual
  /\ \A p \in s.pending : Waits(s, p)
Sound(s) == Chosen(s) /\ (s.video # None => s.video = Now(s))

IInv ==
  /\ phase \in {"down", "serve", "observe", "tick", "retry"}
  /\ scheduled \in Playlists /\ battery \in BOOLEAN
  /\ IF phase = "down" THEN rt = Off ELSE Sound(rt)
-----------------------------------------------------------------------------
LEMMA DocumentTypes ==
  ASSUME NEW d \in Documents
  PROVE  /\ d.policy \in BOOLEAN /\ d.borked \in SUBSET Media
         /\ d.holds \in [Playlists -> SUBSET Media]
BY PlaybackAssumption

\* The types of a runtime's parts, and of what is made of them.
LEMMA RuntimeTypes ==
  ASSUME NEW s \in Runtimes
  PROVE  /\ s.doc \in Documents /\ s.manual \in Playlists \cup {None} /\ s.active \in Playlists
         /\ s.at \in [Playlists -> Media] /\ s.state \in {"Playing", "Paused", "Stopped"}
         /\ s.taboo \in SUBSET Media /\ s.failed \in BOOLEAN /\ s.pending \in SUBSET Retries
         /\ s.observed \in BOOLEAN /\ s.applied \in BOOLEAN /\ s.released \in BOOLEAN
         /\ s.awaited \in BOOLEAN
         /\ s.still \in Media \cup {None} /\ s.video \in Media \cup {None}
         /\ s.motion \in {"none", "running", "frozen", "exited"}
         /\ Now(s) \in Media /\ Inhibited(s) \in BOOLEAN
<1>1. s.doc.policy \in BOOLEAN
  BY DocumentTypes DEF Runtimes
<1> QED
  BY <1>1 DEF Runtimes, Now, Inhibited

\* An apply changes what is on the desktop and what is reported, and nothing else.
LEMMA AppliedTypes ==
  ASSUME NEW s \in Runtimes, NEW end
  PROVE  /\ Applied(s, end) \in Runtimes
         /\ Applied(s, end).doc = s.doc /\ Applied(s, end).manual = s.manual
         /\ Applied(s, end).active = s.active /\ Applied(s, end).at = s.at
         /\ Applied(s, end).state = s.state /\ Applied(s, end).taboo = s.taboo
         /\ Applied(s, end).pending = s.pending
         /\ Applied(s, end).observed = s.observed /\ Applied(s, end).applied = s.applied
         /\ Applied(s, end).video \in {Now(s), None}
         /\ Applied(s, end).motion \in {"none", "running", "frozen"}
<1> DEFINE moves == Animates(s) /\ end \in {"ok", "pause"}
           r == Inhibited(s) \/ (s.state # "Playing" /\ s.released)
           st == IF end = "still" THEN s.still ELSE Now(s)
           v == IF moves THEN Now(s) ELSE None
           m == IF ~moves THEN "none"
                ELSE IF s.state = "Paused" /\ end = "ok" THEN "frozen" ELSE "running"
           f == end # "ok" \/ Now(s) \in s.taboo
           a == s.awaited /\ end # "ok"
<1>1. Applied(s, end) = [s EXCEPT !.released = r, !.still = st, !.video = v, !.motion = m,
                                  !.failed = f, !.awaited = a]
  BY DEF Applied
<1>2. /\ r \in BOOLEAN /\ f \in BOOLEAN /\ a \in BOOLEAN
      /\ st \in Media \cup {None} /\ v \in {Now(s), None} /\ v \in Media \cup {None}
      /\ m \in {"none", "running", "frozen"}
  BY RuntimeTypes
<1> HIDE DEF moves, r, st, v, m, f, a
<1> QED
  BY <1>1, <1>2 DEF Runtimes

\* It shows the selection or nothing.
LEMMA AppliedSound ==
  ASSUME NEW s, Chosen(s), NEW end
  PROVE  Sound(Applied(s, end))
<1> DEFINE t == Applied(s, end)
<1>1. /\ t \in Runtimes /\ t.manual = s.manual /\ t.active = s.active /\ t.at = s.at
      /\ t.state = s.state /\ t.pending = s.pending /\ t.video \in {Now(s), None}
  BY AppliedTypes DEF Chosen
<1> HIDE DEF t
<1>2. Now(t) = Now(s) /\ Selection(t) = Selection(s)
  BY <1>1 DEF Now, Selection
<1> QED
  BY <1>1, <1>2 DEF Sound, Chosen, Waits, t

\* What does not touch the selection, the transport or the renderer's medium.
LEMMA StaysSound ==
  ASSUME NEW s, Sound(s), NEW t \in Runtimes,
         t.manual = s.manual, t.active = s.active, t.at = s.at, t.state = s.state,
         t.pending = s.pending, t.video \in {s.video, None}
  PROVE  Sound(t)
<1>1. Now(t) = Now(s) /\ Selection(t) = Selection(s)
  BY DEF Now, Selection
<1> QED
  BY <1>1 DEF Sound, Chosen, Waits

\* With nothing waiting the selection is free.
LEMMA FreeChosen ==
  ASSUME NEW s \in Runtimes, s.pending = {}, s.manual # None => s.active = s.manual
  PROVE  Chosen(s)
BY DEF Chosen

LEMMA AppliesSound ==
  ASSUME NEW s, Chosen(s), NEW t \in Applies(s)
  PROVE  Sound(t)
BY AppliedSound DEF Applies

LEMMA PickTypes ==
  ASSUME NEW s \in Runtimes, NEW e \in Media
  PROVE  /\ Pick(s, e) \in Runtimes
         /\ Pick(s, e).manual = s.manual /\ Pick(s, e).active = s.active
         /\ Pick(s, e).state = s.state /\ Pick(s, e).pending = s.pending
         /\ Pick(s, e).doc = s.doc /\ Pick(s, e).taboo = s.taboo
         /\ Pick(s, e).video = s.video /\ Pick(s, e).motion = s.motion
         /\ Pick(s, e).failed = s.failed
         /\ Now(Pick(s, e)) = e
<1>1. [s.at EXCEPT ![s.active] = e] \in [Playlists -> Media]
  BY RuntimeTypes
<1>2. Pick(s, e) = [s EXCEPT !.at = [s.at EXCEPT ![s.active] = e]]
  BY DEF Pick
<1>3. s.active \in Playlists /\ s.at \in [Playlists -> Media]
  BY RuntimeTypes
<1> QED
  BY <1>1, <1>2, <1>3 DEF Runtimes, Now

LEMMA UsableMedia ==
  ASSUME NEW s \in Runtimes, NEW p \in Playlists
  PROVE  Usable(s, p) \subseteq Media
BY RuntimeTypes, DocumentTypes DEF Usable
-----------------------------------------------------------------------------
(* Requests.                                                               *)

LEMMA AcceptedSound ==
  ASSUME Sound(rt)
  PROVE  /\ Accepted \in Runtimes /\ Accepted.pending = {} /\ Sound(Accepted)
         /\ Accepted.manual = rt.manual /\ Accepted.active = rt.active /\ Accepted.at = rt.at
         /\ Accepted.state = rt.state /\ Accepted.taboo = rt.taboo /\ Accepted.doc = rt.doc
         /\ Accepted.video = rt.video /\ Accepted.motion = rt.motion
         /\ Accepted.failed = rt.failed /\ Now(Accepted) = Now(rt)
<1>1. rt \in Runtimes
  BY DEF Sound, Chosen
<1>2. Accepted \in Runtimes /\ Accepted.pending = {}
  BY <1>1 DEF Accepted, Runtimes
<1>3. /\ Accepted.manual = rt.manual /\ Accepted.active = rt.active /\ Accepted.at = rt.at
      /\ Accepted.state = rt.state /\ Accepted.taboo = rt.taboo /\ Accepted.doc = rt.doc
      /\ Accepted.video = rt.video /\ Accepted.motion = rt.motion /\ Accepted.failed = rt.failed
  BY <1>1 DEF Accepted, Runtimes
<1> QED
  BY <1>2, <1>3 DEF Sound, Chosen, Now

LEMMA UsePlaylistSound ==
  ASSUME Sound(rt), NEW p \in Playlists, UsePlaylist(p)
  PROVE  Sound(rt')
<1>1. PICK e \in Usable(rt, p) :
           rt' \in Applies([Accepted EXCEPT !.manual = p, !.active = p, !.at[p] = e])
  BY DEF UsePlaylist
<1> DEFINE s == [Accepted EXCEPT !.manual = p, !.active = p, !.at[p] = e]
<1>2. e \in Media
  BY UsableMedia DEF Sound, Chosen
<1>3. [Accepted.at EXCEPT ![p] = e] \in [Playlists -> Media]
  BY <1>2, AcceptedSound, RuntimeTypes
<1>4. s \in Runtimes /\ s.pending = {} /\ s.manual = p /\ s.active = p
  BY <1>3, AcceptedSound DEF Runtimes
<1> HIDE DEF s
<1> QED
  BY <1>1, <1>4, FreeChosen, AppliesSound DEF s

LEMMA FollowScheduleSound ==
  ASSUME Sound(rt), scheduled \in Playlists, FollowSchedule
  PROVE  Sound(rt')
<1>1. PICK e \in Usable(rt, scheduled) :
           rt' \in Applies([Accepted EXCEPT !.manual = None, !.active = scheduled,
                                            !.at[scheduled] = e])
  BY DEF FollowSchedule
<1> DEFINE s == [Accepted EXCEPT !.manual = None, !.active = scheduled, !.at[scheduled] = e]
<1>2. e \in Media
  BY UsableMedia DEF Sound, Chosen
<1>3. [Accepted.at EXCEPT ![scheduled] = e] \in [Playlists -> Media]
  BY <1>2, AcceptedSound, RuntimeTypes
<1>4. s \in Runtimes /\ s.pending = {} /\ s.manual = None
  BY <1>3, AcceptedSound DEF Runtimes
<1> HIDE DEF s
<1> QED
  BY <1>1, <1>4, FreeChosen, AppliesSound DEF s

\* With nothing waiting the transport is free too.
LEMMA TransportSound ==
  ASSUME NEW s, Sound(s), s.pending = {}, NEW t \in Runtimes, t.pending = {},
         t.manual = s.manual, t.active = s.active, t.at = s.at, t.video \in {s.video, None}
  PROVE  Sound(t)
<1>1. Now(t) = Now(s)
  BY DEF Now
<1> QED
  BY <1>1 DEF Sound, Chosen

LEMMA ResumesSound ==
  ASSUME NEW s, Sound(s), s.pending = {}, Resumes(s)
  PROVE  Sound(rt')
<1> DEFINE p == [s EXCEPT !.state = "Playing"]
<1>1. s \in Runtimes
  BY DEF Sound, Chosen
<1>2. /\ p \in Runtimes /\ p.pending = {} /\ p.manual = s.manual /\ p.active = s.active
      /\ p.at = s.at
  BY <1>1 DEF Runtimes
<1> HIDE DEF p
<1>3. Chosen(p)
  BY <1>2, FreeChosen DEF Sound, Chosen
<1>4. PICK end \in Ends(p) :
           rt' = IF end = "ok" THEN Applied(p, end)
                 ELSE [Halted(Applied(p, end)) EXCEPT
                         !.state = s.state,
                         !.released = IF s.state = "Paused" THEN TRUE ELSE @]
  BY DEF Resumes, p
<1>5. Sound(Applied(p, end))
  BY <1>3, AppliedSound
<1>6. CASE end # "ok"
  <2> DEFINE t == Applied(p, end)
             r == IF s.state = "Paused" THEN TRUE ELSE Halted(t).released
  <2>1. t \in Runtimes /\ t.pending = {}
    BY <1>2, AppliedTypes
  <2> HIDE DEF t
  <2>2. Halted(t) \in Runtimes /\ Halted(t).pending = {} /\ Halted(t).video = None
        /\ Halted(t).manual = t.manual /\ Halted(t).active = t.active /\ Halted(t).at = t.at
    BY <2>1 DEF Halted, Runtimes
  <2>3. r \in BOOLEAN /\ s.state \in {"Playing", "Paused", "Stopped"}
    BY <1>1, <2>2, RuntimeTypes
  <2>4. rt' = [Halted(t) EXCEPT !.state = s.state, !.released = r]
    BY <1>4, <1>6 DEF t
  <2> HIDE DEF r
  <2>5. /\ rt' \in Runtimes /\ rt'.pending = {} /\ rt'.video = None
        /\ rt'.manual = t.manual /\ rt'.active = t.active /\ rt'.at = t.at
    BY <2>2, <2>3, <2>4 DEF Runtimes
  <2>6. Sound(t)
    BY <1>5 DEF t
  <2> QED
    BY <2>1, <2>5, <2>6, TransportSound
<1> QED
  BY <1>4, <1>5, <1>6

LEMMA PlaysSound ==
  ASSUME NEW s, Sound(s), s.pending = {}, Plays(s)
  PROVE  Sound(rt')
<1>1. s \in Runtimes
  BY DEF Sound, Chosen
<1>2. CASE rt' \in Applies(s)
  BY <1>2, AppliesSound DEF Sound
<1>3. CASE Resumes(s)
  BY <1>3, ResumesSound
<1>4. CASE rt' = [s EXCEPT !.state = "Playing",
                           !.motion = IF @ = "frozen" THEN "running" ELSE @]
  <2> DEFINE m == IF s.motion = "frozen" THEN "running" ELSE s.motion
  <2>1. m \in {"none", "running", "frozen", "exited"}
    BY <1>1, RuntimeTypes
  <2>2. rt' = [s EXCEPT !.state = "Playing", !.motion = m]
    BY <1>4
  <2> HIDE DEF m
  <2>3. /\ rt' \in Runtimes /\ rt'.pending = {} /\ rt'.video = s.video
        /\ rt'.manual = s.manual /\ rt'.active = s.active /\ rt'.at = s.at
    BY <1>1, <2>1, <2>2 DEF Runtimes
  <2> QED
    BY <2>3, TransportSound
<1> QED
  BY <1>2, <1>3, <1>4 DEF Plays

LEMMA PausesSound ==
  ASSUME NEW s, Sound(s), s.pending = {}, Pauses(s)
  PROVE  Sound(rt')
<1>1. s \in Runtimes
  BY DEF Sound, Chosen
<1>2. CASE rt' = [s EXCEPT !.state = "Paused",
                           !.motion = IF @ = "running" /\ ~Inhibited(s) THEN "frozen" ELSE @]
  <2> DEFINE m == IF s.motion = "running" /\ ~Inhibited(s) THEN "frozen" ELSE s.motion
  <2>1. m \in {"none", "running", "frozen", "exited"}
    BY <1>1, RuntimeTypes
  <2>2. rt' = [s EXCEPT !.state = "Paused", !.motion = m]
    BY <1>2
  <2> HIDE DEF m
  <2>3. /\ rt' \in Runtimes /\ rt'.pending = {} /\ rt'.video = s.video
        /\ rt'.manual = s.manual /\ rt'.active = s.active /\ rt'.at = s.at
    BY <1>1, <2>1, <2>2 DEF Runtimes
  <2> QED
    BY <2>3, TransportSound
<1> QED
  BY <1>2 DEF Pauses

LEMMA StopSound ==
  ASSUME Sound(rt), Stop
  PROVE  Sound(rt')
<1>1. Accepted \in Runtimes /\ Accepted.pending = {} /\ Sound(Accepted)
  BY AcceptedSound
<1>2. rt' = [Halted(Accepted) EXCEPT !.state = "Stopped"]
  BY DEF Stop
<1>3. /\ rt' \in Runtimes /\ rt'.pending = {} /\ rt'.video = None
      /\ rt'.manual = Accepted.manual /\ rt'.active = Accepted.active /\ rt'.at = Accepted.at
  BY <1>1, <1>2 DEF Halted, Runtimes
<1> QED
  BY <1>1, <1>3, TransportSound

LEMMA MoveSound ==
  ASSUME Sound(rt), Move
  PROVE  Sound(rt')
<1>1. ASSUME NEW e \in Usable(rt, rt.active), rt' \in Applies(Pick(Accepted, e))
      PROVE  Sound(rt')
  <2>1. e \in Media
    BY UsableMedia, RuntimeTypes DEF Sound, Chosen
  <2>2. Chosen(Pick(Accepted, e))
    BY <2>1, AcceptedSound, PickTypes, FreeChosen DEF Sound, Chosen
  <2> QED
    BY <1>1, <2>2, AppliesSound
<1> QED
  BY <1>1, AcceptedSound DEF Move

LEMMA AdoptedTypes ==
  ASSUME rt \in Runtimes, NEW d \in Reloads, NEW at \in [Playlists -> Media],
         scheduled \in Playlists, battery \in BOOLEAN
  PROVE  /\ Adopted(d, at) \in Runtimes
         /\ Adopted(d, at).manual = rt.manual /\ Adopted(d, at).at = at
         /\ rt.manual # None => Adopted(d, at).active = rt.active
         /\ Adopted(d, at).state = rt.state /\ Adopted(d, at).pending = rt.pending
         /\ Adopted(d, at).video = rt.video /\ Adopted(d, at).motion = rt.motion
         /\ Adopted(d, at).doc = d /\ Adopted(d, at).failed = rt.failed
<1> DEFINE a == IF rt.manual = None THEN scheduled ELSE rt.active
           b == d.borked \cup ((rt.taboo \ rt.doc.borked) \cap UNION {d.holds[p] : p \in Playlists})
<1>1. d \in Documents
  BY PlaybackAssumption
<1>2. a \in Playlists /\ b \in SUBSET Media
  BY <1>1, DocumentTypes, RuntimeTypes
<1>3. Adopted(d, at) =
        [rt EXCEPT !.doc = d, !.at = at, !.observed = battery, !.active = a, !.taboo = b]
  BY DEF Adopted
<1>4. rt.manual # None => a = rt.active
  OBVIOUS
<1> HIDE DEF a, b
<1> QED
  BY <1>1, <1>2, <1>3, <1>4 DEF Runtimes

LEMMA RolledBackSound ==
  ASSUME Sound(rt), NEW tried \in Runtimes, battery \in BOOLEAN, NEW t \in RolledBack(tried)
  PROVE  Sound(t)
<1> DEFINE s == [rt EXCEPT !.observed = battery,
                           !.still = tried.still, !.video = tried.video, !.motion = tried.motion]
<1>1. rt \in Runtimes
  BY DEF Sound, Chosen
<1>2. /\ s \in Runtimes /\ s.manual = rt.manual /\ s.active = rt.active /\ s.at = rt.at
      /\ s.state = rt.state /\ s.pending = rt.pending
  <2>1. /\ tried.still \in Media \cup {None} /\ tried.video \in Media \cup {None}
        /\ tried.motion \in {"none", "running", "frozen", "exited"}
    BY RuntimeTypes
  <2> QED
    BY <1>1, <2>1 DEF Runtimes
<1>3. PICK end \in Ends(s) :
        t = [Applied(s, end) EXCEPT !.failed = IF end = "ok" THEN rt.failed ELSE TRUE]
  BY DEF RolledBack
<1> HIDE DEF s
<1>4. Chosen(s)
  <2>1. Selection(s) = Selection(rt)
    BY <1>2 DEF Selection
  <2> QED
    BY <1>2, <2>1 DEF Sound, Chosen, Waits
<1> DEFINE u == Applied(s, end)
           f == IF end = "ok" THEN rt.failed ELSE TRUE
<1>5. u \in Runtimes /\ Sound(u)
  BY <1>4, AppliedSound DEF Sound, Chosen
<1>6. f \in BOOLEAN /\ t = [u EXCEPT !.failed = f]
  BY <1>1, <1>3, RuntimeTypes
<1> HIDE DEF u, f
<1>7. /\ t \in Runtimes /\ t.manual = u.manual /\ t.active = u.active /\ t.at = u.at
      /\ t.state = u.state /\ t.pending = u.pending /\ t.video = u.video
  BY <1>5, <1>6 DEF Runtimes
<1> QED
  BY <1>5, <1>7, StaysSound

\* The hand-over that waited is cancelled once the document is taken up.
LEMMA SettledSound ==
  ASSUME NEW s \in Runtimes, s.manual # None => s.active = s.manual,
         s.video # None => s.video = Now(s), NEW t, t = [s EXCEPT !.pending = {}]
  PROVE  Sound(t)
<1>1. /\ t \in Runtimes /\ t.pending = {} /\ t.manual = s.manual /\ t.active = s.active
      /\ t.at = s.at /\ t.video = s.video
  BY DEF Runtimes
<1> QED
  BY <1>1 DEF Sound, Chosen, Now

LEMMA ReloadSound ==
  ASSUME Sound(rt), scheduled \in Playlists, battery \in BOOLEAN,
         NEW d \in Reloads, NEW restarts, Reload(d, restarts)
  PROVE  Sound(rt')
<1>1. PICK at \in [Playlists -> Media] :
        LET s == Adopted(d, at) IN
        IF restarts \/ s.active # rt.active \/ Now(s) # Now(rt)
        THEN \/ rt' = [Applied(s, "ok") EXCEPT !.pending = {}]
             \/ \E end \in Failures(s) : rt' \in RolledBack(Applied(s, end))
        ELSE rt' = [s EXCEPT !.pending = {}]
  BY DEF Reload
<1> DEFINE s == Adopted(d, at)
<1>2. rt \in Runtimes
  BY DEF Sound, Chosen
<1>3. /\ s \in Runtimes /\ s.manual = rt.manual /\ s.video = rt.video
      /\ s.manual # None => s.active = s.manual
  BY <1>2, AdoptedTypes DEF Sound, Chosen
<1> HIDE DEF s
<1>4. CASE rt' = [Applied(s, "ok") EXCEPT !.pending = {}]
  <2>1. /\ Applied(s, "ok") \in Runtimes /\ Applied(s, "ok").manual = s.manual
        /\ Applied(s, "ok").active = s.active /\ Applied(s, "ok").at = s.at
        /\ Applied(s, "ok").video \in {Now(s), None}
    BY <1>3, AppliedTypes
  <2>2. Now(Applied(s, "ok")) = Now(s)
    BY <2>1 DEF Now
  <2> QED
    BY <1>3, <1>4, <2>1, <2>2, SettledSound
<1>5. ASSUME NEW end, rt' \in RolledBack(Applied(s, end))
      PROVE  Sound(rt')
  BY <1>3, <1>5, AppliedTypes, RolledBackSound
<1>6. CASE rt' = [s EXCEPT !.pending = {}] /\ Now(s) = Now(rt)
  BY <1>3, <1>6, SettledSound DEF Sound
<1> QED
  BY <1>1, <1>4, <1>5, <1>6 DEF s

LEMMA RequestsSound ==
  ASSUME Sound(rt), scheduled \in Playlists, battery \in BOOLEAN, Requests
  PROVE  Sound(rt')
<1>1. /\ Sound(Accepted) /\ Accepted.pending = {}
  BY AcceptedSound
<1>2. CASE \E p \in Playlists : UsePlaylist(p)
  BY <1>2, UsePlaylistSound
<1>3. CASE FollowSchedule
  BY <1>3, FollowScheduleSound
<1>4. CASE Play \/ Pause \/ Toggle \/ SetMode
  BY <1>1, <1>4, PlaysSound, PausesSound DEF Play, Pause, Toggle, SetMode
<1>5. CASE Stop
  BY <1>5, StopSound
<1>6. CASE Move
  BY <1>6, MoveSound
<1>7. CASE \E d \in Reloads, restarts \in BOOLEAN : Reload(d, restarts)
  BY <1>7, ReloadSound
<1> QED
  BY <1>2, <1>3, <1>4, <1>5, <1>6, <1>7 DEF Requests
-----------------------------------------------------------------------------
(* The loop.                                                               *)

LEMMA ObserveSound ==
  ASSUME Sound(rt), battery \in BOOLEAN, Observe
  PROVE  Sound(rt')
<1> DEFINE s == [rt EXCEPT !.observed = battery]
<1>1. rt \in Runtimes
  BY DEF Sound, Chosen
<1>2. /\ s \in Runtimes /\ s.manual = rt.manual /\ s.active = rt.active /\ s.at = rt.at
      /\ s.state = rt.state /\ s.pending = rt.pending /\ s.video = rt.video
  BY <1>1 DEF Runtimes
<1>3. \/ rt' = s
      \/ rt' = [Halted(s) EXCEPT !.applied = TRUE, !.released = TRUE]
      \/ rt' = [s EXCEPT !.applied = FALSE, !.released = FALSE, !.failed = FALSE,
                         !.video = Now(s), !.motion = "running"]
      \/ rt' = [s EXCEPT !.applied = FALSE, !.failed = TRUE]
      \/ rt' = [s EXCEPT !.applied = FALSE]
  BY DEF Observe
<1> HIDE DEF s
<1>4. Sound(s)
  BY <1>2, StaysSound
<1>5. Now(s) \in Media
  BY <1>2, RuntimeTypes
<1>6. /\ rt' \in Runtimes /\ rt'.manual = s.manual /\ rt'.active = s.active /\ rt'.at = s.at
      /\ rt'.state = s.state /\ rt'.pending = s.pending
      /\ rt'.video \in {s.video, None, Now(s)}
  BY <1>2, <1>3, <1>5 DEF Runtimes, Halted
<1>7. CASE rt'.video = Now(s)
  <2>1. Now(rt') = Now(s) /\ Selection(rt') = Selection(s)
    BY <1>6 DEF Now, Selection
  <2> QED
    BY <1>4, <1>6, <1>7, <2>1 DEF Sound, Chosen, Waits
<1> QED
  BY <1>4, <1>6, <1>7, StaysSound

LEMMA PolledSound ==
  ASSUME NEW s, Sound(s)
  PROVE  /\ Sound(Polled(s)) /\ Polled(s).state = s.state /\ Polled(s).pending = s.pending
         /\ Polled(s).doc = s.doc /\ s.taboo \subseteq Polled(s).taboo
<1>1. s \in Runtimes
  BY DEF Sound, Chosen
<1>2. CASE s.motion # "exited"
  BY <1>2 DEF Polled
<1>3. CASE s.motion = "exited"
  <2> DEFINE b == s.taboo \cup ({s.video} \cap Scenes)
  <2>1. b \in SUBSET Media /\ s.video \in Media \cup {None}
    BY <1>1, RuntimeTypes, PlaybackAssumption
  <2>2. Polled(s) = [Halted(s) EXCEPT !.still = s.video, !.failed = TRUE, !.taboo = b]
    BY <1>1, <1>3 DEF Polled, Halted, Runtimes
  <2>3. s.taboo \subseteq b
    OBVIOUS
  <2> HIDE DEF b
  <2>4. /\ Polled(s) \in Runtimes /\ Polled(s).manual = s.manual /\ Polled(s).active = s.active
        /\ Polled(s).at = s.at /\ Polled(s).state = s.state /\ Polled(s).pending = s.pending
        /\ Polled(s).video = None /\ Polled(s).doc = s.doc /\ Polled(s).taboo = b
    BY <1>1, <2>1, <2>2 DEF Halted, Runtimes
  <2> QED
    BY <2>3, <2>4, StaysSound
<1> QED
  BY <1>2, <1>3

LEMMA SelectTypes ==
  ASSUME NEW s \in Runtimes, NEW sel \in Selections
  PROVE  /\ Select(s, sel) \in Runtimes
         /\ Selection(Select(s, sel)) = sel /\ Select(s, sel).active = sel.active
         /\ Select(s, sel).manual = s.manual /\ Select(s, sel).state = s.state
         /\ Select(s, sel).pending = s.pending /\ Select(s, sel).taboo = s.taboo
         /\ Select(s, sel).doc = s.doc
<1>1. sel.active \in Playlists /\ sel.at \in [Playlists -> Media]
  BY DEF Selections
<1>2. /\ Select(s, sel) \in Runtimes /\ Select(s, sel).active = sel.active
      /\ Select(s, sel).at = sel.at
      /\ Select(s, sel).manual = s.manual /\ Select(s, sel).state = s.state
      /\ Select(s, sel).pending = s.pending /\ Select(s, sel).taboo = s.taboo
      /\ Select(s, sel).doc = s.doc
  BY <1>1 DEF Select, Runtimes
<1>3. sel = [active |-> sel.active, at |-> sel.at]
  BY DEF Selections
<1> QED
  BY <1>2, <1>3 DEF Selection

LEMMA RetryTypes ==
  ASSUME NEW p \in Retries
  PROVE  /\ p.reason \in {"startup", "schedule", "cycle"}
         /\ p.attempts \in 0..(MaxAttempts - 1)
         /\ p.baseline \in Selections /\ p.candidate \in Selections
BY DEF Retries

LEMMA SelectionTypes ==
  ASSUME NEW s \in Runtimes
  PROVE  Selection(s) \in Selections /\ Selection(s).active = s.active /\ Selection(s).at = s.at
BY RuntimeTypes DEF Selection, Selections

LEMMA ReportTypes ==
  ASSUME NEW s \in Runtimes, NEW f \in BOOLEAN
  PROVE  /\ [s EXCEPT !.failed = f] \in Runtimes
         /\ [s EXCEPT !.failed = f].manual = s.manual /\ [s EXCEPT !.failed = f].active = s.active
         /\ [s EXCEPT !.failed = f].at = s.at /\ [s EXCEPT !.failed = f].state = s.state
         /\ [s EXCEPT !.failed = f].video = s.video /\ [s EXCEPT !.failed = f].pending = s.pending
         /\ [s EXCEPT !.failed = f].doc = s.doc /\ [s EXCEPT !.failed = f].taboo = s.taboo
BY DEF Runtimes

\* A start that fails while it plays leaves no motion behind.
LEMMA FailureHalts ==
  ASSUME NEW s \in Runtimes, s.state = "Playing", NEW end \in Failures(s)
  PROVE  Applied(s, end).video = None
<1>1. end \in {"still", "motion"}
  BY DEF Failures, Ends
<1> DEFINE moves == Animates(s) /\ end \in {"ok", "pause"}
<1>2. ~moves
  BY <1>1
<1>3. "video" \in DOMAIN s
  BY DEF Runtimes
<1>4. Applied(s, end).video = IF moves THEN Now(s) ELSE None
  BY <1>3 DEF Applied, Runtimes
<1> QED
  BY <1>2, <1>4

\* After a candidate failed, the selection is the one the hand-over started from.
LEMMA RejectedBack ==
  ASSUME NEW s \in Runtimes, NEW p \in Retries, Waits(s, p), NEW t \in Rejected(s, p)
  PROVE  /\ t \in Runtimes /\ t.manual = s.manual /\ t.state = s.state
         /\ t.doc = s.doc /\ t.taboo = s.taboo
         /\ Selection(t) = p.baseline
         /\ t.video \in {Now(t), None}
         /\ p.reason = "startup" => t.video = None
<1> DEFINE c == Select(s, p.candidate)
<1>1. /\ c \in Runtimes /\ c.manual = s.manual /\ c.state = s.state
      /\ c.doc = s.doc /\ c.taboo = s.taboo /\ Selection(c) = p.candidate
  BY SelectTypes, RetryTypes
<1> HIDE DEF c
<1>2. CASE p.reason = "startup"
  <2>1. PICK end \in Failures(c) : t = [Applied(c, end) EXCEPT !.failed = TRUE]
    BY <1>2 DEF Rejected, c
  <2> DEFINE u == Applied(c, end)
  <2>2. /\ u \in Runtimes /\ u.manual = c.manual /\ u.active = c.active /\ u.at = c.at
        /\ u.state = c.state /\ u.doc = c.doc /\ u.taboo = c.taboo
    BY <1>1, AppliedTypes
  <2>3. u.video = None
    BY <1>1, <1>2, FailureHalts DEF Waits
  <2> HIDE DEF u
  <2>4. t = [u EXCEPT !.failed = TRUE]
    BY <2>1 DEF u
  <2>5. /\ t \in Runtimes /\ t.manual = u.manual /\ t.active = u.active /\ t.at = u.at
        /\ t.state = u.state /\ t.doc = u.doc /\ t.taboo = u.taboo /\ t.video = None
    BY <2>2, <2>3, <2>4, ReportTypes
  <2>6. Selection(t) = Selection(c)
    BY <2>2, <2>5 DEF Selection
  <2> QED
    BY <1>1, <1>2, <2>2, <2>5, <2>6 DEF Waits
<1>3. CASE p.reason # "startup"
  <2> DEFINE Baseline(end) == Select(Applied(c, end), p.baseline)
  <2>1. PICK end \in Failures(c) : \E back \in Ends(Baseline(end)) :
               t = [Applied(Baseline(end), back) EXCEPT !.failed = back # "ok"]
    BY <1>3 DEF Rejected, c
  <2>10. PICK back \in Ends(Baseline(end)) :
               t = [Applied(Baseline(end), back) EXCEPT !.failed = back # "ok"]
    BY <2>1
  <2> DEFINE b == Baseline(end)
             u == Applied(b, back)
             f == back # "ok"
  <2>2. /\ Applied(c, end) \in Runtimes /\ Applied(c, end).manual = c.manual
        /\ Applied(c, end).state = c.state /\ Applied(c, end).doc = c.doc
        /\ Applied(c, end).taboo = c.taboo
    BY <1>1, AppliedTypes
  <2>3. /\ b \in Runtimes /\ b.manual = c.manual /\ b.state = c.state /\ b.doc = c.doc
        /\ b.taboo = c.taboo /\ Selection(b) = p.baseline
    BY <2>2, SelectTypes, RetryTypes
  <2>4. f \in BOOLEAN /\ t = [u EXCEPT !.failed = f]
    BY <2>10
  <2> HIDE DEF b, Baseline, f
  <2>5. /\ u \in Runtimes /\ u.manual = b.manual /\ u.active = b.active /\ u.at = b.at
        /\ u.state = b.state /\ u.doc = b.doc /\ u.taboo = b.taboo /\ u.video \in {Now(b), None}
    BY <2>3, AppliedTypes
  <2> HIDE DEF u
  <2>6. /\ t \in Runtimes /\ t.manual = u.manual /\ t.active = u.active /\ t.at = u.at
        /\ t.state = u.state /\ t.doc = u.doc /\ t.taboo = u.taboo /\ t.video = u.video
    BY <2>4, <2>5, ReportTypes
  <2>7. Selection(t) = Selection(b) /\ Now(t) = Now(b)
    BY <2>5, <2>6 DEF Selection, Now
  <2> QED
    BY <1>1, <1>3, <2>3, <2>5, <2>6, <2>7
<1> QED
  BY <1>2, <1>3

\* The start waits for its own selection.
LEMMA StartupRetrySound ==
  ASSUME NEW s \in Runtimes, s.manual # None => s.active = s.manual, s.state = "Playing",
         s.video # None => s.video = Now(s), NEW n \in 0..(MaxAttempts - 1)
  PROVE  Sound(StartupRetry(s, n))
<1> DEFINE p == [reason |-> "startup", attempts |-> n,
                 baseline |-> Selection(s), candidate |-> Selection(s)]
           t == StartupRetry(s, n)
<1>1. p \in Retries
  BY SelectionTypes DEF Retries
<1>2. t = [s EXCEPT !.pending = {p}]
  BY DEF StartupRetry
<1>3. /\ p.reason = "startup" /\ p.baseline = Selection(s) /\ p.candidate = Selection(s)
  OBVIOUS
<1> HIDE DEF p, t
<1>4. /\ t \in Runtimes /\ t.pending = {p} /\ t.manual = s.manual /\ t.active = s.active
      /\ t.at = s.at /\ t.state = s.state /\ t.video = s.video
  BY <1>1, <1>2 DEF Runtimes
<1>5. Selection(t) = Selection(s) /\ Now(t) = Now(s)
  BY <1>4 DEF Selection, Now
<1>6. Waits(t, p)
  BY <1>3, <1>4, <1>5, SelectionTypes DEF Waits
<1> QED
  BY <1>4, <1>5, <1>6 DEF Sound, Chosen, t

\* After the last attempt nothing waits, or the start waits for its next entry.
LEMMA GivesUpSound ==
  ASSUME NEW s \in Runtimes, NEW p \in Retries, s.manual # None => s.active = s.manual,
         s.video \in {Now(s), None},
         p.reason = "startup" => s.state = "Playing" /\ s.video = None,
         NEW t \in GivesUp(s, p)
  PROVE  Sound(t)
<1> DEFINE b == s.taboo \cup {Now(p.candidate)}
           u == [s EXCEPT !.taboo = b, !.pending = {}]
<1>1. Now(p.candidate) \in Media
  BY RetryTypes DEF Selections, Now
<1>2. b \in SUBSET Media
  BY <1>1, RuntimeTypes
<1>3. \/ t = u
      \/ /\ p.reason = "startup"
         /\ \E e \in Usable(u, u.active) : t = StartupRetry(Pick(u, e), 0)
  BY DEF GivesUp
<1> HIDE DEF b
<1>4. /\ u \in Runtimes /\ u.pending = {} /\ u.manual = s.manual /\ u.active = s.active
      /\ u.at = s.at /\ u.state = s.state /\ u.video = s.video
  BY <1>2 DEF Runtimes
<1> HIDE DEF u
<1>5. CASE t = u
  <2>1. Now(u) = Now(s)
    BY <1>4 DEF Now
  <2> QED
    BY <1>4, <1>5, <2>1, FreeChosen DEF Sound
<1>6. ASSUME p.reason = "startup", NEW e \in Usable(u, u.active), t = StartupRetry(Pick(u, e), 0)
      PROVE  Sound(t)
  <2>1. e \in Media
    BY <1>4, UsableMedia, RuntimeTypes
  <2>2. 0 \in 0..(MaxAttempts - 1)
    BY PlaybackAssumption
  <2>3. /\ Pick(u, e) \in Runtimes /\ Pick(u, e).manual = s.manual /\ Pick(u, e).active = s.active
        /\ Pick(u, e).state = "Playing" /\ Pick(u, e).video = None
    BY <1>4, <1>6, <2>1, PickTypes
  <2> QED
    BY <1>6, <2>2, <2>3, StartupRetrySound
<1> QED
  BY <1>3, <1>5, <1>6

\* An attempt ends with its candidate selected, or with its baseline.
LEMMA AttemptSound ==
  ASSUME NEW s \in Runtimes, s.manual # None => s.active = s.manual,
         NEW p \in Retries, Waits(s, p), NEW t \in Attempt(s, p)
  PROVE  Sound(t)
<1>1. CASE t = [Applied(Select(s, p.candidate), "ok") EXCEPT !.pending = {}]
  <2> DEFINE c == Select(s, p.candidate)
             u == Applied(c, "ok")
  <2>1. /\ c \in Runtimes /\ c.manual = s.manual /\ c.active = p.candidate.active
    BY SelectTypes, RetryTypes
  <2> HIDE DEF c
  <2>2. /\ u \in Runtimes /\ u.manual = c.manual /\ u.active = c.active /\ u.at = c.at
        /\ u.video \in {Now(c), None}
    BY <2>1, AppliedTypes
  <2>3. Now(u) = Now(c)
    BY <2>2 DEF Now
  <2>4. t = [u EXCEPT !.pending = {}]
    BY <1>1 DEF c
  <2> HIDE DEF u
  <2> QED
    BY <2>1, <2>2, <2>3, <2>4, SettledSound DEF Waits
<1>2. ASSUME NEW u \in Rejected(s, p),
             t \in IF p.attempts + 1 >= MaxAttempts THEN GivesUp(u, p)
                   ELSE {[u EXCEPT !.pending = {[p EXCEPT !.attempts = @ + 1]}]}
      PROVE  Sound(t)
  <2>1. /\ u \in Runtimes /\ u.manual = s.manual /\ u.state = s.state
        /\ Selection(u) = p.baseline /\ u.video \in {Now(u), None}
        /\ p.reason = "startup" => u.video = None
    BY RejectedBack
  <2>2. u.manual # None => u.active = u.manual
    BY <2>1, SelectionTypes DEF Waits
  <2>3. CASE t \in GivesUp(u, p)
    BY <2>1, <2>2, <2>3, GivesUpSound DEF Waits
  <2>4. CASE /\ p.attempts + 1 < MaxAttempts
             /\ t = [u EXCEPT !.pending = {[p EXCEPT !.attempts = @ + 1]}]
    <3> DEFINE n == p.attempts + 1
               q == [p EXCEPT !.attempts = n]
    <3>1. n \in 0..(MaxAttempts - 1)
      <4>1. p.attempts \in 0..(MaxAttempts - 1)
        BY RetryTypes
      <4> QED
        BY <2>4, <4>1, PlaybackAssumption
    <3>2. t = [u EXCEPT !.pending = {q}]
      BY <2>4
    <3> HIDE DEF n
    <3>3. /\ q \in Retries /\ q.reason = p.reason /\ q.baseline = p.baseline
          /\ q.candidate = p.candidate
      BY <3>1 DEF Retries
    <3> HIDE DEF q
    <3>4. /\ t \in Runtimes /\ t.pending = {q} /\ t.manual = u.manual /\ t.active = u.active
          /\ t.at = u.at /\ t.state = u.state /\ t.video = u.video
      BY <2>1, <3>2, <3>3 DEF Runtimes
    <3>5. Selection(t) = Selection(u) /\ Now(t) = Now(u)
      BY <3>4 DEF Selection, Now
    <3>6. Waits(t, q)
      BY <2>1, <3>3, <3>4, <3>5 DEF Waits
    <3> QED
      BY <2>1, <2>2, <3>4, <3>5, <3>6 DEF Sound, Chosen
  <2>5. p.attempts + 1 \in Nat /\ MaxAttempts \in Nat
    <3>1. p.attempts \in 0..(MaxAttempts - 1) /\ MaxAttempts \in Nat
      BY RetryTypes, PlaybackAssumption
    <3> QED
      BY <3>1
  <2>6. p.attempts + 1 >= MaxAttempts \/ p.attempts + 1 < MaxAttempts
    BY <2>5
  <2> QED
    BY <1>2, <2>3, <2>4, <2>6
<1> QED
  BY <1>1, <1>2 DEF Attempt

LEMMA HandoverSound ==
  ASSUME NEW s, Sound(s), NEW c \in Runtimes, NEW reason \in {"schedule", "cycle"},
         s.manual # None => c.active = s.manual, reason = "cycle" => s.state # "Paused",
         NEW t \in Handover(s, reason, c)
  PROVE  Sound(t)
<1> DEFINE p == [reason |-> reason, attempts |-> 0,
                 baseline |-> Selection(s), candidate |-> Selection(c)]
<1>1. s \in Runtimes /\ (s.manual # None => s.active = s.manual)
  BY DEF Sound, Chosen
<1>2. 0 \in 0..(MaxAttempts - 1)
  BY PlaybackAssumption
<1>3. p \in Retries
  BY <1>1, <1>2, SelectionTypes DEF Retries
<1>4. Waits(s, p)
  BY SelectionTypes DEF Waits
<1>5. t \in Attempt(s, p)
  BY DEF Handover
<1> HIDE DEF p
<1> QED
  BY <1>1, <1>3, <1>4, <1>5, AttemptSound

LEMMA ScheduleSound ==
  ASSUME NEW s, Sound(s), scheduled \in Playlists, NEW t \in Schedule(s)
  PROVE  Sound(t)
<1>1. CASE t = s
  BY <1>1
<1>2. ASSUME NEW e \in Usable(s, scheduled), ScheduleTurns(s),
             t \in Handover(s, "schedule", [s EXCEPT !.active = scheduled, !.at[scheduled] = e])
      PROVE  Sound(t)
  <2> DEFINE at == [s.at EXCEPT ![scheduled] = e]
             c == [s EXCEPT !.active = scheduled, !.at = at]
  <2>1. s \in Runtimes /\ s.manual = None
    BY <1>2 DEF Sound, Chosen, ScheduleTurns
  <2>2. at \in [Playlists -> Media]
    BY <2>1, RuntimeTypes, UsableMedia
  <2>3. t \in Handover(s, "schedule", c)
    BY <1>2
  <2> HIDE DEF at
  <2>4. c \in Runtimes
    BY <2>1, <2>2 DEF Runtimes
  <2> HIDE DEF c
  <2> QED
    BY <2>1, <2>3, <2>4, HandoverSound
<1> QED
  BY <1>1, <1>2 DEF Schedule

LEMMA CycleSound ==
  ASSUME NEW s, Sound(s), NEW t \in Cycle(s)
  PROVE  Sound(t)
<1>1. PICK e \in Usable(s, s.active) : t \in Handover(s, "cycle", Pick(s, e)) /\ s.state # "Paused"
  BY DEF Cycle
<1>2. s \in Runtimes /\ (s.manual # None => s.active = s.manual)
  BY DEF Sound, Chosen
<1>3. e \in Media
  BY <1>2, UsableMedia, RuntimeTypes
<1>4. Pick(s, e) \in Runtimes /\ Pick(s, e).active = s.active
  BY <1>2, <1>3, PickTypes
<1> QED
  BY <1>1, <1>2, <1>4, HandoverSound

LEMMA RetrySound ==
  ASSUME NEW s, Sound(s), NEW t \in Retry(s)
  PROVE  Sound(t)
<1>1. PICK p \in s.pending : t \in Attempt(s, p)
  BY DEF Retry
<1>2. s \in Runtimes /\ p \in Retries /\ Waits(s, p) /\ (s.manual # None => s.active = s.manual)
  BY RuntimeTypes DEF Sound, Chosen
<1> QED
  BY <1>1, <1>2, AttemptSound

LEMMA TicksSound ==
  ASSUME Sound(rt), scheduled \in Playlists, TickRetry \/ TickSchedule \/ TickCycle \/ TickRest
  PROVE  Sound(rt')
<1>1. Sound(Polled(rt))
  BY PolledSound
<1>2. \E s \in Retry(Polled(rt)) \cup Schedule(Polled(rt))
                \cup Cycle(Polled(rt)) \cup Rest(Polled(rt)) :
         rt' \in {s} \cup Applies(s)
  BY DEF TickRetry, TickSchedule, TickCycle, TickRest, Tick
<1>3. PICK s : Sound(s) /\ rt' \in {s} \cup Applies(s)
  BY <1>1, <1>2, RetrySound, ScheduleSound, CycleSound DEF Rest
<1> QED
  BY <1>3, AppliesSound DEF Sound

\* Waiting for the desktop touches nothing of the selection.
LEMMA AwaitSound ==
  ASSUME NEW s, Sound(s), NEW b \in BOOLEAN
  PROVE  Sound([s EXCEPT !.awaited = b])
<1> DEFINE t == [s EXCEPT !.awaited = b]
<1>1. s \in Runtimes
  BY DEF Sound, Chosen
<1>2. /\ t \in Runtimes /\ t.manual = s.manual /\ t.active = s.active /\ t.at = s.at
      /\ t.state = s.state /\ t.pending = s.pending /\ t.video = s.video
  BY <1>1 DEF Runtimes
<1> HIDE DEF t
<1>3. Sound(t)
  BY <1>2, StaysSound
<1> QED
  BY <1>3 DEF t

LEMMA NewTypes ==
  ASSUME NEW d \in Documents, NEW at \in [Playlists -> Media],
         scheduled \in Playlists, battery \in BOOLEAN
  PROVE  /\ New(d, at) \in Runtimes /\ New(d, at).pending = {} /\ New(d, at).manual = None
         /\ New(d, at).state = "Playing" /\ New(d, at).video = None
<1> DEFINE onBattery == d.policy /\ battery
<1>1. onBattery \in BOOLEAN /\ d.borked \in SUBSET Media
  BY DocumentTypes
<1>2. New(d, at) =
        [Off EXCEPT !.doc = d, !.active = scheduled, !.at = at, !.taboo = d.borked,
                    !.observed = battery, !.applied = onBattery, !.released = onBattery]
  BY DEF New
<1> HIDE DEF onBattery
<1>3. New(d, at) =
        [doc |-> d, manual |-> None, active |-> scheduled, at |-> at,
         state |-> "Playing", taboo |-> d.borked, failed |-> FALSE, pending |-> {},
         observed |-> battery, applied |-> onBattery, released |-> onBattery,
         awaited |-> FALSE, still |-> None, video |-> None, motion |-> "none"]
  BY <1>2 DEF Off
<1> QED
  BY <1>1, <1>3 DEF Runtimes

LEMMA StartSound ==
  ASSUME NEW d \in Documents, scheduled \in Playlists, battery \in BOOLEAN, Start(d)
  PROVE  Sound(rt')
<1>1. PICK at \in [Playlists -> Media] :
        \E end \in Ends(New(d, at)) :
          rt' = IF end = "still" THEN [Applied(New(d, at), end) EXCEPT !.awaited = TRUE]
                ELSE IF end = "motion" THEN StartupRetry(Applied(New(d, at), end), 1)
                ELSE Applied(New(d, at), end)
  BY DEF Start
<1> DEFINE s == New(d, at)
<1>2. s \in Runtimes /\ s.pending = {} /\ s.manual = None /\ s.state = "Playing"
  BY NewTypes
<1>3. PICK end \in Ends(s) :
        rt' = IF end = "still" THEN [Applied(s, end) EXCEPT !.awaited = TRUE]
              ELSE IF end = "motion" THEN StartupRetry(Applied(s, end), 1)
              ELSE Applied(s, end)
  BY <1>1
<1> HIDE DEF s
<1>4. Chosen(s)
  BY <1>2, FreeChosen
<1> DEFINE t == Applied(s, end)
<1>5. Sound(t) /\ t \in Runtimes /\ t.manual = None /\ t.state = "Playing"
  BY <1>2, <1>4, AppliedSound, AppliedTypes
<1> HIDE DEF t
<1>6. 1 \in 0..(MaxAttempts - 1)
  BY PlaybackAssumption
<1>7. Sound([t EXCEPT !.awaited = TRUE])
  BY <1>5, AwaitSound
<1>8. Sound(StartupRetry(t, 1))
  BY <1>5, <1>6, StartupRetrySound DEF Sound, Chosen
<1> QED
  BY <1>3, <1>5, <1>7, <1>8 DEF t

LEMMA RetryInitialSound ==
  ASSUME Sound(rt), RetryInitial
  PROVE  Sound(rt')
<1>1. ASSUME NEW end, rt' = [Applied(rt, end) EXCEPT !.awaited = end = "still"]
      PROVE  Sound(rt')
  <2>1. Sound(Applied(rt, end))
    BY AppliedSound DEF Sound
  <2> DEFINE b == end = "still"
  <2>2. b \in BOOLEAN /\ rt' = [Applied(rt, end) EXCEPT !.awaited = b]
    BY <1>1
  <2> HIDE DEF b
  <2> QED
    BY <2>1, <2>2, AwaitSound
<1> QED
  BY <1>1 DEF RetryInitial

LEMMA RendererExitsSound ==
  ASSUME Sound(rt), RendererExits
  PROVE  Sound(rt')
<1>1. rt \in Runtimes
  BY DEF Sound, Chosen
<1>2. rt' = [rt EXCEPT !.motion = "exited"]
  BY DEF RendererExits
<1>3. /\ rt' \in Runtimes /\ rt'.manual = rt.manual /\ rt'.active = rt.active /\ rt'.at = rt.at
      /\ rt'.state = rt.state /\ rt'.pending = rt.pending /\ rt'.video = rt.video
  BY <1>1, <1>2 DEF Runtimes
<1> QED
  BY <1>3, StaysSound
-----------------------------------------------------------------------------
LEMMA RequestsServe ==
  ASSUME Requests
  PROVE  phase = "serve" /\ UNCHANGED <<phase, environment>>
BY DEF Requests, UsePlaylist, FollowSchedule, Play, Pause, Toggle, Stop, Move, SetMode, Reload,
       Serves

LEMMA InitInv == Init => IInv
BY DEF Init, IInv

LEMMA NextInv == IInv /\ [Next]_vars => IInv'
<1> SUFFICES ASSUME IInv, [Next]_vars
             PROVE  IInv'
  OBVIOUS
<1> USE DEF IInv
<1>1. CASE CalendarMoves
  BY <1>1 DEF CalendarMoves
<1>2. CASE PowerMoves
  BY <1>2 DEF PowerMoves
<1>3. CASE RendererExits
  <2>1. phase # "down"
    BY <1>3 DEF RendererExits, Off
  <2> QED
    BY <1>3, <2>1, RendererExitsSound DEF RendererExits, environment
<1>4. ASSUME NEW d \in Documents, Start(d)
      PROVE  IInv'
  BY <1>4, StartSound DEF Start, environment
<1>5. CASE Quit \/ Deadline
  BY <1>5 DEF Quit, Deadline, environment
<1>6. CASE Requests
  BY <1>6, RequestsServe, RequestsSound DEF environment
<1>7. CASE BatchEnds
  BY <1>7 DEF BatchEnds, environment
<1>8. CASE Observe
  BY <1>8, ObserveSound DEF Observe, environment
<1>9. CASE TickRetry \/ TickSchedule \/ TickCycle \/ TickRest
  <2>1. phase = "tick" /\ phase' \in {"retry", "serve"} /\ UNCHANGED environment
    BY <1>9 DEF TickRetry, TickSchedule, TickCycle, TickRest, Tick
  <2> QED
    BY <1>9, <2>1, TicksSound DEF environment
<1>10. CASE RetryInitial
  BY <1>10, RetryInitialSound DEF RetryInitial, environment
<1>11. CASE UNCHANGED vars
  BY <1>11 DEF vars
<1> QED
  BY <1>1, <1>2, <1>3, <1>4, <1>5, <1>6, <1>7, <1>8, <1>9, <1>10, <1>11 DEF Next, Loop

\* Whatever is asked, fails, ends or is reloaded, in whatever order.
THEOREM RuntimeInvariant == Spec => []IInv
  BY InitInv, NextInv, PTL DEF Spec

LEMMA InvTypes == IInv => TypeOK
BY DEF IInv, TypeOK, Sound, Chosen

\* Every variable keeps its type; with it, that no hand-over is attempted more often
\* than AUTOMATIC_APPLY_ATTEMPTS.
THEOREM RuntimeTypesKept == Spec => []TypeOK
  BY RuntimeInvariant, InvTypes, PTL

LEMMA InvSelection == IInv => BaselineKept /\ MotionIsSelected /\ ManualWins /\ PauseHolds
<1> SUFFICES ASSUME IInv
             PROVE  BaselineKept /\ MotionIsSelected /\ ManualWins /\ PauseHolds
  OBVIOUS
<1>1. CASE phase = "down"
  BY <1>1 DEF IInv, Off, BaselineKept, MotionIsSelected, ManualWins, PauseHolds
<1>2. CASE phase # "down"
  BY <1>2 DEF IInv, Sound, Chosen, Waits, BaselineKept, MotionIsSelected, ManualWins, PauseHolds
<1> QED
  BY <1>1, <1>2

\* Between the attempts of a hand-over the selection is the one it began with.
THEOREM BaselineIsKept == Spec => []BaselineKept
  BY RuntimeInvariant, InvSelection, PTL

\* The renderer shows the selected entry or none.
THEOREM MotionIsTheSelected == Spec => []MotionIsSelected
  BY RuntimeInvariant, InvSelection, PTL

\* A chosen playlist stays in force until it is given up.
THEOREM ManualAlwaysWins == Spec => []ManualWins
  BY RuntimeInvariant, InvSelection, PTL

\* While paused no next entry of the cycle waits to be tried.
THEOREM PauseAlwaysHolds == Spec => []PauseHolds
  BY RuntimeInvariant, InvSelection, PTL
-----------------------------------------------------------------------------
(* What is taboo is not started.                                           *)

\* Motion that runs in t shows nothing of T.
Clear(t, T) == t.motion = "running" => t.video \notin T

\* Motion that t has and r had not is of something not taboo in both.
Begun(r, t) ==
  t.motion = "running" /\ (r.motion # "running" \/ t.video # r.video) =>
    t.video \notin r.taboo \cap t.taboo

LEMMA AppliedClear ==
  ASSUME NEW s \in Runtimes, NEW end
  PROVE  Clear(Applied(s, end), s.taboo)
<1> DEFINE moves == Animates(s) /\ end \in {"ok", "pause"}
           v == IF moves THEN Now(s) ELSE None
           m == IF ~moves THEN "none"
                ELSE IF s.state = "Paused" /\ end = "ok" THEN "frozen" ELSE "running"
<1>1. Applied(s, end).video = v /\ Applied(s, end).motion = m
  BY DEF Applied, Runtimes
<1>2. moves => Now(s) \notin s.taboo
  BY DEF Animates
<1> QED
  BY <1>1, <1>2 DEF Clear

LEMMA AppliesClear ==
  ASSUME NEW s \in Runtimes, NEW t \in Applies(s)
  PROVE  Clear(t, s.taboo)
BY AppliedClear DEF Applies

LEMMA ClearBegun ==
  ASSUME NEW r, NEW t, Clear(t, r.taboo) \/ Clear(t, t.taboo)
  PROVE  Begun(r, t)
BY DEF Clear, Begun

LEMMA SameBegun ==
  ASSUME NEW r, NEW t, t.motion # "running" \/ (t.motion = r.motion /\ t.video = r.video)
  PROVE  Begun(r, t)
BY DEF Begun

LEMMA PlaysBegun ==
  ASSUME NEW s, Sound(s), Plays(s)
  PROVE  Begun(s, rt')
<1>1. s \in Runtimes /\ (s.video # None => s.video = Now(s))
  BY DEF Sound, Chosen
<1>2. CASE rt' = s
  BY <1>2, SameBegun
<1>3. CASE rt' \in Applies(s)
  BY <1>1, <1>3, AppliesClear, ClearBegun
<1>4. CASE Resumes(s)
  <2> DEFINE p == [s EXCEPT !.state = "Playing"]
  <2>1. p \in Runtimes /\ p.taboo = s.taboo
    BY <1>1 DEF Runtimes
  <2> HIDE DEF p
  <2>2. PICK end \in Ends(p) :
             rt' = IF end = "ok" THEN Applied(p, end)
                   ELSE [Halted(Applied(p, end)) EXCEPT
                           !.state = s.state,
                           !.released = IF s.state = "Paused" THEN TRUE ELSE @]
    BY <1>4 DEF Resumes, p
  <2>3. CASE end = "ok"
    BY <2>1, <2>2, <2>3, AppliedClear, ClearBegun
  <2>4. CASE end # "ok"
    <3>1. Applied(p, end) \in Runtimes
      BY <2>1, AppliedTypes
    <3>2. rt'.motion = "none"
      BY <2>2, <2>4, <3>1 DEF Halted, Runtimes
    <3> QED
      BY <3>2, SameBegun
  <2> QED
    BY <2>3, <2>4
<1>5. CASE rt' = [s EXCEPT !.state = "Playing",
                           !.motion = IF @ = "frozen" THEN "running" ELSE @]
           /\ Now(s) \notin s.taboo
  <2>1. rt'.video = s.video /\ (rt'.motion = "running" => s.motion \in {"running", "frozen"})
    BY <1>1, <1>5 DEF Runtimes
  <2>2. s.video \notin s.taboo
    BY <1>1, <1>5, RuntimeTypes, PlaybackAssumption
  <2> QED
    BY <2>1, <2>2 DEF Begun
<1> QED
  BY <1>2, <1>3, <1>4, <1>5 DEF Plays

LEMMA PausesBegun ==
  ASSUME NEW s \in Runtimes, Pauses(s)
  PROVE  Begun(s, rt')
<1>1. CASE rt' = [s EXCEPT !.state = "Paused",
                           !.motion = IF @ = "running" /\ ~Inhibited(s) THEN "frozen" ELSE @]
  <2>1. rt'.video = s.video /\ rt'.motion \in {s.motion, "frozen"}
    BY <1>1 DEF Runtimes
  <2> QED
    BY <2>1, SameBegun
<1> QED
  BY <1>1, SameBegun DEF Pauses

LEMMA ReloadBegun ==
  ASSUME Sound(rt), scheduled \in Playlists, battery \in BOOLEAN,
         NEW d \in Reloads, NEW restarts, Reload(d, restarts)
  PROVE  Begun(rt, rt')
<1>1. PICK at \in [Playlists -> Media] :
        LET s == Adopted(d, at) IN
        IF restarts \/ s.active # rt.active \/ Now(s) # Now(rt)
        THEN \/ rt' = [Applied(s, "ok") EXCEPT !.pending = {}]
             \/ \E end \in Failures(s) : rt' \in RolledBack(Applied(s, end))
        ELSE rt' = [s EXCEPT !.pending = {}]
  BY DEF Reload
<1> DEFINE s == Adopted(d, at)
<1>2. rt \in Runtimes
  BY DEF Sound, Chosen
<1>3. s \in Runtimes /\ s.video = rt.video /\ s.motion = rt.motion
  BY <1>2, AdoptedTypes
<1> HIDE DEF s
<1>4. CASE rt' = [Applied(s, "ok") EXCEPT !.pending = {}]
  <2>1. Applied(s, "ok") \in Runtimes /\ Applied(s, "ok").taboo = s.taboo
    BY <1>3, AppliedTypes
  <2>2. /\ rt'.motion = Applied(s, "ok").motion /\ rt'.video = Applied(s, "ok").video
        /\ rt'.taboo = s.taboo
    BY <1>4, <2>1 DEF Runtimes
  <2>3. Clear(rt', rt'.taboo)
    BY <1>3, <2>2, AppliedClear DEF Clear
  <2> QED
    BY <2>3, ClearBegun
<1>5. ASSUME NEW end, rt' \in RolledBack(Applied(s, end))
      PROVE  Begun(rt, rt')
  <2> DEFINE tried == Applied(s, end)
             r == [rt EXCEPT !.observed = battery,
                             !.still = tried.still, !.video = tried.video, !.motion = tried.motion]
  <2>1. /\ tried.still \in Media \cup {None} /\ tried.video \in Media \cup {None}
        /\ tried.motion \in {"none", "running", "frozen", "exited"}
    BY <1>3, AppliedTypes, RuntimeTypes
  <2>2. PICK back \in Ends(r) :
             rt' = [Applied(r, back) EXCEPT !.failed = IF back = "ok" THEN rt.failed ELSE TRUE]
    BY <1>5 DEF RolledBack
  <2> HIDE DEF tried
  <2>3. r \in Runtimes /\ r.taboo = rt.taboo
    BY <1>2, <2>1 DEF Runtimes
  <2> HIDE DEF r
  <2>4. Applied(r, back) \in Runtimes
    BY <2>3, AppliedTypes
  <2>5. rt'.motion = Applied(r, back).motion /\ rt'.video = Applied(r, back).video
    BY <2>2, <2>4 DEF Runtimes
  <2>6. Clear(rt', rt.taboo)
    BY <2>3, <2>5, AppliedClear DEF Clear
  <2> QED
    BY <2>6, ClearBegun
<1>6. CASE rt' = [s EXCEPT !.pending = {}]
  <2>1. rt'.motion = rt.motion /\ rt'.video = rt.video
    BY <1>3, <1>6 DEF Runtimes
  <2> QED
    BY <2>1, SameBegun
<1> QED
  BY <1>1, <1>4, <1>5, <1>6 DEF s

LEMMA RequestsBegun ==
  ASSUME Sound(rt), scheduled \in Playlists, battery \in BOOLEAN, Requests
  PROVE  Begun(rt, rt')
<1>1. /\ Sound(Accepted) /\ Accepted \in Runtimes /\ Accepted.taboo = rt.taboo
      /\ Accepted.motion = rt.motion /\ Accepted.video = rt.video
  BY AcceptedSound
<1>2. \A t : Begun(Accepted, t) => Begun(rt, t)
  BY <1>1 DEF Begun
<1>3. ASSUME NEW p \in Playlists, NEW m \in Playlists \cup {None}, NEW e \in Usable(rt, p),
             rt' \in Applies([Accepted EXCEPT !.manual = m, !.active = p, !.at[p] = e])
      PROVE  Begun(rt, rt')
  <2> DEFINE at == [Accepted.at EXCEPT ![p] = e]
             s == [Accepted EXCEPT !.manual = m, !.active = p, !.at = at]
  <2>1. at \in [Playlists -> Media]
    BY <1>1, RuntimeTypes, UsableMedia DEF Sound, Chosen
  <2>2. rt' \in Applies(s)
    BY <1>3
  <2> HIDE DEF at
  <2>3. s \in Runtimes /\ s.taboo = rt.taboo
    BY <1>1, <2>1 DEF Runtimes
  <2> HIDE DEF s
  <2> QED
    BY <2>2, <2>3, AppliesClear, ClearBegun
<1>4. CASE (\E p \in Playlists : UsePlaylist(p)) \/ FollowSchedule
  BY <1>3, <1>4 DEF UsePlaylist, FollowSchedule
<1>5. CASE Play \/ Pause \/ Toggle
  <2>1. CASE rt' = Accepted
    BY <1>1, <2>1, SameBegun
  <2> QED
    BY <1>1, <1>2, <1>5, <2>1, PlaysBegun, PausesBegun DEF Play, Pause, Toggle
<1>6. CASE SetMode
  BY <1>1, <1>6, SameBegun DEF SetMode
<1>7. CASE Stop
  <2>1. rt'.motion = "none"
    BY <1>1, <1>7 DEF Stop, Halted, Runtimes
  <2> QED
    BY <2>1, SameBegun
<1>8. CASE Move
  <2>1. ASSUME NEW e \in Usable(rt, rt.active), rt' \in Applies(Pick(Accepted, e))
        PROVE  Begun(rt, rt')
    <3>1. e \in Media
      BY UsableMedia, RuntimeTypes DEF Sound, Chosen
    <3>2. Pick(Accepted, e) \in Runtimes /\ Pick(Accepted, e).taboo = rt.taboo
      BY <1>1, <3>1, PickTypes
    <3> QED
      BY <2>1, <3>2, AppliesClear, ClearBegun
  <2> QED
    BY <1>1, <1>8, <2>1, SameBegun DEF Move
<1>9. CASE \E d \in Reloads, restarts \in BOOLEAN : Reload(d, restarts)
  BY <1>9, ReloadBegun
<1> QED
  BY <1>4, <1>5, <1>6, <1>7, <1>8, <1>9 DEF Requests

LEMMA ObserveBegun ==
  ASSUME Sound(rt), battery \in BOOLEAN, Observe
  PROVE  Begun(rt, rt')
<1> DEFINE s == [rt EXCEPT !.observed = battery]
<1>1. rt \in Runtimes
  BY DEF Sound, Chosen
<1>2. /\ s \in Runtimes /\ s.video = rt.video /\ s.motion = rt.motion /\ s.taboo = rt.taboo
  BY <1>1 DEF Runtimes
<1>3. \/ rt' = s
      \/ rt' = [Halted(s) EXCEPT !.applied = TRUE, !.released = TRUE]
      \/ /\ Animates(s)
         /\ rt' = [s EXCEPT !.applied = FALSE, !.released = FALSE, !.failed = FALSE,
                            !.video = Now(s), !.motion = "running"]
      \/ rt' = [s EXCEPT !.applied = FALSE, !.failed = TRUE]
      \/ rt' = [s EXCEPT !.applied = FALSE]
  BY DEF Observe
<1> HIDE DEF s
<1>4. CASE Animates(s) /\ rt'.video = Now(s)
  BY <1>2, <1>4 DEF Animates, Begun
<1>5. CASE rt'.motion = "none" \/ (rt'.motion = s.motion /\ rt'.video = s.video)
  BY <1>2, <1>5, SameBegun
<1>6. (Animates(s) /\ rt'.video = Now(s)) \/ rt'.motion = "none"
        \/ (rt'.motion = s.motion /\ rt'.video = s.video)
  BY <1>2, <1>3 DEF Runtimes, Halted
<1> QED
  BY <1>4, <1>5, <1>6

LEMMA PolledBegun ==
  ASSUME Sound(rt)
  PROVE  Begun(rt, Polled(rt)) /\ rt.taboo \subseteq Polled(rt).taboo
<1>1. rt \in Runtimes
  BY DEF Sound, Chosen
<1>2. CASE rt.motion = "exited"
  <2>1. Polled(rt).motion = "none"
    BY <1>1, <1>2 DEF Polled, Halted, Runtimes
  <2> QED
    BY <2>1, PolledSound, SameBegun
<1>3. CASE rt.motion # "exited"
  BY <1>3, SameBegun DEF Polled
<1> QED
  BY <1>2, <1>3

LEMMA RejectedClear ==
  ASSUME NEW s \in Runtimes, NEW p \in Retries, NEW t \in Rejected(s, p)
  PROVE  Clear(t, s.taboo) /\ t \in Runtimes
<1> DEFINE c == Select(s, p.candidate)
<1>1. c \in Runtimes /\ c.taboo = s.taboo
  BY SelectTypes, RetryTypes
<1> HIDE DEF c
<1>2. ASSUME NEW b \in Runtimes, b.taboo = s.taboo, NEW end, NEW f \in BOOLEAN,
             t = [Applied(b, end) EXCEPT !.failed = f]
      PROVE  Clear(t, s.taboo) /\ t \in Runtimes
  <2>1. Applied(b, end) \in Runtimes /\ Clear(Applied(b, end), s.taboo)
    BY <1>2, AppliedTypes, AppliedClear
  <2>2. t \in Runtimes /\ t.motion = Applied(b, end).motion /\ t.video = Applied(b, end).video
    BY <1>2, <2>1 DEF Runtimes
  <2> QED
    BY <2>1, <2>2 DEF Clear
<1>3. CASE p.reason = "startup"
  <2>1. PICK end \in Failures(c) : t = [Applied(c, end) EXCEPT !.failed = TRUE]
    BY <1>3 DEF Rejected, c
  <2> QED
    BY <1>1, <1>2, <2>1
<1>4. CASE p.reason # "startup"
  <2> DEFINE Baseline(end) == Select(Applied(c, end), p.baseline)
  <2>1. PICK end \in Failures(c) : \E back \in Ends(Baseline(end)) :
               t = [Applied(Baseline(end), back) EXCEPT !.failed = back # "ok"]
    BY <1>4 DEF Rejected, c
  <2>2. PICK back \in Ends(Baseline(end)) :
               t = [Applied(Baseline(end), back) EXCEPT !.failed = back # "ok"]
    BY <2>1
  <2> DEFINE b == Baseline(end)
             f == back # "ok"
  <2>3. b \in Runtimes /\ b.taboo = s.taboo
    <3>1. Applied(c, end) \in Runtimes /\ Applied(c, end).taboo = s.taboo
      BY <1>1, AppliedTypes
    <3> QED
      BY <3>1, SelectTypes, RetryTypes
  <2>4. f \in BOOLEAN /\ t = [Applied(b, back) EXCEPT !.failed = f]
    BY <2>2
  <2> HIDE DEF b, Baseline, f
  <2> QED
    BY <1>2, <2>3, <2>4
<1> QED
  BY <1>3, <1>4

LEMMA GivesUpClear ==
  ASSUME NEW s \in Runtimes, NEW p \in Retries, NEW T, Clear(s, T), NEW t \in GivesUp(s, p)
  PROVE  Clear(t, T)
<1> DEFINE u == [s EXCEPT !.taboo = @ \cup {Now(p.candidate)}, !.pending = {}]
<1>1. Now(p.candidate) \in Media
  BY RetryTypes DEF Selections, Now
<1>2. u \in Runtimes /\ u.motion = s.motion /\ u.video = s.video
  <2> DEFINE b == s.taboo \cup {Now(p.candidate)}
  <2>1. b \in SUBSET Media
    BY <1>1, RuntimeTypes
  <2>2. u = [s EXCEPT !.taboo = b, !.pending = {}]
    BY DEF Runtimes
  <2> HIDE DEF b, u
  <2> QED
    BY <2>1, <2>2 DEF Runtimes
<1>3. t = u \/ \E e \in Usable(u, u.active) : t = StartupRetry(Pick(u, e), 0)
  BY DEF GivesUp
<1> HIDE DEF u
<1>4. ASSUME NEW e \in Usable(u, u.active), t = StartupRetry(Pick(u, e), 0)
      PROVE  t.motion = u.motion /\ t.video = u.video
  <2>1. e \in Media
    BY <1>2, UsableMedia, RuntimeTypes
  <2>2. Pick(u, e) \in Runtimes /\ Pick(u, e).motion = u.motion /\ Pick(u, e).video = u.video
    BY <1>2, <2>1, PickTypes
  <2> QED
    BY <1>4, <2>2 DEF StartupRetry, Runtimes
<1> QED
  BY <1>2, <1>3, <1>4 DEF Clear

\* Neither the candidate nor the baseline an attempt goes back to starts what is taboo.
LEMMA AttemptClear ==
  ASSUME NEW s \in Runtimes, NEW p \in Retries, NEW t \in Attempt(s, p)
  PROVE  Clear(t, s.taboo)
<1>1. CASE t = [Applied(Select(s, p.candidate), "ok") EXCEPT !.pending = {}]
  <2> DEFINE c == Select(s, p.candidate)
  <2>1. c \in Runtimes /\ c.taboo = s.taboo
    BY SelectTypes, RetryTypes
  <2>2. t = [Applied(c, "ok") EXCEPT !.pending = {}]
    BY <1>1
  <2> HIDE DEF c
  <2>3. Applied(c, "ok") \in Runtimes /\ Clear(Applied(c, "ok"), s.taboo)
    BY <2>1, AppliedTypes, AppliedClear
  <2>4. t.motion = Applied(c, "ok").motion /\ t.video = Applied(c, "ok").video
    BY <2>2, <2>3 DEF Runtimes
  <2> QED
    BY <2>3, <2>4 DEF Clear
<1>2. ASSUME NEW u \in Rejected(s, p),
             t \in GivesUp(u, p) \/ t = [u EXCEPT !.pending = {[p EXCEPT !.attempts = @ + 1]}]
      PROVE  Clear(t, s.taboo)
  <2>1. Clear(u, s.taboo) /\ u \in Runtimes
    BY RejectedClear
  <2>2. CASE t = [u EXCEPT !.pending = {[p EXCEPT !.attempts = @ + 1]}]
    <3>1. t.motion = u.motion /\ t.video = u.video
      BY <2>1, <2>2 DEF Runtimes
    <3> QED
      BY <2>1, <3>1 DEF Clear
  <2> QED
    BY <1>2, <2>1, <2>2, GivesUpClear
<1> QED
  BY <1>1, <1>2 DEF Attempt

LEMMA HandoverAttempts ==
  ASSUME NEW s \in Runtimes, NEW c \in Runtimes, NEW reason \in {"schedule", "cycle"},
         NEW t \in Handover(s, reason, c)
  PROVE  \E p \in Retries : t \in Attempt(s, p)
<1> DEFINE p == [reason |-> reason, attempts |-> 0,
                 baseline |-> Selection(s), candidate |-> Selection(c)]
<1>1. 0 \in 0..(MaxAttempts - 1)
  BY PlaybackAssumption
<1>2. p \in Retries
  BY <1>1, SelectionTypes DEF Retries
<1>3. t \in Attempt(s, p)
  BY DEF Handover
<1> HIDE DEF p
<1> QED
  BY <1>2, <1>3

\* A tick rests or attempts something.
LEMMA TickAttempts ==
  ASSUME NEW s \in Runtimes, scheduled \in Playlists,
         NEW t \in Retry(s) \cup Schedule(s) \cup Cycle(s) \cup Rest(s)
  PROVE  t = s \/ \E p \in Retries : t \in Attempt(s, p)
<1>1. CASE t \in Retry(s)
  BY <1>1, RuntimeTypes DEF Retry
<1>2. ASSUME NEW e \in Usable(s, scheduled),
             t \in Handover(s, "schedule", [s EXCEPT !.active = scheduled, !.at[scheduled] = e])
      PROVE  \E p \in Retries : t \in Attempt(s, p)
  <2> DEFINE at == [s.at EXCEPT ![scheduled] = e]
             c == [s EXCEPT !.active = scheduled, !.at = at]
  <2>1. at \in [Playlists -> Media]
    BY RuntimeTypes, UsableMedia
  <2>2. t \in Handover(s, "schedule", c)
    BY <1>2
  <2> HIDE DEF at
  <2>3. c \in Runtimes
    BY <2>1 DEF Runtimes
  <2> HIDE DEF c
  <2> QED
    BY <2>2, <2>3, HandoverAttempts
<1>3. ASSUME NEW e \in Usable(s, s.active), t \in Handover(s, "cycle", Pick(s, e))
      PROVE  \E p \in Retries : t \in Attempt(s, p)
  <2>1. Pick(s, e) \in Runtimes
    BY UsableMedia, RuntimeTypes, PickTypes
  <2> QED
    BY <1>3, <2>1, HandoverAttempts
<1>4. CASE t \in Schedule(s)
  <2>1. \/ t = s
        \/ \E e \in Usable(s, scheduled) :
             t \in Handover(s, "schedule", [s EXCEPT !.active = scheduled, !.at[scheduled] = e])
    BY <1>4 DEF Schedule
  <2> QED
    BY <1>2, <2>1
<1>5. CASE t \in Cycle(s)
  BY <1>3, <1>5 DEF Cycle
<1>6. CASE t \in Rest(s)
  BY <1>6 DEF Rest
<1> QED
  BY <1>1, <1>4, <1>5, <1>6

LEMMA TicksBegun ==
  ASSUME Sound(rt), scheduled \in Playlists, TickRetry \/ TickSchedule \/ TickCycle \/ TickRest
  PROVE  Begun(rt, rt')
<1> DEFINE s == Polled(rt)
<1>1. /\ s \in Runtimes /\ Sound(s) /\ rt.taboo \subseteq s.taboo /\ Begun(rt, s)
  BY PolledSound, PolledBegun DEF Sound, Chosen
<1>2. PICK t \in Retry(s) \cup Schedule(s) \cup Cycle(s) \cup Rest(s) :
         rt' \in {t} \cup Applies(t)
  BY DEF TickRetry, TickSchedule, TickCycle, TickRest, Tick
<1> HIDE DEF s
<1>3. t \in Runtimes
  BY <1>1, <1>2, RetrySound, ScheduleSound, CycleSound DEF Rest, Sound, Chosen
<1>4. t = s \/ Clear(t, s.taboo)
  BY <1>1, <1>2, TickAttempts, AttemptClear
<1>5. CASE rt' = t
  <2>1. CASE Clear(t, s.taboo)
    <3>1. Clear(t, rt.taboo)
      BY <1>1, <2>1 DEF Clear
    <3> QED
      BY <1>5, <3>1, ClearBegun
  <2> QED
    BY <1>1, <1>4, <1>5, <2>1
<1>6. CASE rt' \in Applies(t)
  <2>1. Clear(rt', t.taboo) /\ rt'.taboo = t.taboo
    BY <1>3, <1>6, AppliesClear, AppliedTypes DEF Applies
  <2> QED
    BY <2>1, ClearBegun
<1> QED
  BY <1>2, <1>5, <1>6

LEMMA StartBegun ==
  ASSUME rt = Off, NEW d
  PROVE  Begun(rt, rt')
BY DEF Begun, Off

LEMMA RetryInitialBegun ==
  ASSUME Sound(rt), RetryInitial
  PROVE  Begun(rt, rt')
<1>1. rt \in Runtimes
  BY DEF Sound, Chosen
<1>2. ASSUME NEW end, rt' = [Applied(rt, end) EXCEPT !.awaited = end = "still"]
      PROVE  Begun(rt, rt')
  <2> DEFINE b == end = "still"
  <2>1. rt' = [Applied(rt, end) EXCEPT !.awaited = b]
    BY <1>2
  <2> HIDE DEF b
  <2>2. Applied(rt, end) \in Runtimes /\ Clear(Applied(rt, end), rt.taboo)
    BY <1>1, AppliedTypes, AppliedClear
  <2>3. rt'.motion = Applied(rt, end).motion /\ rt'.video = Applied(rt, end).video
    BY <2>1, <2>2 DEF Runtimes
  <2>4. Clear(rt', rt.taboo)
    BY <2>2, <2>3 DEF Clear
  <2> QED
    BY <2>4, ClearBegun
<1> QED
  BY <1>2, SameBegun DEF RetryInitial

LEMMA NextBegun == IInv /\ [Next]_vars => Begun(rt, rt')
<1> SUFFICES ASSUME IInv, [Next]_vars
             PROVE  Begun(rt, rt')
  OBVIOUS
<1> USE DEF IInv
<1>1. CASE CalendarMoves \/ PowerMoves \/ BatchEnds \/ UNCHANGED vars
  <2>1. rt' = rt
    BY <1>1 DEF CalendarMoves, PowerMoves, BatchEnds, vars
  <2> QED
    BY <2>1, SameBegun
<1>2. CASE RendererExits
  <2>1. rt \in Runtimes
    BY <1>2 DEF RendererExits, Off, Sound, Chosen
  <2>2. rt'.motion = "exited"
    BY <1>2, <2>1 DEF RendererExits, Runtimes
  <2> QED
    BY <2>2, SameBegun
<1>3. ASSUME NEW d \in Documents, Start(d)
      PROVE  Begun(rt, rt')
  BY <1>3, StartBegun DEF Start
<1>4. CASE Quit \/ Deadline
  BY <1>4, SameBegun DEF Quit, Deadline, Off
<1>5. CASE Requests
  BY <1>5, RequestsServe, RequestsBegun
<1>6. CASE Observe
  BY <1>6, ObserveBegun DEF Observe
<1>7. CASE TickRetry \/ TickSchedule \/ TickCycle \/ TickRest
  <2>1. phase = "tick"
    BY <1>7 DEF TickRetry, TickSchedule, TickCycle, TickRest, Tick
  <2> QED
    BY <1>7, <2>1, TicksBegun
<1>8. CASE RetryInitial
  BY <1>8, RetryInitialBegun DEF RetryInitial
<1> QED
  BY <1>1, <1>2, <1>3, <1>4, <1>5, <1>6, <1>7, <1>8 DEF Next, Loop

\* Motion of an entry already known to be taboo never starts.
THEOREM TabooStaysUnstarted == Spec => TabooNeverStarted
<1>1. IInv /\ [Next]_vars =>
        [rt'.motion = "running" /\ (rt.motion # "running" \/ rt'.video # rt.video) =>
           rt'.video \notin rt.taboo \cap rt'.taboo]_vars
  BY NextBegun DEF Begun
<1> QED
  BY <1>1, RuntimeInvariant, PTL DEF Spec, TabooNeverStarted
-----------------------------------------------------------------------------
(* Without a reload, what runs is what the transport and the battery say.  *)

\* What was last done about the battery is what is known of it.
Level(s) == s \in Runtimes /\ (s.applied <=> Inhibited(s))

\* With motion that is paused where a pause holds it, or a report that it failed.
Steady(s) ==
  /\ Level(s)
  /\ Inhibited(s) => s.motion = "none" /\ s.released
  /\ s.state = "Stopped" => s.motion = "none"
  /\ s.state = "Paused" /\ ~s.failed => s.motion # "running"
  /\ s.state = "Paused" /\ ~s.failed /\ Animates(s) => s.motion \in {"frozen", "exited"}
  /\ s.state = "Playing" /\ ~s.failed /\ Animates(s) => s.motion \in {"running", "exited"}

\* What an apply leaves is steady, whatever was there before it.
LEMMA AppliedSteady ==
  ASSUME NEW s, Level(s), NEW end, NEW t \in Runtimes,
         t.doc = s.doc, t.observed = s.observed, t.applied = s.applied, t.state = s.state,
         t.taboo = s.taboo, Now(t) = Now(s),
         t.released = Applied(s, end).released, t.motion = Applied(s, end).motion,
         t.failed \/ end = "ok"
  PROVE  Steady(t)
<1> DEFINE moves == Animates(s) /\ end \in {"ok", "pause"}
           r == Inhibited(s) \/ (s.state # "Playing" /\ s.released)
           m == IF ~moves THEN "none"
                ELSE IF s.state = "Paused" /\ end = "ok" THEN "frozen" ELSE "running"
<1>1. s \in Runtimes /\ (Inhibited(t) <=> Inhibited(s))
  BY DEF Level, Inhibited
<1>2. t.motion = m
  BY <1>1 DEF Applied, Runtimes
<1>3. t.released = r
  BY <1>1 DEF Applied, Runtimes
<1>4. Level(t)
  BY <1>1 DEF Level
<1>5. Inhibited(t) => ~moves /\ t.released
  BY <1>1, <1>3 DEF Animates
<1>6. s.state = "Stopped" => ~moves
  BY DEF Animates
<1>7. Animates(t) => Animates(s)
  BY <1>1, <1>3 DEF Animates
<1>8. ~t.failed => end = "ok"
  OBVIOUS
<1> HIDE DEF r
<1>9. Inhibited(t) => t.motion = "none" /\ t.released
  BY <1>2, <1>5
<1>10. t.state = "Stopped" => t.motion = "none"
  BY <1>2, <1>6
<1>11. t.state = "Paused" /\ ~t.failed => t.motion # "running"
  BY <1>2, <1>8
<1>12. t.state = "Paused" /\ ~t.failed /\ Animates(t) => t.motion \in {"frozen", "exited"}
  BY <1>2, <1>7, <1>8
<1>13. t.state = "Playing" /\ ~t.failed /\ Animates(t) => t.motion \in {"running", "exited"}
  BY <1>2, <1>7, <1>8
<1> QED
  BY <1>4, <1>9, <1>10, <1>11, <1>12, <1>13 DEF Steady

LEMMA AppliedReports ==
  ASSUME NEW s \in Runtimes, NEW end
  PROVE  /\ Applied(s, end).failed \/ end = "ok"
         /\ end \notin {"ok", "pause"} => Applied(s, end).motion = "none"
<1>1. Applied(s, end).failed = (end # "ok" \/ Now(s) \in s.taboo)
  BY DEF Applied, Runtimes
<1>2. end \notin {"ok", "pause"} => Applied(s, end).motion = "none"
  BY DEF Applied, Runtimes
<1> QED
  BY <1>1, <1>2

\* Another pending hand-over, and another wait for the desktop, change none of it.
LEMMA LikeSteady ==
  ASSUME NEW s, Steady(s), NEW t \in Runtimes,
         t.doc = s.doc, t.observed = s.observed, t.applied = s.applied, t.state = s.state,
         t.released = s.released, t.motion = s.motion, t.failed = s.failed,
         t.failed \/ (s.taboo \subseteq t.taboo /\ Now(t) = Now(s))
  PROVE  Steady(t)
<1>1. Inhibited(t) <=> Inhibited(s)
  BY DEF Inhibited
<1>2. ~t.failed /\ Animates(t) => Animates(s)
  BY <1>1 DEF Animates
<1> QED
  BY <1>1, <1>2 DEF Steady, Level

LEMMA AppliesSteady ==
  ASSUME NEW s, Level(s), NEW end
  PROVE  Steady(Applied(s, end))
<1> DEFINE t == Applied(s, end)
<1>1. s \in Runtimes
  BY DEF Level
<1>2. /\ t \in Runtimes /\ t.doc = s.doc /\ t.observed = s.observed /\ t.applied = s.applied
      /\ t.state = s.state /\ t.taboo = s.taboo /\ t.active = s.active /\ t.at = s.at
      /\ t.failed \/ end = "ok"
  BY <1>1, AppliedTypes, AppliedReports
<1>3. t.released = Applied(s, end).released /\ t.motion = Applied(s, end).motion
  OBVIOUS
<1> HIDE DEF t
<1>4. Now(t) = Now(s)
  BY <1>2 DEF Now
<1>5. Steady(t)
  BY <1>2, <1>3, <1>4, AppliedSteady
<1> QED
  BY <1>5 DEF t

\* A new selection, transport or hand-over leaves the battery as level as it was.
LEMMA LevelKept ==
  ASSUME NEW s, Level(s), NEW t \in Runtimes,
         t.doc = s.doc, t.observed = s.observed, t.applied = s.applied
  PROVE  Level(t)
BY DEF Level, Inhibited

LEMMA PickLevel ==
  ASSUME NEW s, Level(s), NEW e \in Media
  PROVE  Level(Pick(s, e))
<1>1. s \in Runtimes
  BY DEF Level
<1>2. Pick(s, e) \in Runtimes
  BY <1>1, PickTypes
<1>3. /\ Pick(s, e).doc = s.doc /\ Pick(s, e).observed = s.observed
      /\ Pick(s, e).applied = s.applied
  BY <1>1 DEF Pick, Runtimes
<1> QED
  BY <1>2, <1>3, LevelKept

LEMMA SelectLevel ==
  ASSUME NEW s, Level(s), NEW sel \in Selections
  PROVE  Level(Select(s, sel))
<1>1. s \in Runtimes
  BY DEF Level
<1>2. Select(s, sel) \in Runtimes
  BY <1>1, SelectTypes
<1>3. /\ Select(s, sel).doc = s.doc /\ Select(s, sel).observed = s.observed
      /\ Select(s, sel).applied = s.applied
  BY <1>1 DEF Select, Runtimes
<1> QED
  BY <1>2, <1>3, LevelKept

\* With what waits changed.
LEMMA PendingSteady ==
  ASSUME NEW s, Steady(s), NEW q \in SUBSET Retries
  PROVE  Steady([s EXCEPT !.pending = q])
<1> DEFINE t == [s EXCEPT !.pending = q]
<1>1. s \in Runtimes
  BY DEF Steady, Level
<1>2. /\ t \in Runtimes /\ t.doc = s.doc /\ t.observed = s.observed /\ t.applied = s.applied
      /\ t.state = s.state /\ t.released = s.released /\ t.motion = s.motion
      /\ t.failed = s.failed /\ t.taboo = s.taboo /\ t.active = s.active /\ t.at = s.at
  BY <1>1 DEF Runtimes
<1> HIDE DEF t
<1>3. Now(t) = Now(s)
  BY <1>2 DEF Now
<1>4. Steady(t)
  BY <1>2, <1>3, LikeSteady
<1> QED
  BY <1>4 DEF t

LEMMA ResumesSteady ==
  ASSUME NEW s, Steady(s), s.state # "Playing", Resumes(s)
  PROVE  Steady(rt')
<1> DEFINE p == [s EXCEPT !.state = "Playing"]
<1>1. s \in Runtimes /\ Level(s)
  BY DEF Steady, Level
<1>2. /\ p \in Runtimes /\ p.doc = s.doc /\ p.observed = s.observed /\ p.applied = s.applied
      /\ p.state = "Playing"
  BY <1>1 DEF Runtimes
<1> HIDE DEF p
<1>3. Level(p)
  BY <1>1, <1>2, LevelKept
<1>4. PICK end \in Ends(p) :
           rt' = IF end = "ok" THEN Applied(p, end)
                 ELSE [Halted(Applied(p, end)) EXCEPT
                         !.state = s.state,
                         !.released = IF s.state = "Paused" THEN TRUE ELSE @]
  BY DEF Resumes, p
<1>5. Steady(Applied(p, end))
  BY <1>3, AppliesSteady
<1>6. CASE end # "ok"
  <2> DEFINE t == Applied(p, end)
             r == IF s.state = "Paused" THEN TRUE ELSE t.released
  <2>1. Steady(t) /\ t \in Runtimes
    BY <1>5 DEF Steady, Level
  <2> HIDE DEF t
  <2>2. Halted(t) \in Runtimes /\ Halted(t).released = t.released
    BY <2>1 DEF Halted, Runtimes
  <2>3. r \in BOOLEAN /\ s.state \in {"Paused", "Stopped"}
    BY <1>1, <2>1, RuntimeTypes
  <2>4. rt' = [Halted(t) EXCEPT !.state = s.state, !.released = r]
    BY <1>4, <1>6, <2>2 DEF t
  <2>5. (s.state = "Paused" => r) /\ (t.released => r)
    BY <2>1, RuntimeTypes
  <2> HIDE DEF r
  <2>6. /\ rt' \in Runtimes /\ rt'.motion = "none" /\ rt'.state = s.state
        /\ rt'.released = r /\ rt'.doc = t.doc /\ rt'.observed = t.observed
        /\ rt'.applied = t.applied
    BY <2>1, <2>2, <2>3, <2>4 DEF Halted, Runtimes
  <2>7. Level(rt') /\ (Inhibited(rt') <=> Inhibited(t))
    BY <2>1, <2>6, LevelKept DEF Steady, Inhibited
  <2>8. Inhibited(rt') => rt'.released
    BY <2>1, <2>5, <2>6, <2>7 DEF Steady
  <2>9. rt'.state = "Paused" => ~Animates(rt')
    BY <2>5, <2>6 DEF Animates
  <2> QED
    BY <2>3, <2>6, <2>7, <2>8, <2>9 DEF Steady
<1> QED
  BY <1>4, <1>5, <1>6

LEMMA PlaysSteady ==
  ASSUME NEW s, Steady(s), Plays(s)
  PROVE  Steady(rt')
<1>1. s \in Runtimes /\ Level(s)
  BY DEF Steady, Level
<1>2. CASE rt' = s
  BY <1>2
<1>3. CASE rt' \in Applies(s)
  BY <1>1, <1>3, AppliesSteady DEF Applies
<1>4. CASE s.state # "Playing" /\ Resumes(s)
  BY <1>4, ResumesSteady
<1>5. CASE /\ rt' = [s EXCEPT !.state = "Playing",
                              !.motion = IF @ = "frozen" THEN "running" ELSE @]
           /\ s.state = "Paused" /\ ~s.failed /\ ~s.released
  <2> DEFINE m == IF s.motion = "frozen" THEN "running" ELSE s.motion
  <2>1. m \in {"none", "running", "frozen", "exited"}
    BY <1>1, RuntimeTypes
  <2>2. rt' = [s EXCEPT !.state = "Playing", !.motion = m]
    BY <1>5
  <2>3. s.motion \in {"frozen", "exited"} => m \in {"running", "exited"}
    OBVIOUS
  <2> HIDE DEF m
  <2>4. /\ rt' \in Runtimes /\ rt'.motion = m /\ rt'.state = "Playing"
        /\ rt'.released = s.released /\ rt'.doc = s.doc /\ rt'.observed = s.observed
        /\ rt'.applied = s.applied /\ rt'.failed = s.failed /\ rt'.taboo = s.taboo
        /\ rt'.active = s.active /\ rt'.at = s.at
    BY <1>1, <2>1, <2>2 DEF Runtimes
  <2>5. Level(rt') /\ (Inhibited(rt') <=> Inhibited(s)) /\ Now(rt') = Now(s)
    BY <1>1, <2>4, LevelKept DEF Inhibited, Now
  <2>6. ~Inhibited(s)
    BY <1>5 DEF Steady
  <2>7. Animates(rt') => Animates(s)
    BY <1>5, <2>4, <2>5 DEF Animates
  <2> QED
    BY <1>5, <2>3, <2>4, <2>5, <2>6, <2>7 DEF Steady
<1> QED
  BY <1>2, <1>3, <1>4, <1>5 DEF Plays

LEMMA PausesSteady ==
  ASSUME NEW s, Steady(s), Pauses(s)
  PROVE  Steady(rt')
<1>1. s \in Runtimes /\ Level(s)
  BY DEF Steady, Level
<1>2. CASE /\ rt' = [s EXCEPT !.state = "Paused",
                              !.motion = IF @ = "running" /\ ~Inhibited(s) THEN "frozen" ELSE @]
           /\ s.state # "Stopped"
  <2> DEFINE m == IF s.motion = "running" /\ ~Inhibited(s) THEN "frozen" ELSE s.motion
  <2>1. m \in {"none", "running", "frozen", "exited"}
    BY <1>1, RuntimeTypes
  <2>2. rt' = [s EXCEPT !.state = "Paused", !.motion = m]
    BY <1>2
  <2>3. /\ m = "running" => s.motion = "running" /\ Inhibited(s)
        /\ s.motion \in {"running", "frozen", "exited"} /\ ~Inhibited(s) =>
             m \in {"frozen", "exited"}
        /\ Inhibited(s) => m = s.motion
    OBVIOUS
  <2> HIDE DEF m
  <2>4. /\ rt' \in Runtimes /\ rt'.motion = m /\ rt'.state = "Paused"
        /\ rt'.released = s.released /\ rt'.doc = s.doc /\ rt'.observed = s.observed
        /\ rt'.applied = s.applied /\ rt'.failed = s.failed /\ rt'.taboo = s.taboo
        /\ rt'.active = s.active /\ rt'.at = s.at
    BY <1>1, <2>1, <2>2 DEF Runtimes
  <2>5. Level(rt') /\ (Inhibited(rt') <=> Inhibited(s)) /\ Now(rt') = Now(s)
    BY <1>1, <2>4, LevelKept DEF Inhibited, Now
  <2>6. s.state \in {"Playing", "Paused"}
    BY <1>1, <1>2, RuntimeTypes
  <2>7. Animates(rt') => Animates(s) /\ ~Inhibited(s)
    BY <2>4, <2>5, <2>6 DEF Animates
  <2>8. m # "running"
    BY <2>3 DEF Steady
  <2>9. Inhibited(rt') => rt'.motion = "none" /\ rt'.released
    BY <2>3, <2>4, <2>5 DEF Steady
  <2>10. rt'.state = "Paused" /\ ~rt'.failed /\ Animates(rt') => rt'.motion \in {"frozen", "exited"}
    BY <2>3, <2>4, <2>6, <2>7 DEF Steady
  <2> QED
    BY <2>4, <2>5, <2>8, <2>9, <2>10 DEF Steady
<1> QED
  BY <1>2 DEF Pauses

LEMMA RequestsSteady ==
  ASSUME Reloads = {}, Sound(rt), Steady(rt), scheduled \in Playlists, Requests
  PROVE  Steady(rt')
<1>1. /\ Accepted \in Runtimes /\ Accepted.taboo = rt.taboo /\ rt \in Runtimes
  BY AcceptedSound DEF Sound, Chosen
<1>2. Steady(Accepted) /\ Level(Accepted)
  BY PendingSteady DEF Accepted, Steady
<1>3. ASSUME NEW p \in Playlists, NEW m \in Playlists \cup {None}, NEW e \in Usable(rt, p),
             rt' \in Applies([Accepted EXCEPT !.manual = m, !.active = p, !.at[p] = e])
      PROVE  Steady(rt')
  <2> DEFINE at == [Accepted.at EXCEPT ![p] = e]
             s == [Accepted EXCEPT !.manual = m, !.active = p, !.at = at]
  <2>1. at \in [Playlists -> Media]
    BY <1>1, RuntimeTypes, UsableMedia
  <2>2. rt' \in Applies(s)
    BY <1>3
  <2> HIDE DEF at
  <2>3. /\ s \in Runtimes /\ s.doc = Accepted.doc /\ s.observed = Accepted.observed
        /\ s.applied = Accepted.applied
    BY <1>1, <2>1 DEF Runtimes
  <2> HIDE DEF s
  <2>4. Level(s)
    BY <1>2, <2>3, LevelKept
  <2> QED
    BY <2>2, <2>4, AppliesSteady DEF Applies
<1>4. CASE (\E p \in Playlists : UsePlaylist(p)) \/ FollowSchedule
  BY <1>3, <1>4 DEF UsePlaylist, FollowSchedule
<1>5. CASE Play \/ Pause \/ Toggle \/ SetMode
  BY <1>2, <1>5, PlaysSteady, PausesSteady DEF Play, Pause, Toggle, SetMode
<1>6. CASE Stop
  <2>1. /\ rt' \in Runtimes /\ rt'.motion = "none" /\ rt'.state = "Stopped"
        /\ rt'.doc = Accepted.doc /\ rt'.observed = Accepted.observed
        /\ rt'.applied = Accepted.applied /\ rt'.released = Accepted.released
    BY <1>1, <1>6 DEF Stop, Halted, Runtimes
  <2>2. Level(rt') /\ (Inhibited(rt') <=> Inhibited(Accepted))
    BY <1>2, <2>1, LevelKept DEF Inhibited
  <2> QED
    BY <1>2, <2>1, <2>2 DEF Steady
<1>7. CASE Move
  <2>1. ASSUME NEW e \in Usable(rt, rt.active), rt' \in Applies(Pick(Accepted, e))
        PROVE  Steady(rt')
    <3>1. e \in Media
      BY <1>1, UsableMedia, RuntimeTypes
    <3>2. Level(Pick(Accepted, e))
      BY <1>2, <3>1, PickLevel
    <3> QED
      BY <2>1, <3>2, AppliesSteady DEF Applies
  <2> QED
    BY <1>2, <1>7, <2>1 DEF Move
<1> QED
  BY <1>4, <1>5, <1>6, <1>7 DEF Requests

\* The look at the battery makes it level again.
LEMMA ObserveSteady ==
  ASSUME Steady(rt), battery \in BOOLEAN, Observe
  PROVE  Steady(rt')
<1> DEFINE s == [rt EXCEPT !.observed = battery]
<1>1. rt \in Runtimes /\ Level(rt)
  BY DEF Steady, Level
<1>2. /\ s \in Runtimes /\ s.doc = rt.doc /\ s.applied = rt.applied /\ s.state = rt.state
      /\ s.released = rt.released /\ s.motion = rt.motion /\ s.failed = rt.failed
      /\ s.taboo = rt.taboo /\ s.active = rt.active /\ s.at = rt.at
  BY <1>1 DEF Runtimes
<1>3. /\ Inhibited(s) \in BOOLEAN /\ s.applied \in BOOLEAN /\ Inhibited(rt) \in BOOLEAN
      /\ Now(s) = Now(rt) /\ Now(s) \in Media
  BY <1>1, <1>2, RuntimeTypes DEF Now
<1> HIDE DEF s
<1>4. CASE Inhibited(s) = s.applied /\ rt' = s
  <2>1. Level(s) /\ (Inhibited(s) <=> Inhibited(rt))
    BY <1>1, <1>2, <1>3, <1>4 DEF Level
  <2>2. Animates(s) => Animates(rt)
    BY <1>2, <1>3, <2>1 DEF Animates
  <2>3. Steady(s)
    BY <1>2, <2>1, <2>2 DEF Steady
  <2> QED
    BY <1>4, <2>3
<1>5. CASE Inhibited(s) /\ rt' = [Halted(s) EXCEPT !.applied = TRUE, !.released = TRUE]
  <2>1. /\ rt' \in Runtimes /\ rt'.motion = "none" /\ rt'.applied = TRUE /\ rt'.released = TRUE
        /\ rt'.doc = s.doc /\ rt'.observed = s.observed
    BY <1>2, <1>5 DEF Halted, Runtimes
  <2>2. Inhibited(rt')
    BY <1>5, <2>1 DEF Inhibited
  <2>3. ~Animates(rt')
    BY <2>2 DEF Animates
  <2> QED
    BY <2>1, <2>2, <2>3 DEF Steady, Level
<1>6. CASE ~Inhibited(s) /\ Inhibited(s) # s.applied
  <2>1. rt.applied /\ Inhibited(rt) /\ rt.motion = "none" /\ rt.released
    BY <1>1, <1>2, <1>3, <1>6 DEF Level, Steady
  <2>2. CASE /\ s.state = "Playing"
             /\ rt' = [s EXCEPT !.applied = FALSE, !.released = FALSE, !.failed = FALSE,
                                !.video = Now(s), !.motion = "running"]
    <3>1. /\ rt' \in Runtimes /\ rt'.motion = "running" /\ rt'.applied = FALSE
          /\ rt'.state = "Playing" /\ rt'.doc = s.doc /\ rt'.observed = s.observed
      BY <1>2, <1>3, <2>2 DEF Runtimes
    <3>2. ~Inhibited(rt')
      BY <1>6, <3>1 DEF Inhibited
    <3> QED
      BY <3>1, <3>2 DEF Steady, Level
  <2>3. ASSUME NEW f \in BOOLEAN, rt' = [s EXCEPT !.applied = FALSE, !.failed = f],
               f \/ ~(s.state = "Playing" /\ Animates(s))
        PROVE  Steady(rt')
    <3>1. /\ rt' \in Runtimes /\ rt'.motion = "none" /\ rt'.applied = FALSE /\ rt'.failed = f
          /\ rt'.released = s.released /\ rt'.state = s.state /\ rt'.doc = s.doc
          /\ rt'.observed = s.observed /\ rt'.taboo = s.taboo /\ rt'.active = s.active
          /\ rt'.at = s.at
      BY <1>2, <2>1, <2>3 DEF Runtimes
    <3>2. ~Inhibited(rt') /\ Now(rt') = Now(s)
      BY <1>6, <3>1 DEF Inhibited, Now
    <3>3. Level(rt')
      BY <3>1, <3>2 DEF Level
    <3>4. rt'.state = "Paused" => ~Animates(rt')
      BY <1>2, <2>1, <3>1 DEF Animates
    <3>5. rt'.state = "Playing" /\ ~rt'.failed => ~Animates(rt')
      BY <1>6, <2>3, <3>1, <3>2 DEF Animates
    <3> QED
      BY <3>1, <3>2, <3>3, <3>4, <3>5 DEF Steady
  <2>4. CASE rt' = [s EXCEPT !.applied = FALSE, !.failed = TRUE]
    BY <2>3, <2>4
  <2>5. CASE rt' = [s EXCEPT !.applied = FALSE] /\ ~(s.state = "Playing" /\ Animates(s))
    <3>1. rt' = [s EXCEPT !.applied = FALSE, !.failed = s.failed] /\ s.failed \in BOOLEAN
      BY <1>2, <2>5, RuntimeTypes DEF Runtimes
    <3> QED
      BY <2>3, <2>5, <3>1
  <2>6. \/ /\ s.state = "Playing"
           /\ rt' = [s EXCEPT !.applied = FALSE, !.released = FALSE, !.failed = FALSE,
                              !.video = Now(s), !.motion = "running"]
        \/ rt' = [s EXCEPT !.applied = FALSE, !.failed = TRUE]
        \/ rt' = [s EXCEPT !.applied = FALSE] /\ ~(s.state = "Playing" /\ Animates(s))
    <3>1. s.motion = "none"
      BY <1>2, <2>1
    <3> QED
      BY <1>6, <3>1 DEF Observe, s
  <2> QED
    BY <2>2, <2>4, <2>5, <2>6
<1>7. \/ Inhibited(s) = s.applied /\ rt' = s
      \/ Inhibited(s) /\ rt' = [Halted(s) EXCEPT !.applied = TRUE, !.released = TRUE]
      \/ ~Inhibited(s) /\ Inhibited(s) # s.applied
  BY DEF Observe, s
<1> QED
  BY <1>4, <1>5, <1>6, <1>7

LEMMA PolledSteady ==
  ASSUME NEW s, Steady(s)
  PROVE  Steady(Polled(s))
<1>1. s \in Runtimes /\ Level(s)
  BY DEF Steady, Level
<1>2. CASE s.motion # "exited"
  BY <1>2 DEF Polled
<1>3. CASE s.motion = "exited"
  <2> DEFINE b == s.taboo \cup ({s.video} \cap Scenes)
             t == Polled(s)
  <2>1. b \in SUBSET Media /\ s.video \in Media \cup {None}
    BY <1>1, RuntimeTypes, PlaybackAssumption
  <2>2. t = [Halted(s) EXCEPT !.still = s.video, !.failed = TRUE, !.taboo = b]
    BY <1>1, <1>3 DEF Polled, Halted, Runtimes
  <2> HIDE DEF b, t
  <2>3. /\ t \in Runtimes /\ t.motion = "none" /\ t.failed = TRUE /\ t.doc = s.doc
        /\ t.observed = s.observed /\ t.applied = s.applied
    BY <1>1, <2>1, <2>2 DEF Halted, Runtimes
  <2>4. Level(t) /\ ~Inhibited(t)
    BY <1>1, <1>3, <2>3, LevelKept DEF Steady, Inhibited
  <2> QED
    BY <2>3, <2>4 DEF Steady, t
<1> QED
  BY <1>2, <1>3

\* An attempt that failed is steady, and a start's says so.
LEMMA RejectedSteady ==
  ASSUME NEW s, Level(s), NEW p \in Retries, NEW t \in Rejected(s, p)
  PROVE  Steady(t) /\ (p.reason = "startup" => t.failed)
<1> DEFINE c == Select(s, p.candidate)
<1>1. Level(c)
  BY SelectLevel, RetryTypes
<1> HIDE DEF c
<1>2. ASSUME NEW b, Level(b), NEW end, NEW f \in BOOLEAN, f \/ end = "ok",
             t = [Applied(b, end) EXCEPT !.failed = f]
      PROVE  Steady(t) /\ t.failed = f
  <2> DEFINE u == Applied(b, end)
  <2>1. b \in Runtimes
    BY <1>2 DEF Level
  <2>2. /\ u \in Runtimes /\ u.doc = b.doc /\ u.observed = b.observed /\ u.applied = b.applied
        /\ u.state = b.state /\ u.taboo = b.taboo /\ u.active = b.active /\ u.at = b.at
    BY <2>1, AppliedTypes
  <2>3. u.released = Applied(b, end).released /\ u.motion = Applied(b, end).motion
        /\ t = [u EXCEPT !.failed = f]
    BY <1>2
  <2> HIDE DEF u
  <2>4. /\ t \in Runtimes /\ t.doc = b.doc /\ t.observed = b.observed /\ t.applied = b.applied
        /\ t.state = b.state /\ t.taboo = b.taboo /\ t.active = b.active /\ t.at = b.at
        /\ t.released = u.released /\ t.motion = u.motion /\ t.failed = f
    BY <2>2, <2>3 DEF Runtimes
  <2>5. Now(t) = Now(b)
    BY <2>4 DEF Now
  <2>6. t.released = Applied(b, end).released /\ t.motion = Applied(b, end).motion
    BY <2>3, <2>4
  <2>7. t.failed \/ end = "ok"
    BY <1>2, <2>4
  <2>8. Steady(t)
    BY <1>2, <2>4, <2>5, <2>6, <2>7, AppliedSteady
  <2> QED
    BY <2>4, <2>8
<1>3. CASE p.reason = "startup"
  <2>1. PICK end \in Failures(c) : t = [Applied(c, end) EXCEPT !.failed = TRUE]
    BY <1>3 DEF Rejected, c
  <2> QED
    BY <1>1, <1>2, <2>1
<1>4. CASE p.reason # "startup"
  <2> DEFINE Baseline(end) == Select(Applied(c, end), p.baseline)
  <2>1. PICK end \in Failures(c) : \E back \in Ends(Baseline(end)) :
               t = [Applied(Baseline(end), back) EXCEPT !.failed = back # "ok"]
    BY <1>4 DEF Rejected, c
  <2>2. PICK back \in Ends(Baseline(end)) :
               t = [Applied(Baseline(end), back) EXCEPT !.failed = back # "ok"]
    BY <2>1
  <2> DEFINE b == Baseline(end)
             f == back # "ok"
  <2>3. Level(b)
    <3>1. Level(Applied(c, end))
      BY <1>1, AppliesSteady DEF Steady
    <3> QED
      BY <3>1, SelectLevel, RetryTypes
  <2>4. f \in BOOLEAN /\ t = [Applied(b, back) EXCEPT !.failed = f] /\ (f \/ back = "ok")
    BY <2>2
  <2> HIDE DEF b, Baseline, f
  <2> QED
    BY <1>2, <1>4, <2>3, <2>4
<1> QED
  BY <1>3, <1>4

LEMMA GivesUpSteady ==
  ASSUME NEW s, Steady(s), NEW p \in Retries, p.reason = "startup" => s.failed,
         NEW t \in GivesUp(s, p), t \in Runtimes
  PROVE  Steady(t)
<1> DEFINE b == s.taboo \cup {Now(p.candidate)}
           u == [s EXCEPT !.taboo = b, !.pending = {}]
<1>1. s \in Runtimes /\ Now(p.candidate) \in Media
  BY RetryTypes DEF Selections, Now, Steady, Level
<1>2. b \in SUBSET Media /\ s.taboo \subseteq b
  BY <1>1, RuntimeTypes
<1>3. \/ t = u
      \/ /\ p.reason = "startup"
         /\ \E e \in Usable(u, u.active) : t = StartupRetry(Pick(u, e), 0)
  BY DEF GivesUp
<1> HIDE DEF b
<1>4. /\ u \in Runtimes /\ u.doc = s.doc /\ u.observed = s.observed /\ u.applied = s.applied
      /\ u.state = s.state /\ u.released = s.released /\ u.motion = s.motion
      /\ u.failed = s.failed /\ u.taboo = b /\ u.active = s.active /\ u.at = s.at
  BY <1>1, <1>2 DEF Runtimes
<1> HIDE DEF u
<1>5. Steady(u)
  <2>1. Now(u) = Now(s)
    BY <1>4 DEF Now
  <2> QED
    BY <1>2, <1>4, <2>1, LikeSteady
<1>6. ASSUME p.reason = "startup", NEW e \in Usable(u, u.active), t = StartupRetry(Pick(u, e), 0)
      PROVE  Steady(t)
  <2>1. e \in Media
    BY <1>4, UsableMedia, RuntimeTypes
  <2>2. /\ Pick(u, e) \in Runtimes /\ Pick(u, e).doc = u.doc /\ Pick(u, e).observed = u.observed
        /\ Pick(u, e).applied = u.applied /\ Pick(u, e).state = u.state
        /\ Pick(u, e).released = u.released /\ Pick(u, e).motion = u.motion
        /\ Pick(u, e).failed = u.failed
    <3>1. Pick(u, e) \in Runtimes
      BY <1>4, <2>1, PickTypes
    <3> QED
      BY <1>4, <3>1 DEF Pick, Runtimes
  <2>3. /\ t.doc = u.doc /\ t.observed = u.observed /\ t.applied = u.applied
        /\ t.state = u.state /\ t.released = u.released /\ t.motion = u.motion
        /\ t.failed = u.failed
    BY <1>6, <2>2 DEF StartupRetry, Runtimes
  <2> QED
    BY <1>4, <1>5, <1>6, <2>3, LikeSteady
<1> QED
  BY <1>3, <1>5, <1>6

LEMMA AttemptSteady ==
  ASSUME NEW s, Level(s), NEW p \in Retries, NEW t \in Attempt(s, p), t \in Runtimes
  PROVE  Steady(t)
<1>1. CASE t = [Applied(Select(s, p.candidate), "ok") EXCEPT !.pending = {}]
  <2>1. Level(Select(s, p.candidate))
    BY SelectLevel, RetryTypes
  <2>2. Steady(Applied(Select(s, p.candidate), "ok"))
    BY <2>1, AppliesSteady
  <2> QED
    BY <1>1, <2>2, PendingSteady
<1>2. ASSUME NEW u \in Rejected(s, p),
             t \in GivesUp(u, p) \/ t = [u EXCEPT !.pending = {[p EXCEPT !.attempts = @ + 1]}]
      PROVE  Steady(t)
  <2>1. Steady(u) /\ (p.reason = "startup" => u.failed)
    BY RejectedSteady
  <2>2. CASE t = [u EXCEPT !.pending = {[p EXCEPT !.attempts = @ + 1]}]
    <3>1. u \in Runtimes
      BY <2>1 DEF Steady, Level
    <3>2. /\ t.doc = u.doc /\ t.observed = u.observed /\ t.applied = u.applied
          /\ t.state = u.state /\ t.released = u.released /\ t.motion = u.motion
          /\ t.failed = u.failed /\ t.taboo = u.taboo /\ t.active = u.active /\ t.at = u.at
      BY <2>2, <3>1 DEF Runtimes
    <3>3. Now(t) = Now(u)
      BY <3>2 DEF Now
    <3> QED
      BY <2>1, <3>2, <3>3, LikeSteady
  <2> QED
    BY <1>2, <2>1, <2>2, GivesUpSteady
<1> QED
  BY <1>1, <1>2 DEF Attempt

\* Whatever a tick attempts ends in an apply.
LEMMA TicksSteady ==
  ASSUME Sound(rt), Steady(rt), scheduled \in Playlists,
         TickRetry \/ TickSchedule \/ TickCycle \/ TickRest
  PROVE  Steady(rt')
<1> DEFINE s == Polled(rt)
<1>1. s \in Runtimes /\ Sound(s) /\ Steady(s) /\ Level(s)
  BY PolledSound, PolledSteady DEF Sound, Chosen, Steady
<1>2. PICK t \in Retry(s) \cup Schedule(s) \cup Cycle(s) \cup Rest(s) :
         rt' \in {t} \cup Applies(t)
  BY DEF TickRetry, TickSchedule, TickCycle, TickRest, Tick
<1> HIDE DEF s
<1>3. t \in Runtimes
  BY <1>1, <1>2, RetrySound, ScheduleSound, CycleSound DEF Rest, Sound, Chosen
<1>4. Steady(t) /\ Level(t)
  BY <1>1, <1>2, <1>3, TickAttempts, AttemptSteady DEF Steady
<1> QED
  BY <1>2, <1>4, AppliesSteady DEF Applies

\* The wait for the desktop, too, changes none of it.
LEMMA AwaitSteady ==
  ASSUME NEW s, Steady(s), NEW b \in BOOLEAN
  PROVE  Steady([s EXCEPT !.awaited = b])
<1> DEFINE t == [s EXCEPT !.awaited = b]
<1>1. s \in Runtimes
  BY DEF Steady, Level
<1>2. /\ t \in Runtimes /\ t.doc = s.doc /\ t.observed = s.observed /\ t.applied = s.applied
      /\ t.state = s.state /\ t.released = s.released /\ t.motion = s.motion
      /\ t.failed = s.failed /\ t.taboo = s.taboo /\ t.active = s.active /\ t.at = s.at
  BY <1>1 DEF Runtimes
<1> HIDE DEF t
<1>3. Now(t) = Now(s)
  BY <1>2 DEF Now
<1>4. Steady(t)
  BY <1>2, <1>3, LikeSteady
<1> QED
  BY <1>4 DEF t

LEMMA StartSteady ==
  ASSUME NEW d \in Documents, scheduled \in Playlists, battery \in BOOLEAN, Start(d)
  PROVE  Steady(rt')
<1>1. PICK at \in [Playlists -> Media] :
        \E end \in Ends(New(d, at)) :
          rt' = IF end = "still" THEN [Applied(New(d, at), end) EXCEPT !.awaited = TRUE]
                ELSE IF end = "motion" THEN StartupRetry(Applied(New(d, at), end), 1)
                ELSE Applied(New(d, at), end)
  BY DEF Start
<1> DEFINE s == New(d, at)
<1>2. s \in Runtimes
  BY NewTypes
<1>3. Level(s)
  BY <1>2 DEF Level, Inhibited, New, Off
<1>4. PICK end \in Ends(s) :
        rt' = IF end = "still" THEN [Applied(s, end) EXCEPT !.awaited = TRUE]
              ELSE IF end = "motion" THEN StartupRetry(Applied(s, end), 1)
              ELSE Applied(s, end)
  BY <1>1
<1> HIDE DEF s
<1> DEFINE t == Applied(s, end)
<1>5. Steady(t) /\ t \in Runtimes
  BY <1>3, AppliesSteady DEF Steady, Level
<1> HIDE DEF t
<1>6. Steady([t EXCEPT !.awaited = TRUE])
  BY <1>5, AwaitSteady
<1>7. Steady(StartupRetry(t, 1))
  <2> DEFINE p == [reason |-> "startup", attempts |-> 1,
                   baseline |-> Selection(t), candidate |-> Selection(t)]
  <2>1. 1 \in 0..(MaxAttempts - 1)
    BY PlaybackAssumption
  <2>2. p \in Retries
    BY <1>5, <2>1, SelectionTypes DEF Retries
  <2>3. StartupRetry(t, 1) = [t EXCEPT !.pending = {p}]
    BY DEF StartupRetry
  <2> HIDE DEF p
  <2> QED
    BY <1>5, <2>2, <2>3, PendingSteady
<1> QED
  BY <1>4, <1>5, <1>6, <1>7 DEF t

LEMMA RetryInitialSteady ==
  ASSUME Steady(rt), RetryInitial
  PROVE  Steady(rt')
<1>1. ASSUME NEW end, rt' = [Applied(rt, end) EXCEPT !.awaited = end = "still"]
      PROVE  Steady(rt')
  <2>1. Steady(Applied(rt, end))
    BY AppliesSteady DEF Steady
  <2> DEFINE b == end = "still"
  <2>2. b \in BOOLEAN /\ rt' = [Applied(rt, end) EXCEPT !.awaited = b]
    BY <1>1
  <2> HIDE DEF b
  <2> QED
    BY <2>1, <2>2, AwaitSteady
<1> QED
  BY <1>1 DEF RetryInitial

LEMMA RendererExitsSteady ==
  ASSUME Steady(rt), RendererExits
  PROVE  Steady(rt')
<1>1. rt \in Runtimes /\ Level(rt)
  BY DEF Steady, Level
<1>2. /\ rt' \in Runtimes /\ rt'.motion = "exited" /\ rt'.doc = rt.doc
      /\ rt'.observed = rt.observed /\ rt'.applied = rt.applied /\ rt'.state = rt.state
      /\ rt'.released = rt.released
  BY <1>1 DEF RendererExits, Runtimes
<1>3. Level(rt') /\ (Inhibited(rt') <=> Inhibited(rt))
  BY <1>1, <1>2, LevelKept DEF Inhibited
<1>4. rt.motion # "none"
  BY DEF RendererExits
<1> QED
  BY <1>2, <1>3, <1>4 DEF Steady

\* What happens around the loop leaves the runtime alone, or ends it.
LEMMA NextSteady ==
  ASSUME Reloads = {}
  PROVE  IInv /\ (phase # "down" => Steady(rt)) /\ [Next]_vars => (phase # "down" => Steady(rt))'
<1> SUFFICES ASSUME IInv, phase # "down" => Steady(rt), [Next]_vars, phase' # "down"
             PROVE  Steady(rt')
  OBVIOUS
<1> USE DEF IInv
<1>1. CASE CalendarMoves \/ PowerMoves \/ UNCHANGED vars
  BY <1>1 DEF CalendarMoves, PowerMoves, vars
<1>2. CASE RendererExits
  <2>1. phase # "down"
    BY <1>2 DEF RendererExits, Off
  <2> QED
    BY <1>2, <2>1, RendererExitsSteady
<1>3. ASSUME NEW d \in Documents, Start(d)
      PROVE  Steady(rt')
  BY <1>3, StartSteady
<1>4. CASE Quit \/ Deadline
  BY <1>4 DEF Quit, Deadline
<1>5. CASE Requests
  BY <1>5, RequestsServe, RequestsSteady
<1>6. CASE BatchEnds
  BY <1>6 DEF BatchEnds
<1>7. CASE Observe
  BY <1>7, ObserveSteady DEF Observe
<1>8. CASE TickRetry \/ TickSchedule \/ TickCycle \/ TickRest
  <2>1. phase = "tick"
    BY <1>8 DEF TickRetry, TickSchedule, TickCycle, TickRest, Tick
  <2> QED
    BY <1>8, <2>1, TicksSteady
<1>9. CASE RetryInitial
  BY <1>9, RetryInitialSteady DEF RetryInitial
<1> QED
  BY <1>1, <1>2, <1>3, <1>4, <1>5, <1>6, <1>7, <1>8, <1>9 DEF Next, Loop

LEMMA SteadyMotion ==
  (phase # "down" => Steady(rt)) /\ IInv => TransportHonoured /\ PlayingMoves /\ BatteryKept
<1> SUFFICES ASSUME phase # "down" => Steady(rt), IInv
             PROVE  TransportHonoured /\ PlayingMoves /\ BatteryKept
  OBVIOUS
<1>1. CASE phase = "down"
  BY <1>1 DEF IInv, Off, TransportHonoured, PlayingMoves, BatteryKept
<1>2. CASE phase # "down"
  BY <1>2 DEF Steady, TransportHonoured, PlayingMoves, BatteryKept
<1> QED
  BY <1>1, <1>2

LEMMA SteadyInvariant ==
  ASSUME Reloads = {}
  PROVE  Spec => [](phase # "down" => Steady(rt))
<1>1. Init => (phase # "down" => Steady(rt))
  BY DEF Init
<1>2. IInv /\ (phase # "down" => Steady(rt)) /\ [Next]_vars => (phase # "down" => Steady(rt))'
  BY NextSteady
<1> QED
  BY <1>1, <1>2, RuntimeInvariant, PTL DEF Spec

\* While no document is published under it, a stop leaves no motion and a pause none that
\* runs, unless the renderer is reported to have failed.
THEOREM TransportIsHonoured ==
  ASSUME Reloads = {}
  PROVE  Spec => []TransportHonoured
  BY SteadyInvariant, RuntimeInvariant, SteadyMotion, PTL

\* While no document is published under it, what is playing, and may, runs.
THEOREM PlayingAlwaysMoves ==
  ASSUME Reloads = {}
  PROVE  Spec => []PlayingMoves
  BY SteadyInvariant, RuntimeInvariant, SteadyMotion, PTL

\* While no document is published under it, the battery policy leaves no renderer.
THEOREM BatteryIsKept ==
  ASSUME Reloads = {}
  PROVE  Spec => []BatteryKept
  BY SteadyInvariant, RuntimeInvariant, SteadyMotion, PTL

=============================================================================
