------------------------------ MODULE Playback ------------------------------
(***************************************************************************)
(* The playback runtime of mirrored displays (runtime.rs, Runtime) in the  *)
(* service's one loop (main.rs, run): a batch of requests, the battery     *)
(* policy, one tick, the retry of the first apply.  The loop is one        *)
(* thread; what moves around it is the battery, the calendar, the          *)
(* renderers, which may exit, and every apply, which may fail.             *)
(*                                                                         *)
(* A medium stands for all its equivalent entries, which become taboo      *)
(* together (mark_taboo).  A rotation is its current entry: which other    *)
(* entry a move picks is PlaylistCursor's business.  Whether a retry or    *)
(* the cycle is due is a choice of the tick.  Independent routes, refused  *)
(* scenes and their stand-ins, missing programs and empty playlists are    *)
(* left out.                                                               *)
(***************************************************************************)
EXTENDS Naturals

CONSTANTS
  Media, Stills, Scenes,   \* what entries show; the rest are videos
  Playlists,
  Documents,   \* [holds: what each playlist holds, policy: stop on battery,
               \*  borked: the media the app recorded as taboo]
  Reloads,     \* the documents published while the service runs
  None,
  MaxAttempts  \* AUTOMATIC_APPLY_ATTEMPTS

ASSUME PlaybackAssumption ==
  /\ Stills \subseteq Media /\ Scenes \subseteq Media \ Stills
  /\ None \notin Media \cup Playlists
  /\ Documents \subseteq [holds : [Playlists -> (SUBSET Media) \ {{}}],
                          policy : BOOLEAN, borked : SUBSET Media]
  /\ Reloads \subseteq Documents
  /\ MaxAttempts \in Nat \ {0, 1}

VARIABLES
  rt,         \* the Runtime and its driver
  phase,      \* the loop's place: "down", "serve", "observe", "tick", "retry"
  scheduled,  \* the playlist the calendar names now
  battery     \* the machine is known to run on battery

environment == <<scheduled, battery>>
vars == <<rt, phase, scheduled, battery>>

\* What the service holds before it starts; most of it is chosen by New.
Off == [doc |-> None, manual |-> None, active |-> None, at |-> <<>>,
        state |-> "Playing", taboo |-> {}, failed |-> FALSE, pending |-> {},
        observed |-> FALSE, applied |-> FALSE, released |-> FALSE,
        awaited |-> FALSE, still |-> None, video |-> None, motion |-> "none"]

Init ==
  /\ rt = Off /\ phase = "down"
  /\ scheduled \in Playlists /\ battery \in BOOLEAN

-----------------------------------------------------------------------------
(* What the runtime makes of its state.                                    *)

Now(s) == s.at[s.active]
Usable(s, p) == s.doc.holds[p] \ s.taboo
Selection(s) == [active |-> s.active, at |-> s.at]
Select(s, sel) == [s EXCEPT !.active = sel.active, !.at = sel.at]
Pick(s, e) == [s EXCEPT !.at[s.active] = e]

\* animations_inhibited
Inhibited(s) == s.doc.policy /\ s.observed

\* Mutants: what is taboo, or the battery, is not asked about.
AnimatesTaboo(s) ==
  /\ ~Inhibited(s)
  /\ s.state = "Playing" \/ (s.state = "Paused" /\ ~s.released)
  /\ Now(s) \notin Stills
AnimatesOnBattery(s) ==
  /\ s.state = "Playing" \/ (s.state = "Paused" /\ ~s.released)
  /\ Now(s) \notin s.taboo \cup Stills

\* effective_motion_settings and taboo_fallback_diagnostic: motion is to start.
\* A pause whose renderer the battery policy released stays a still.
Animates(s) ==
  /\ ~Inhibited(s)
  /\ s.state = "Playing" \/ (s.state = "Paused" /\ ~s.released)
  /\ Now(s) \notin s.taboo \cup Stills

\* How an apply ends: well, before its still is set, before its motion starts or
\* with motion that could not be paused.  Noctalia's errors are of the first kind
\* (startup_readiness_error).
Ends(s) ==
  {"ok", "still"}
    \cup (IF Animates(s) THEN {"motion"} ELSE {})
    \cup (IF Animates(s) /\ s.state = "Paused" THEN {"pause"} ELSE {})
Failures(s) == Ends(s) \ {"ok"}

Halted(s) == [s EXCEPT !.video = None, !.motion = "none"]

\* Mutant: motion that was paused starts moving.
AppliedUnfrozen(s, end) ==
  LET moves == Animates(s) /\ end \in {"ok", "pause"} IN
  [s EXCEPT
     !.released = Inhibited(s) \/ (s.state # "Playing" /\ @),
     !.still    = IF end = "still" THEN @ ELSE Now(s),
     !.video    = IF moves THEN Now(s) ELSE None,
     !.motion   = IF moves THEN "running" ELSE "none",
     !.failed   = end # "ok" \/ Now(s) \in s.taboo,
     !.awaited  = @ /\ end # "ok"]

\* Mutant: an apply that failed half way is not reported.
AppliedUnreported(s, end) ==
  LET moves == Animates(s) /\ end \in {"ok", "pause"} IN
  [s EXCEPT
     !.released = Inhibited(s) \/ (s.state # "Playing" /\ @),
     !.still    = IF end = "still" THEN @ ELSE Now(s),
     !.video    = IF moves THEN Now(s) ELSE None,
     !.motion   = IF ~moves THEN "none"
                  ELSE IF s.state = "Paused" /\ end = "ok" THEN "frozen" ELSE "running",
     !.failed   = Now(s) \in s.taboo,
     !.awaited  = @ /\ end # "ok"]

\* apply_current (apply_mirrored_targets, SystemDriver::apply): break before make.
Applied(s, end) ==
  LET moves == Animates(s) /\ end \in {"ok", "pause"} IN
  [s EXCEPT
     !.released = Inhibited(s) \/ (s.state # "Playing" /\ @),
     !.still    = IF end = "still" THEN @ ELSE Now(s),
     !.video    = IF moves THEN Now(s) ELSE None,
     !.motion   = IF ~moves THEN "none"
                  ELSE IF s.state = "Paused" /\ end = "ok" THEN "frozen" ELSE "running",
     !.failed   = end # "ok" \/ Now(s) \in s.taboo,
     !.awaited  = @ /\ end # "ok"]
Applies(s) == {Applied(s, end) : end \in Ends(s)}

-----------------------------------------------------------------------------
(* The world around the loop.                                              *)

CalendarMoves ==
  /\ scheduled' \in Playlists \ {scheduled}
  /\ UNCHANGED <<rt, phase, battery>>

PowerMoves ==
  /\ \E d \in Documents : d.policy
  /\ battery' = ~battery
  /\ UNCHANGED <<rt, phase, scheduled>>

RendererExits ==
  /\ rt.motion \in {"running", "frozen"}
  /\ rt' = [rt EXCEPT !.motion = "exited"]
  /\ UNCHANGED <<phase, environment>>

-----------------------------------------------------------------------------
(* Start and end.                                                          *)

\* Runtime::new, then the first look at the battery (observe_power).
New(d, at) ==
  LET onBattery == d.policy /\ battery IN
  [Off EXCEPT !.doc = d, !.active = scheduled, !.at = at, !.taboo = d.borked,
              !.observed = battery, !.applied = onBattery, !.released = onBattery]

\* schedule_initial_apply_retry, or the next candidate after a startup one.
StartupRetry(s, n) ==
  [s EXCEPT !.pending = {[reason |-> "startup", attempts |-> n,
                          baseline |-> Selection(s), candidate |-> Selection(s)]}]

\* initial_apply: what is not ready yet is waited for; a wallpaper that fails is
\* retried as an automatic hand-over.
Start(d) ==
  /\ phase = "down"
  /\ \E at \in [Playlists -> Media] :
       LET s == New(d, at) IN
       /\ \A p \in Playlists : at[p] \in d.holds[p]
       /\ Usable(s, scheduled) # {} => Now(s) \in Usable(s, scheduled)
       /\ \E end \in Ends(s) :
            rt' = IF end = "still" THEN [Applied(s, end) EXCEPT !.awaited = TRUE]
                  ELSE IF end = "motion" THEN StartupRetry(Applied(s, end), 1)
                  ELSE Applied(s, end)
  /\ phase' = "serve"
  /\ UNCHANGED environment

\* shutdown
Quit ==
  /\ phase = "serve"
  /\ rt' = Off /\ phase' = "down"
  /\ UNCHANGED environment

-----------------------------------------------------------------------------
(* Requests (handle_with_power).  One that is accepted cancels the pending *)
(* hand-over before it does anything else.                                 *)

Serves ==
  /\ phase = "serve"
  /\ UNCHANGED <<phase, environment>>

\* Mutant: the pending hand-over is not cancelled.
AcceptedOnly == rt

Accepted == [rt EXCEPT !.pending = {}]

UsePlaylist(p) ==
  /\ Serves
  /\ \E e \in Usable(rt, p) :
       rt' \in Applies([Accepted EXCEPT !.manual = p, !.active = p, !.at[p] = e])

FollowSchedule ==
  /\ Serves
  /\ \E e \in Usable(rt, scheduled) :
       rt' \in Applies([Accepted EXCEPT !.manual = None, !.active = scheduled,
                                        !.at[scheduled] = e])

\* play from Paused or Stopped by a new apply: if it fails, every renderer it
\* started is released and the transport is what it was.
Resumes(s) ==
  LET p == [s EXCEPT !.state = "Playing"] IN
  \E end \in Ends(p) :
    rt' = IF end = "ok" THEN Applied(p, end)
          ELSE [Halted(Applied(p, end)) EXCEPT
                  !.state = s.state,
                  !.released = IF s.state = "Paused" THEN TRUE ELSE @]

Plays(s) ==
  /\ Now(s) \notin s.taboo
  /\ \/ s.state = "Playing" /\ ~s.failed /\ rt' = s
     \/ s.state = "Playing" /\ s.failed /\ rt' \in Applies(s)
     \/ s.state = "Paused" /\ (s.failed \/ s.released) /\ Resumes(s)
     \/ /\ s.state = "Paused" /\ ~s.failed /\ ~s.released
        /\ \/ rt' = s    \* the driver could not resume it
           \/ rt' = [s EXCEPT !.state = "Playing",
                              !.motion = IF @ = "frozen" THEN "running" ELSE @]
     \/ s.state = "Stopped" /\ Resumes(s)

Pauses(s) ==
  \/ s.state = "Stopped" /\ rt' = s
  \/ /\ s.state # "Stopped"
     /\ rt' = [s EXCEPT !.state = "Paused",
                        !.motion = IF @ = "running" /\ ~Inhibited(s) THEN "frozen" ELSE @]
  \/ s.state # "Stopped" /\ ~Inhibited(s) /\ rt' = s   \* it could not pause it

\* Play is refused, and cancels nothing, on a taboo entry; toggle still does.
Play  == Serves /\ Plays(Accepted)
Pause == Serves /\ Pauses(Accepted)
Toggle ==
  /\ Serves
  /\ \/ rt.state = "Playing" /\ Pauses(Accepted)
     \/ rt.state # "Playing" /\ Plays(Accepted)
     \/ rt.state # "Playing" /\ Now(rt) \in rt.taboo /\ rt' = Accepted

Stop == Serves /\ rt' = [Halted(Accepted) EXCEPT !.state = "Stopped"]

\* next, previous, random.
Move ==
  /\ Serves
  /\ \/ \E e \in Usable(rt, rt.active) \ {Now(rt)} : rt' \in Applies(Pick(Accepted, e))
     \/ rt' = Accepted    \* there is nothing to move to

\* shuffle, cycle: the current entries stay.
SetMode == Serves /\ rt' = Accepted

\* reload: the candidate document is adopted in memory, and rolled back unless
\* everything it needs applied can be.  What was found taboo stays so while the
\* document holds it, and what the app recorded is what the document says.
Adopted(d, at) ==
  [rt EXCEPT !.doc = d, !.at = at, !.observed = battery,
             !.active = IF rt.manual = None THEN scheduled ELSE @,
             !.taboo = d.borked \cup ((@ \ rt.doc.borked)
                                        \cap UNION {d.holds[p] : p \in Playlists})]

Kept(d, at) ==
  \A p \in Playlists :
    IF rt.at[p] \in d.holds[p] THEN at[p] = rt.at[p] ELSE at[p] \in d.holds[p]

\* The snapshot is restored and what played before is applied again.
RolledBack(tried) ==
  LET s == [rt EXCEPT !.observed = battery,
                      !.still = tried.still, !.video = tried.video, !.motion = tried.motion] IN
  {[Applied(s, end) EXCEPT !.failed = IF end = "ok" THEN rt.failed ELSE TRUE] : end \in Ends(s)}

\* Mutant: another entry of the same playlist is adopted without an apply.
ReloadInPlace(d, restarts) ==
  /\ Serves
  /\ \E at \in [Playlists -> Media] :
       LET s == Adopted(d, at) IN
       /\ Kept(d, at)
       /\ IF restarts \/ s.active # rt.active
          THEN \/ rt' = [Applied(s, "ok") EXCEPT !.pending = {}]
               \/ \E end \in Failures(s) : rt' \in RolledBack(Applied(s, end))
          ELSE rt' = [s EXCEPT !.pending = {}]

Reload(d, restarts) ==
  /\ Serves
  /\ \E at \in [Playlists -> Media] :
       LET s == Adopted(d, at) IN
       /\ Kept(d, at)
       /\ IF restarts \/ s.active # rt.active \/ Now(s) # Now(rt)
          THEN \/ rt' = [Applied(s, "ok") EXCEPT !.pending = {}]
               \/ \E end \in Failures(s) : rt' \in RolledBack(Applied(s, end))
          ELSE rt' = [s EXCEPT !.pending = {}]

Requests ==
  \/ \E p \in Playlists : UsePlaylist(p)
  \/ FollowSchedule \/ Play \/ Pause \/ Toggle \/ Stop \/ Move \/ SetMode
  \/ \E d \in Reloads, restarts \in BOOLEAN : Reload(d, restarts)

BatchEnds ==
  /\ phase = "serve" /\ phase' = "observe"
  /\ UNCHANGED <<rt, environment>>

-----------------------------------------------------------------------------
(* observe_power: motion is released or resumed when the policy has turned *)
(* since it last was.                                                      *)

Observe ==
  LET s == [rt EXCEPT !.observed = battery] IN
  /\ phase = "observe" /\ phase' = "tick"
  /\ IF Inhibited(s) = s.applied THEN rt' = s
     ELSE IF Inhibited(s) THEN rt' = [Halted(s) EXCEPT !.applied = TRUE, !.released = TRUE]
     ELSE IF s.state = "Playing" /\ Animates(s) /\ s.motion = "none"
     THEN \/ rt' = [s EXCEPT !.applied = FALSE, !.released = FALSE, !.failed = FALSE,
                             !.video = Now(s), !.motion = "running"]
          \/ rt' = [s EXCEPT !.applied = FALSE, !.failed = TRUE]
     ELSE rt' = [s EXCEPT !.applied = FALSE]
  /\ UNCHANGED environment

-----------------------------------------------------------------------------
(* tick.                                                                   *)

\* poll_failures: a renderer that exited leaves its still; a scene's is taboo.
Polled(s) ==
  IF s.motion # "exited" THEN s
  ELSE [Halted(s) EXCEPT !.still = s.video, !.failed = TRUE,
          !.taboo = @ \cup ({s.video} \cap Scenes)]

\* attempt_automatic, after its candidate failed: the baseline is applied again.
\* A start has none.
Rejected(s, p) ==
  LET c == Select(s, p.candidate)
      Baseline(end) == Select(Applied(c, end), p.baseline) IN
  IF p.reason = "startup"
  THEN {[Applied(c, end) EXCEPT !.failed = TRUE] : end \in Failures(c)}
  ELSE UNION {{[Applied(Baseline(end), back) EXCEPT !.failed = back # "ok"] :
                  back \in Ends(Baseline(end))} : end \in Failures(c)}

\* Mutant: the entry a start gives up on is not marked.
GivesUpUnmarked(s, p) ==
  LET t == [s EXCEPT !.pending = {}] IN
  IF p.reason # "startup" \/ Usable(t, t.active) = {} THEN {t}
  ELSE {StartupRetry(Pick(t, e), 0) : e \in Usable(t, t.active)}

\* The last attempt makes the candidate's entry taboo, and a start moves on.
GivesUp(s, p) ==
  LET t == [s EXCEPT !.taboo = @ \cup {Now(p.candidate)}, !.pending = {}] IN
  IF p.reason # "startup" \/ Usable(t, t.active) = {} THEN {t}
  ELSE {StartupRetry(Pick(t, e), 0) : e \in Usable(t, t.active)}

\* Mutant: one attempt too many.
AttemptOnceMore(s, p) ==
  {[Applied(Select(s, p.candidate), "ok") EXCEPT !.pending = {}]}
    \cup UNION {IF p.attempts + 1 > MaxAttempts THEN GivesUp(t, p)
                ELSE {[t EXCEPT !.pending = {[p EXCEPT !.attempts = @ + 1]}]} :
                  t \in Rejected(s, p)}

Attempt(s, p) ==
  {[Applied(Select(s, p.candidate), "ok") EXCEPT !.pending = {}]}
    \cup UNION {IF p.attempts + 1 >= MaxAttempts THEN GivesUp(t, p)
                ELSE {[t EXCEPT !.pending = {[p EXCEPT !.attempts = @ + 1]}]} :
                  t \in Rejected(s, p)}

\* start_automatic
Handover(s, reason, candidate) ==
  Attempt(s, [reason |-> reason, attempts |-> 0,
              baseline |-> Selection(s), candidate |-> Selection(candidate)])

\* Mutants: a playlist that was picked gives way; a cycle that pauses goes on.
ScheduleTurnsAll(s) == s.pending = {} /\ scheduled # s.active
CyclePaused(s) ==
  IF s.pending # {} THEN {}
  ELSE UNION {Handover(s, "cycle", Pick(s, e)) : e \in Usable(s, s.active) \ {Now(s)}}

ScheduleTurns(s) == s.pending = {} /\ s.manual = None /\ scheduled # s.active

Retry(s) == UNION {Attempt(s, p) : p \in s.pending}

Schedule(s) ==
  IF ~ScheduleTurns(s) THEN {}
  ELSE IF Usable(s, scheduled) = {} THEN {s}
  ELSE UNION {Handover(s, "schedule", [s EXCEPT !.active = scheduled, !.at[scheduled] = e]) :
                e \in Usable(s, scheduled)}

Cycle(s) ==
  IF s.pending # {} \/ ScheduleTurns(s) \/ s.state = "Paused" THEN {}
  ELSE UNION {Handover(s, "cycle", Pick(s, e)) : e \in Usable(s, s.active) \ {Now(s)}}

Rest(s) == IF ScheduleTurns(s) THEN {} ELSE {s}

\* A tick ends with a look at the outputs; when they changed all is applied again.
Tick(Does(_)) ==
  /\ phase = "tick"
  /\ \E s \in Does(Polled(rt)) : rt' \in {s} \cup Applies(s)
  /\ phase' = IF rt'.awaited THEN "retry" ELSE "serve"
  /\ UNCHANGED environment

TickRetry    == Tick(Retry)
TickSchedule == Tick(Schedule)
TickCycle    == Tick(Cycle)
TickRest     == Tick(Rest)

\* retry_initial_apply, until an apply succeeded (authoritative_generation).
RetryInitial ==
  /\ phase = "retry"
  /\ \/ rt' = rt    \* not due
     \/ \E end \in Ends(rt) : rt' = [Applied(rt, end) EXCEPT !.awaited = end = "still"]
  /\ phase' = "serve"
  /\ UNCHANGED environment

\* The window for the first apply has passed: run returns the error.
Deadline ==
  /\ phase = "retry"
  /\ rt' = Off /\ phase' = "down"
  /\ UNCHANGED environment

-----------------------------------------------------------------------------
Loop == BatchEnds \/ Observe \/ TickRetry \/ TickSchedule \/ TickCycle \/ TickRest \/ RetryInitial

Next ==
  \/ CalendarMoves \/ PowerMoves \/ RendererExits
  \/ \E d \in Documents : Start(d)
  \/ Quit \/ Requests \/ Loop \/ Deadline

Spec == Init /\ [][Next]_vars

\* The loop goes on (weak fairness of its four kinds of turns; a tick may always
\* rest unless the schedule turns), and a retry that keeps coming due is made.
FairSpec ==
  /\ Spec
  /\ WF_vars(BatchEnds) /\ WF_vars(Observe) /\ WF_vars(TickRest) /\ WF_vars(RetryInitial)
  /\ SF_vars(TickRetry)

-----------------------------------------------------------------------------
Selections == [active : Playlists, at : [Playlists -> Media]]
Retries == [reason : {"startup", "schedule", "cycle"}, attempts : 0..(MaxAttempts - 1),
            baseline : Selections, candidate : Selections]
Runtimes ==
  [doc : Documents, manual : Playlists \cup {None}, active : Playlists,
   at : [Playlists -> Media], state : {"Playing", "Paused", "Stopped"},
   taboo : SUBSET Media, failed : BOOLEAN, pending : SUBSET Retries,
   observed : BOOLEAN, applied : BOOLEAN, released : BOOLEAN, awaited : BOOLEAN,
   still : Media \cup {None}, video : Media \cup {None},
   motion : {"none", "running", "frozen", "exited"}]

\* Every variable keeps its type.
TypeOK ==
  /\ phase \in {"down", "serve", "observe", "tick", "retry"}
  /\ IF phase = "down" THEN rt = Off ELSE rt \in Runtimes
  /\ scheduled \in Playlists /\ battery \in BOOLEAN

\* Between the attempts of a hand-over the selection is the one it started from,
\* whatever was pressed, refused or reloaded meanwhile: "status and desktop agree"
\* (attempt_automatic), and the next attempt undoes nobody's choice.
BaselineKept == \A p \in rt.pending : Selection(rt) = p.baseline

\* A renderer only ever shows the entry status names.
MotionIsSelected == rt.video # None => rt.video = Now(rt)

\* A playlist the person chose stays in force until they give it up: no schedule
\* change waiting between attempts puts another one back ("It must never reappear
\* two seconds later and overwrite the person's choice", handle_with_power).
ManualWins == rt.manual # None => rt.active = rt.manual

\* A pause holds the cursor: the cycle's next entry is not waiting to be tried.
PauseHolds == rt.state = "Paused" => \A p \in rt.pending : p.reason # "cycle"

\* A stop leaves no motion, and a pause none that runs, unless status says that
\* the renderer failed.
TransportHonoured ==
  /\ rt.state = "Stopped" => rt.motion = "none"
  /\ rt.state = "Paused" /\ ~rt.failed => rt.motion # "running"

\* Whatever is playing, and may, does run, unless status says that the renderer
\* failed: nothing else would start it, since `play' leaves it alone.
PlayingMoves ==
  rt.state = "Playing" /\ ~rt.failed /\ phase # "down" /\ Animates(rt) =>
    rt.motion \in {"running", "exited"}

\* Once the loop has looked at the battery, no renderer is left while animations
\* are inhibited ("Unplugging releases owned video/scene renderers",
\* docs/runtime-config.md).
BatteryKept == phase = "tick" /\ Inhibited(rt) => rt.motion = "none"

\* Motion of an entry already known to be taboo never starts, by whatever way the
\* selection comes to it.
TabooNeverStarted ==
  [][rt'.motion = "running" /\ (rt.motion # "running" \/ rt'.video # rt.video) =>
       rt'.video \notin rt.taboo \cap rt'.taboo]_vars

\* No hand-over is retried for ever: three attempts, and a start that keeps moving
\* on runs out of entries.
HandoverEnds == []<>(rt.pending = {})
=============================================================================
