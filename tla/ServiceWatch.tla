---------------------------- MODULE ServiceWatch ----------------------------
(***************************************************************************)
(* How the playback service picks a published pair up (main.rs, run): it   *)
(* loads runtime.toml and runtime-overrides.toml at start, on a `reload'   *)
(* request and when a poll finds another fingerprint than the one it last  *)
(* loaded.  Nothing locks the files against it: each fingerprint is two    *)
(* stats and each load two reads, and publications move in between.        *)
(*                                                                         *)
(* A stat is an inode: length and modification time only make a reused     *)
(* inode differ; every absent overrides file has the same one, 0.  Whether *)
(* the pair a load read is then taken up or refused makes no difference    *)
(* here: either way it is not read again (run).                            *)
(***************************************************************************)
EXTENDS Publication

CONSTANTS
  Verbs,        \* requests clients send: "reload", "reload argument"
  MaxRestarts   \* bound of the checked runs

ASSUME ServiceAssumption ==
  /\ Verbs \subseteq {"reload", "reload argument"}
  /\ MaxRestarts \in Nat

VARIABLES
  svc,      \* the service's step
  why,      \* what set it off: "start", "poll" or a request; "" when done
  known,    \* the fingerprint it believes it has loaded
  seen,     \* the fingerprint being captured
  got,      \* the document read by the load in progress
  tried,    \* the pair the last load read
  refused,  \* (history) a refused `reload' has moved `known' since that load
  restarts

service == <<svc, why, known, seen, got, tried, refused, restarts>>
watch   == <<vars, service>>

Pair == [doc |-> doc, side |-> side]
Fingerprint == [doc |-> doc.id, side |-> side.id]

ServiceInit ==
  /\ svc = "down" /\ why = ""
  /\ known = Fingerprint /\ seen = Fingerprint
  /\ got = doc /\ tried = Pair
  /\ refused = FALSE /\ restarts = 0

\* fingerprint(): the stat of the document; it comes before the request is read.
Look(from, reason) ==
  /\ svc = from
  /\ svc' = "stat"
  /\ why' = reason
  /\ seen' = [seen EXCEPT !.doc = doc.id]
  /\ UNCHANGED <<vars, known, got, tried, refused, restarts>>

Start       == Look("down", "start")
Poll        == Look("idle", "poll")
Serve(verb) == Look("idle", verb)

\* The fingerprint is complete.  Then comes a load, unless the poll found nothing
\* new or the `reload' is refused because it has an argument: `serve' says
\* "reload" of that one too, and what was seen counts as loaded.
LoadsUnless(same) ==
  /\ svc = "stat"
  /\ seen' = [seen EXCEPT !.side = side.id]
  /\ IF why = "reload argument" \/ (why = "poll" /\ same)
     THEN /\ svc' = "idle" /\ why' = "" /\ known' = seen'
          /\ refused' = (refused \/ (why = "reload argument" /\ seen' # known))
     ELSE svc' = "read" /\ UNCHANGED <<why, known, refused>>
  /\ UNCHANGED <<vars, got, tried, restarts>>

\* Mutant: the poll looks at the document only.
StatOfDocument == LoadsUnless(seen.doc = known.doc)

\* fingerprint(): the stat of the overrides.
Stat == LoadsUnless([seen EXCEPT !.side = side.id] = known)

\* Config::load: the document ...
ReadDocument ==
  /\ svc = "read"
  /\ got' = doc
  /\ svc' = "apply"
  /\ UNCHANGED <<vars, why, known, seen, tried, refused, restarts>>

\* Mutant: the fingerprint is taken after the load.
ReadThenStat ==
  /\ svc = "apply"
  /\ tried' = [doc |-> got, side |-> side]
  /\ known' = Fingerprint
  /\ svc' = "idle" /\ why' = ""
  /\ refused' = FALSE
  /\ UNCHANGED <<vars, seen, got, restarts>>

\* ... then the overrides.  Taken up or refused, this generation is done with.
ReadOverrides ==
  /\ svc = "apply"
  /\ tried' = [doc |-> got, side |-> side]
  /\ known' = seen
  /\ svc' = "idle" /\ why' = ""
  /\ refused' = FALSE
  /\ UNCHANGED <<vars, seen, got, restarts>>

\* The service dies or is stopped; systemd starts it again.
ServiceCrash ==
  /\ svc # "down"
  /\ restarts < MaxRestarts
  /\ restarts' = restarts + 1
  /\ svc' = "down" /\ why' = ""
  /\ UNCHANGED <<vars, known, seen, got, tried, refused>>

-----------------------------------------------------------------------------
Loads == Stat \/ ReadDocument \/ ReadOverrides

ServiceNext ==
  \/ Start \/ Poll \/ Loads \/ ServiceCrash
  \/ \E verb \in Verbs : Serve(verb)

WatchInit == Init /\ ServiceInit
WatchNext == ServiceNext \/ (Next /\ UNCHANGED service)

\* flock is polled, so a due publisher that keeps finding the lock free gets it,
\* and a publication runs to its end.  systemd starts the service again, and its
\* one loop answers at most four clients between two polls.
Fairness ==
  /\ \A p \in Publishers :
       /\ SF_watch(p \in due /\ TakeLock(p) /\ UNCHANGED service)
       /\ WF_watch(Publishes(p) /\ UNCHANGED service)
  /\ WF_watch(Start) /\ WF_watch(Loads) /\ SF_watch(Poll)

WatchSpec     == WatchInit /\ [][WatchNext]_watch
WatchFairSpec == WatchSpec /\ Fairness

-----------------------------------------------------------------------------
\* Every variable of the service keeps its type; it has a reason to be at work.
ServiceTypeOK ==
  /\ svc \in {"down", "idle", "stat", "read", "apply"}
  /\ why \in {"", "start", "poll"} \cup Verbs
  /\ why = "" <=> svc \in {"down", "idle"}
  /\ known \in [doc : Nat, side : Nat] /\ seen \in [doc : Nat, side : Nat]
  /\ got \in Documents
  /\ tried \in [doc : Documents, side : Sidecars]
  /\ refused \in BOOLEAN /\ restarts \in Nat

\* What a load read is what is on disk, up to overrides that have been removed.
InForce(pair) == pair.doc = doc /\ (side.over # Absent => pair.side = side)

\* When the service believes it has loaded what is on disk, it has read exactly
\* that pair, however its stats and reads interleave with the renames: the
\* fingerprint is captured before the load so that no newer bytes are taken for
\* loaded (main.rs, run).  Two cases the code does miss are left out: overrides
\* published after their stat, read, and removed again stay in force, since every
\* absent file has the same fingerprint; and what a refused `reload' took for loaded.
NothingMissed == svc = "idle" /\ known = Fingerprint /\ ~refused => InForce(tried)

\* Once the person stops saving, the service's last load comes to be of what is on
\* disk - up to the same two cases - through its own death, with every `reload' lost
\* and after publications that failed or died; if none did, that is the last save.
SavesReachTheService ==
  <>[](/\ refused \/ InForce(tried)
       /\ failures + crashes = 0 => Contents(doc, side) = saved)
=============================================================================
