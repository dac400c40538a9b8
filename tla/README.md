# wall-in-one: what is specified, checked and proved

wall-in-one is a wallpaper manager for Wayland desktops. A person edits a
library, playlists, pairings, schedules and settings in a Python/GTK program;
a small Rust service plays them, day and night, with the window closed. The
two meet in two generated files and one socket. This directory specifies in TLA+
that meeting, the service's playback behind it, what becomes of a wallpaper's
file between download and removal, the stores everything is authored in, the way
back of what the service finds out, and the upgrade of a deployed profile. TLC
checks small instances of all of it, and TLAPS proves the safety properties of the
passing runs for all instances, three of them under assumptions said below.

All paths below are relative to the repository.

- [Inventory](#inventory)
- [Modules](#modules)
- [Runs](#runs)
- [Proofs](#proofs)
- [Disagreements found while modelling](#disagreements-found-while-modelling)
- [What is not modelled](#what-is-not-modelled)
- [Plan](#plan)

## Inventory

| Component | State it keeps | Operations | Hard behaviour | What makes it correct |
|---|---|---|---|---|
| Publication (`src/wall_in_one/runtime_config.py`, `cli.py`, `config.py`) | `runtime.toml`, `runtime-overrides.toml`, the compiler lock, the settings' lock | compile, hold the web setting, publish the pair, put it back | several processes publish; two renames are not one; a publisher is killed between them; the person saves meanwhile | a whole pair whenever nobody publishes; never an older snapshot over a newer one; never web wallpapers after they were turned off |
| Configuration watch (`service/src/main.rs`, `config.rs`) | the fingerprint believed loaded, the document loaded | load at start, `reload`, poll | stats and reads between other processes' renames | nothing is taken for loaded that was not read; every save arrives |
| Playlist cursor (`service/src/runtime.rs`) | order, place, two bounded histories | next, previous, random, shuffle, rebuild, restart | entries fail and documents change between any two moves | orders stay whole, rounds fair, moves playable |
| Mirrored playback (`runtime.rs`, `main.rs`, `renderer.rs`) | selection, transport, taboo entries, pending hand-over, battery policy, report | play, pause, stop, picks, follow schedule, cycle, reload, tick, observe power | every apply may fail half way; renderers exit; a retry waits while commands arrive | the person's choice wins; what moves is selected and allowed; the report is honest |
| Independent routes (`runtime.rs`) | one such machine per display, dormant displays | the same per display, hot-plug | displays come and go between a failure and its retry | as above, per display; no route leaks into another |
| Renderer driver (`renderer.rs`) | one process group per output, mpv's socket | start, replace, pause, poll, stop | partial failure over outputs, groups that do not die | no orphan; break before make |
| Power observer (`power.rs`) | a mailbox with a generation, the 500 ms debounce | prepare, synchronize, sample | a thread's late sample, connector bounce | suppression at once, restoration only when stable |
| Socket ownership (`main.rs`), control server (`control/server.py`) | a lock inode, a socket inode | claim, clear stale, bind, release | two processes, replaced inodes, crashes | one owner; nobody removes another's socket |
| Schedules (`service/src/schedule.rs`, `library/schedules.py`) | none | resolve a rule, next boundary | midnight, daylight saving | the same answer on both sides |
| Protocol and status (`service/src/protocol.rs`) | none | framing, shaping a status to its budget | deadlines | a reply always fits |
| Health write-back (`runtime_health.py`, `cli.py`, `ui/app.py`, `library/pairings.py`, `runtime.rs`) | the service's findings, the marks among the pairings, the window's waiting requests | fail, reconcile, sync, ingest, Try again | a status waits while the person takes the mark back; marks saved and not published; lost and refused reloads | no mark taken back returns by itself; no mark is given to a wallpaper that is gone; every finding arrives |
| Stores and settings (`library/state_file.py`, `playlists.py`, `pairings.py`, `config.py`, ...) | one JSON or TOML file each, and its lock | mutate, rebase, write | stale snapshots, newer versions, power loss | no lost update, no torn file |
| Removals journal (`library/removals.py`, `manage.py`, `file_io.py`) | intents, claims, leases | prepare, claim, commit, clean up, replay | a crash between any two steps; a file of the same name comes back | only the recorded generation is removed; every intent is finished |
| Session and lanes (`session.py`, `backend.py`, `worker_processes.py`) | the library snapshot, queues | scan, adopt, author, cancel | results of superseded scans | the newest scan wins; nothing is authored from a stale one |
| Window (`ui/app.py`, ...) | generation counters, queued edits | gestures, compile lane | late callbacks | a control shows what is durable once its last write settled |
| Downloads (`providers/download.py`, ...) | staging files, sidecars | stage, install, recover | a kill between media and sidecar | no provenance on the wrong file |
| Upgrade (`deployed_upgrade_transaction.py`, ...) | a transaction directory | prepare, replace, commit, recover | a crash at each step | the old or the new version, whole |
| Theme, scan, providers, thumbnails, tidy, packaging | | text, parsing, housekeeping | little | |

How they interact:

```
 person --save--> stores, settings.toml --compile--> runtime-overrides.toml, runtime.toml
                        |  (compiler lock; settings lock while web wallpapers are on)
                        |                                    | stat, stat, read, read
                        |                                    v
 window, ctl ------------- requests over the socket ----> service: one loop
                                                             |  requests (<= 4), poll,
 calendar, battery, outputs, renderers --------------------> |  battery, tick, first apply
                                                             v
                                                      Noctalia, mpv, scene renderer
```

`PROJECT.json` lists the hazards of this code, each at its line, with the
properties that would catch them going wrong.

## Modules

### Publication

`Publication.tla` is `publish_changes` and `write` of `runtime_config.py` as any
number of publishers run them (the window's compile lane, `--write-config`, the
service's preflight, the health write-back), with the person saving meanwhile.

| TLA+ | Code |
|---|---|
| `saved` | the authoring stores and `settings.toml`; `gen` counts saves that change the document |
| `doc`, `side` | the two files: an inode and what it says |
| `pc`, `work` | a publisher's step; what it compiled, and `previous_overrides` |
| `lock`, `SettingHeld` | the compiler lock; the settings' lock, held exactly while a document with web wallpapers on is between `_web_setting_held`'s check and its end |
| `TakeLock`, `GiveUp` | `compiler_lock`, its time-out |
| `Compile`, `SettingAgrees`, `SettingMoved` | one round of the `WEB_SETTING_ATTEMPTS` loop |
| `PublishOverrides`, `SkipOverrides`, `InstallDocument`, `NothingToWrite` | `_publish`, in its order |
| `WriteFails`, `Restore`, `RestoreFails`, `PublisherCrash` | its error paths; a process that is killed loses its `flock`s and nothing else |

`whole` and `torn` are history variables: the pair of the last completed
publication, and whether a crash or a failed restore has split it since (the
two cases `_publish`'s comment gives up on).

Abstractions: a save is one step (its own file is replaced by one rename under its
own lock); it may leave the web setting alone at any time, and change it only
while the lock is free, which allows more than the code does; the sessions' reads
of the stores are one step, under the compiler lock. Both files' texts are reduced
to which save they were compiled from, what the overrides hold, and the web
setting.

`AtomicPair.tla` is what publishers promise together, with no locks, files or renames:
one publication at a time reads the stores, at one moment, and then replaces the pair by
what it read, as a whole, or gives up; only a death or a failed restore may leave the pair
split, until the next one. `Pairs == INSTANCE AtomicPair WITH pair <- PairSeen, read <-
InProgress` maps the publishers to it, and `PairIsAtomic` is its specification. The
mapping takes the two files themselves whenever the lock is free and nothing is split, so
it also says that a failure puts back what was there.

### ServiceWatch

`ServiceWatch.tla` EXTENDS `Publication` with the service's side of the files.
`Look` and `Stat` are the two stats of `fingerprint()`, `ReadDocument` and
`ReadOverrides` the two reads of `Config::load`; between any two of them a
publication may move. `why` says whether the service's start, its poll or a
request set it off. `known = observed` after a request and `known = current`
after a poll are the assignments at the end, whether the load was taken up or
refused: to the watch that makes no difference, since neither is read again.

A stat is an inode number here, never reused. The code compares the inode, the
length and the modification time, which tells a reused inode apart. An overrides
file that is absent has the same fingerprint, 0, whenever it is absent; removing it is
how a publication says that there are no overrides (`_publish_overrides`).

`NothingMissed` and `SavesReachTheService` are stated up to two things the code
does, told under "Disagreements": overrides that came and went during one load
(`InForce` asks nothing of the overrides while there are none on disk), and what a
refused `reload` took for loaded (`refused`, a history variable).

### PlaylistCursor

`PlaylistCursor.tla` is the whole algorithm of one rotation, one action per
branch of `move_cursor_forward`, `move_cursor_backward` and
`move_cursor_random`, plus `reset_cursor_automatic`, `set_shuffle` and
`rebuild_cursors`. The generator is a choice over all deals. `usable` is what
`cant_play` leaves; it shrinks at any moment (`Fails`) and is chosen anew by a
reload. `round` and `unbroken` are history variables for the fairness of a
shuffled round.

`Rotation.tla` is what all of that promises the runtime, with no order, position or
history: a set of entries that can play and the one in force. A move goes to another
of the set; `random` does whenever there is another; a restart goes to the first, if
nothing is shuffled; a shuffle or a failure changes nothing in force. `Rotates ==
INSTANCE Rotation WITH current <- InForce` maps the cursor to it, and `RotatesAsPromised` is
its specification. That `next` and `previous` may stay although another entry can play is
part of it, because the code's `next` does (see below).

### Playback

`Playback.tla` is the `Runtime` for mirrored displays in the loop of `run`:
a batch of requests (`phase = "serve"`), `observe_power`, `tick`,
`retry_initial_apply`. The runtime is one thread, so a request, an observation
and a tick are each one action; what interleaves is the world: the calendar, the
battery, renderers that exit, and the outcome of every apply.

| Field of `rt` | Code |
|---|---|
| `doc` | `config`: what each playlist holds, the battery policy, the entries recorded as taboo |
| `manual`, `active`, `at` | `manual_playlist`, `active_playlist`, the cursors' current entries |
| `state`, `failed` | `playback_state`, `renderer_failed` |
| `taboo` | `taboo`; a medium stands for all its equivalent entries |
| `pending` | `pending_automatic` |
| `observed`, `applied`, `released` | `power.observation`, `applied_power_inhibition`, `power_released_outputs` |
| `awaited` | `StartupRetry` of `main.rs` is waiting |
| `still`, `video`, `motion` | the driver: the still on the desktop, the renderer's medium and whether it runs, is frozen or has exited unnoticed |

`Applied(s, end)` is `apply_current`: what is on the desktop after an apply that
ended in one of four ways (`Ends`). The other operators take a state of the
runtime to a state, or to the set of states it may become, so that one tick can
do what the code's does: poll the renderers, then a retry, a schedule boundary or
a cycle, then a look at the outputs. Whether a retry or the cycle is due, and
which other entry a move picks, are choices.

### LibraryFiles, Removal, Download, WallpaperLife

One wallpaper's pathname, from the rename that publishes a download to the last
store that forgets it. `LibraryFiles.tla` has what is on disk, and the others who
touch it; `Removal.tla` and `Download.tla` extend it with what the application
does; `WallpaperLife.tla` composes them.

| TLA+ | Code |
|---|---|
| `media`, `record`, `still` | the file, the download record beside it (the authority to delete it), the captured still; a file is its generation (the inode the fingerprint identifies) and its change time |
| `claim`, `recClaim`, `trash` | the private claims of `file_io.py`, per removal token; the trash |
| `journal`, `lease`, `pathLock` | the pending intent of the path, `_take_operation_lease`, the lifecycle locks |
| `refs` | each metadata store's reference, and the generation it was meant for |
| `Begin`, `TakeLease`, `Insert`, `Withdraw`, `Check`, `Rename`, `Verify`, `Destroy`, `Mark`, `Clean`, `Finish` | a live removal, in the order of `manage.py` and `removals.py` |
| `Restore`, `MoveBack`, `PutBack`, `Cancel`, `Retain` | its error paths: what was moved goes back, or the intent stays and says where it is |
| `Replay`, `Probe`, `Recover`, `Original` | the replay every library scan makes, without the lease |
| `Choose`, `PublishMedia`, `Confirm`, `PublishRecord`, `SweepLooks`, `SweepRetires` | `download.install`, and the sweep of unfinished ones |
| `StrangerPuts`, `StrangerTakes`, `Capture`, `Author` | other programs, a still being captured, a store being edited |
| `Crash`, `Dies`, `Fails` | the process ends, or a call fails, at any of these steps |

`asked`, `gone` and `installed` are history variables. Contents are abstracted; an
edit in place is treated as the code treats it, as a changed change time. A
committed intent's replay clears references by path, also if a later download
lives there by then; that is the code's choice, and the properties allow it.

`FileFate.tla` is what all of them promise of one file at a time, without tokens,
journals or locks: it comes once; it is claimed or trashed, after the person asked
for a removal; from there it goes back, over nothing; and from a claim, if it is what
the person asked for, it is destroyed, and stays so. `Fates == INSTANCE FileFate WITH
fate <- Fate` reads each generation's fate off `media`, the claims, the trash and
`gone` (`FateOf`), and `FilesMeetTheirFate` is its specification.

### StateFile, SharedList

`StateFile.tla` is one state file of the library and the `Store` objects that
processes and lanes have of it: `favourites.py` over `state_file.py`, line by line.
A change takes `mutation_lock`, reads again, applies itself, and renames a temporary
into place; then the Store adopts it. Of documents the build cannot read, a newer one
refuses the change and a damaged one is set aside first. The editor of the person
takes no lock and writes at any step. The window's Store is also told of what a worker's
has removed (`AdoptDiscard`, `adopt_worker_discard`): late, without lock or read, and beside
whatever its own lane is doing. A worker's report is one removal; a lane that
makes several reports is several Stores here.

`MemoryWasOnDisk` therefore says that a Store's value is one the file has had, less the
removals it was told of since it last read the file (`told`, a history variable). With a
plain `mem[s] \in shown` it is violated: somebody else
puts one entry in another's place after the window last read the file, a worker removes the
old one, and the window, told of it, then holds neither.

`SharedList.tla` is what that promises: one list, changed one entry at a time, with
unreadable documents kept. `List == INSTANCE SharedList WITH doc <- TheList,
kept <- TheKept`, and `OneList` is its specification. The mapping: the list stays
the document it was while a damaged one is between its rename aside and the write of
the new one. One assumption is built in: nobody saves from an editor between a sound
locked read and its rename, which no program can exclude and this one does not
claim to.

### UpgradeTransaction

`UpgradeTransaction.tla` is `deployed_upgrade_transaction.py`: the journal, the two
exact replacements (settings, then runtime document) with their bounded claim slots,
the manifest, the stage, the completion marker, and the clean-up. There is one run
at a time, because it holds the profile lock and the locks of this version's
writers; programs of the earlier version and editors hold none and may write at any
step, at the name or through a descriptor opened before.

| TLA+ | Code |
|---|---|
| `name`, `slots` | the two public files; the claim slots `MAX_CLAIM_TOKEN_ATTEMPTS` bounds, a made and unfilled one being `Used` |
| `journal`, `made`, `complete` | `_Journal`, what else was published, the completion marker |
| `Start`, `WriteJournal`, `Prepare`, `Install`, `Check`, `Rename`, `Verify`, `Write`, `Reread` | `_begin_locked`, `_prepare_locked`, `_install_exact_replacement`, `_cutover_locked` |
| `Prove`, `Commit`, `Confirm` | the evidence, the marker and its validation |
| `Retire`, `Empty`, `Unstage`, `Drop` | `_retire_translated_claims`, `_cleanup_completed_recovery` |
| `Stop` | the process ends or a call fails, at any step |
| `Replaces`, `Writes`, `WritesLate`, `Authors` | the others |

Texts are written once: 1 is the earlier version's, 2 its translation, the rest are
somebody's edits. `owed` (texts nobody else has taken away) and `touched` are
history. Assumed: no write of the same modification time falls between the hash of a
claim and its truncation, as `ClaimedPath.read_bytes` says itself. Left out: what
`build_plan` translates, `cutover=False`, tombstones, evidence other than the
authoring stores, refusals while an earlier version runs (a `Stop` covers them),
tampering with the manifest, the older `legacy_migration.py`.

### HealthSync

`HealthSync.tla` is how an entry the service could not play becomes a mark among
the pairings, and how the person takes it back.

| TLA+ | Code |
|---|---|
| `files`, `marks`, `installed` | the wallpapers, the pairings' health, the published document; `Authored` is what the stores would compile to |
| `svc` | the document the service holds, and its taboo records: `session` (it found them itself) or `durable` (its document said so) |
| `Fail`, `Reload`, `Reconciled`, `Poll`, `Restart` | `mark_taboo`, `reload`, `reconcile_configured_taboo`, the poll, `configured_taboo` |
| `TimerAsks`, `TimerTakes`, `TimerPublishes`, `TimerReloads` | `cli._sync_runtime_health`, which holds the locks from its question on |
| `WindowAsks`, `WindowAdopts`, `Queue` | `_request_runtime_status` on a pool thread; `_adopt_runtime_status` on GTK, later, which stamps the request with the generation and the Library of that moment |
| `Prepared`, `WindowTakes`, `WindowPublishes`, `WindowReloads`, `WindowEnds` | `_queue_runtime_health`, `_ingest_runtime_health`, `_complete_runtime_health` |
| `library`, `valid`, `AdoptRemoval`, `Rescan` | `_session.library` and `_inventory_valid`: replaced after a removal by the scan the removal made, or stale and invalid until a scan lands |
| `TryAgain`, `Remove`, `Install`, `Bump` | the person's edits, which run alone in the authoring lane and move its generation on |
| `Compile`, `LaneReloads` | the window's compile lane |
| `lock` | the profile lock |

A generation is the hash of a document, so two documents that say the same are one
generation, whatever happened in between: that is why the window has a generation
of its own beside it, and why the timer asks under the lock. `current` of a request
stands for both comparisons of `prepare`: an edit moves the generation on, and an
accepted scan replaces the Library object. `retracted` is history: the wallpapers
whose mark was taken back for good and which did not fail since. Left out: the
bound of 64 listed findings, the baseline of `mark_borked_many_if_unchanged` (the lock
already excludes other writers), removals that do not go through (they only move the
generation on), the time a scan takes, and what a refused reload does to web
wallpapers.

## Runs

| Run | Instance | Properties |
|---|---|---|
| `publication` | 2 publishers, 2 overrides (one of them: no file), 2 attempts, 3 saves, 2 failures, 1 crash; 1.4 million states | `TypeOK` (bounded attempts), `PairKept`, `PairIsAtomic` (the refinement), `WebOffKept` |
| `service_watch` | 1 publisher with 1 attempt, overrides that come and go, 2 saves, 1 failed step, 1 restart, reloads with and without an argument; 2.3 million states | `NothingMissed`, `SavesReachTheService` |
| `playlist_cursor` | playlists of 0 to 3 entries, history limit 2 | `OrderWhole`, `CursorPlaced`, `HistoryBounded`, `RotatesAsPromised` (the refinement), `RoundsAreFair` |
| `playback` | a video, a scene and a still in two playlists that share the scene; two documents, one with the battery policy, either of which is reloaded at any time; the code's 3 attempts; 580 thousand states | `TypeOK`, `BaselineKept`, `MotionIsSelected`, `ManualWins`, `PauseHolds`, `TabooNeverStarted` |
| `playback_ends` | a video and a scene, the battery policy on and the supply changing at any time, no reload, the code's 3 attempts, a fair loop | `TransportHonoured`, `PlayingMoves`, `BatteryKept`, `HandoverEnds` |
| `wallpaper_life` | 2 actors that remove or replay, 1 download, 1 store, 3 generations, 1 removal token, 3 faults; symmetry of the actors | `InnocentKept`, `ClaimsAreOwned`, `AuthorityLeavesFirst`, `CleanedOnlyAfterItLeft`, `StillsOfTheLiving`, `AuthorityIsEarned` |
| `removal_settles` | 2 actors, 2 stores, 2 generations, 2 tokens, 1 fault, scans that go on; 500 thousand states | `NothingDangles`, `RemovalSettles`, `FilesMeetTheirFate` (the refinement) |
| `favourites_store` | the Stores of a window and of a worker, 2 paths, 2 edits by others; 1.9 million states | `NothingUnreadLost`, `MemoryWasOnDisk`, `OneList` (the refinement) |
| `upgrade` | 3 slots, 2 edits, 2 stops; 250 thousand states | `NothingUntranslatedLost`, `ResumeIsPossible`, `JournalOutlivesClaims`, `UpgradeSettles` |
| `health_sync` | 2 wallpapers, 1 failure, 2 edits or faults; 320 thousand states | `RetractionStands`, `MarksOfTheLiving`, `FindingsSettle` |
| `next_gives_up`, `reload_on_battery` | as above | one each, violated: see below |

What the properties say is stated above each of them in its module. What they
show together: a publication is all or nothing to whoever looks once it ended;
locks and the attempts' loop keep old snapshots and a withdrawn permission from
landing; the service's order of stat and read is the right one, and the poll
suffices without any request; in the cursor no sequence of deals, histories and
failures repeats, loses or strands an entry; in playback the three things that
move the selection without being asked (retry, schedule, cycle) never overrule
the ones that were. A removal, however it dies and whoever replays it, destroys
only what was asked for and ends; a download never earns authority over somebody
else's file; the Stores of a file are one list; an upgrade loses nothing that was not
translated and can be carried on while slots last; a health status that waits
in the window's lane changes nothing the person has decided since. (What the three
runs with exceptions leave open is under "Disagreements".)

**Bounds, and why they are enough.** Two publishers, because publishers meet only at
the lock, and every hazard is between one that holds it and one that does not;
three saves, so that one can fall before, during and after a compile; two
failures, so that a restore can fail after the write that needed it; one crash.
`service_watch` has one publisher, since the service meets only renames, and one
attempt. Two attempts are the least with a retry and a refusal; the code's
`WEB_SETTING_ATTEMPTS` is a constant the proofs leave open. Three entries are the
least with a current, a next and another entry; a history of two overflows
within three moves. Two playlists are needed for a schedule, and one medium of
each kind for the three ways motion is treated. At one path two actors are a removal
and a replay, two removals or two replays; three generations are the file, its
successor and a stranger's; three faults let a removal, its undoing and a replay
fail in turn. `removal_settles` trades faults for a second removal and a second
store, so that one store can be clean while the other is not. Two Stores and two
edits: one edit before a damaged file is set aside and one while it is. Three slots
are more than the two stops can use up, which is what `ResumeIsPossible` is about;
`ResumeWorks` proves it for every number. Two wallpapers are needed for documents
that are equal in one mark and differ in another; two faults or edits, for a
mark taken back after a publication was lost, or a wallpaper removed and
downloaded again; one failure, since a second one only starts the first's story
anew, and the proofs leave the number open.

**Fairness.** `WatchFairSpec`: a publication runs to its end (weak fairness of its
steps); a publisher with something to publish gets the lock it polls for, since
others hold it for a bounded time (strong fairness, `SF`, because the lock goes
back and forth); systemd restarts the service (weak fairness of `Start`); a load
runs to its end; and the loop comes back to its poll, because
`accept_ready_batch` takes at most four clients in between (strong fairness of
`Poll`). A save whose publication failed is not published again until the person or the
window asks, so what arrives then is what is on disk. `FairSpec` of `Playback`: the loop goes on (weak fairness of its turns); a retry that keeps
coming due is made (strong fairness of `TickRetry`), since it comes due by the
clock and requests only ever cancel it. `FairSpec` of
`WallpaperLife`: work in hand goes on (weak), and the library is scanned again
however often removals are started, each scan replaying the journal (strong,
`SF` of `Replay`). `FairSpec` of `UpgradeTransaction`: the application is started
again and a run goes on (weak). `Fairness` of `HealthSync`: the timer fires thirty
seconds after its last run and waits for the lock the others let go (strong), what
has begun goes on and the service polls once a second (weak); the window is owed
nothing but the end of what it began, because it may be closed.

**Deadlock.** Checked in `publication`, `service_watch`, and the cursor's, the
playback's and the store's runs. In the life of a wallpaper, in the upgrade and in
the health write-back the system may come to rest, once nobody does anything more or
the bounds are used up, and deadlock is not checked.

**Mutants.** Beside the definitions stand mutated forms, marked as such: the bug a
property is for. Each property of a passing run is violated when the definition it
watches is replaced by one of them (`PROJECT.json`, `mutants`).

## Proofs

Eight modules prove what the runs show, for every value of the constants. Each
rests on its module's named assumption about the constants and nothing else,
except three theorems of `PlaybackProofs`, as said below. A property is seldom inductive, and what
was added to make it so is each module's argument.

| Module | Theorem | Statement |
|---|---|---|
| `PublicationProofs` | `TypeCorrect` | `Spec => []TypeOK` |
| | `PairAlwaysKept` | `Spec => []PairKept` |
| | `NoRollback` | `Spec => NeverRolledBack` |
| | `WebOffAlwaysKept` | `Spec => WebOffKept` |
| | `PublishersAreAtomic` | `Spec => PairIsAtomic`: the refinement |
| `ServiceWatchProofs` | `WatchTypes` | the service's variables keep their types |
| | `NothingEverMissed` | `WatchSpec => []NothingMissed` |
| `PlaylistProofs` | `CursorTypes` | `Spec => []TypeOK` |
| | `OrderIsWhole` | `Spec => []OrderWhole` |
| | `CursorIsPlaced` | `Spec => []CursorPlaced` |
| | `HistoryIsBounded` | `Spec => []HistoryBounded` |
| | `CursorRotates` | `Spec => RotatesAsPromised`: the refinement |
| | `RoundIsFair` | `Spec => RoundsAreFair` |
| `PlaybackProofs` | `RuntimeTypesKept` | `Spec => []TypeOK` |
| | `BaselineIsKept` | `Spec => []BaselineKept` |
| | `MotionIsTheSelected` | `Spec => []MotionIsSelected` |
| | `ManualAlwaysWins` | `Spec => []ManualWins` |
| | `PauseAlwaysHolds` | `Spec => []PauseHolds` |
| | `TabooStaysUnstarted` | `Spec => TabooNeverStarted` |
| | `TransportIsHonoured` | `[]TransportHonoured`, without a reload |
| | `PlayingAlwaysMoves` | `[]PlayingMoves`, without a reload |
| | `BatteryIsKept` | `[]BatteryKept`, without a reload |
| `WallpaperLifeProofs` | `LifeTypes` | `Spec => []TypeOK` |
| | `OnlyTheAskedIsDestroyed` | `Spec => []InnocentKept` |
| | `NoClaimIsOrphaned` | `Spec => []ClaimsAreOwned` |
| | `RecordsLeaveFirst` | `Spec => []AuthorityLeavesFirst` |
| | `NothingCleanedEarly` | `Spec => []CleanedOnlyAfterItLeft` |
| | `StillsStay` | `Spec => []StillsOfTheLiving` |
| | `RecordsAreEarned` | `Spec => []AuthorityIsEarned` |
| | `NoReferenceDangles` | `Spec => NothingDangles` |
| | `FilesAreFated` | `Spec => FilesMeetTheirFate`: the refinement |
| `StateFileProofs` | `StoreTypes` | `Spec => []TypeOK` |
| | `UnreadIsKept` | `Spec => []NothingUnreadLost` |
| | `MemoryIsHonest` | `Spec => []MemoryWasOnDisk` |
| | `StoresAreOneList` | `Spec => OneList`: the refinement |
| `UpgradeProofs` | `UpgradeTypes` | `Spec => []TypeOK` |
| | `NothingIsLost` | `Spec => []NothingUntranslatedLost` |
| | `ResumeWorks` | `Spec => []ResumeIsPossible` |
| | `JournalGoesLast` | `Spec => []JournalOutlivesClaims` |
| `HealthProofs` | `HealthTypes` | `Spec => []TypeOK` |
| | `TakenBackForGood` | `Spec => []RetractionStands` |
| | `NoMarkOfTheGone` | `Spec => []MarksOfTheLiving` |

**Publication.** `PairKept` says nothing while the lock is held, and then the files
are changing; `NeverRolledBack` is about a step whose guard does not mention the
document. The inductive invariant `IInv` adds `Exclusive` (a publisher at work is
the lock's holder), `Newer` (what it compiled is no older than the document and no
newer than the stores, because these are read under the lock), `SettingKept`
(while the setting is held it says what was compiled for) and `Framed` (the files
are the last whole pair, or the overrides are one rename ahead of it and `prior`
is what they were; so the restore restores, and a crash tears exactly when
`OverridesAhead`). `DocumentMoves` says that only `InstallDocument` changes the
document, which gives the two action properties. The same invariant gives the refinement:
what is seen is the last whole pair in every state (`Seen`), at most one publication has
read the stores (`OneReads`), and whoever ends one has committed or changed
nothing. `NeverRolledBack` is part of it and has a theorem, but no run, of its own.

**ServiceWatch.** `ReadSinceSeen`: a file that still is the one stat'ed before a load is
the one that load read, because a rename installs an inode that is in no fingerprint
(`Numbered`, `FilesMoved`). For the overrides this says nothing while they are absent.

**PlaylistCursor.** The invariants of the run are inductive together, with one
addition. `OrderWhole` makes the branch of `move_cursor_backward` that appends an
entry to the order unreachable, and makes a permutation of what the pigeonhole
principle says of the new orders (`DealtAreAll`). `CursorPlaced` makes a step along
`forward` land. `RoundInv` says what a round is: while it is unbroken there is nothing
to go forward to, and what was played is what the order holds up to the cursor, less
what failed; so the next entry ahead is new, and with none ahead all were played. The
refinement needs one more, `Straight`: an order that is not shuffled is the document's,
so that a restart begins at the first entry; the appended entry would break it.

**Playback.** An apply may fail half way anywhere, so the invariant says what holds
whatever the outcomes were. `Waits`: what waits to be tried goes back to what is
selected now, keeps a chosen playlist, is not the cycle's while paused, and is a start's
only while playing. The last part is what `MotionIsSelected` rests on, since a start that gives up moves
the selection without an apply: while playing, a failed apply leaves no motion behind
(`FailureHalts`); a paused one may leave motion it could not pause. `PlaybackAssumption`
asks for two attempts at least, because a start's first apply counts as one (the code has
three). `Begun` is `TabooNeverStarted` of two runtimes rather than of a step: an
apply asks about taboo entries itself, and what a tick finds out first only adds to them.
Without a reload (`Reloads = {}`) the runtime is `Steady`: what was last done about the
battery is what is known of it (`Level`), and any apply of a level runtime, whatever its
end, leaves the motion the transport and the battery allow, or a report that it failed. A
reload breaks `Level`, which is the second disagreement below, and the invariants of
`playback_ends` with it.

**WallpaperLife.** Nothing is destroyed that was not asked for, because what is
destroyed is a claim, a live removal's claim is its own (`LeaseHeld`, `Alone`:
beside it there are only replays that have yet to look at the lease), and what is in it was verified against
the generation the person asked about (`ClaimKnown`). `Earned` says the same of
records: what a download is about to bind is what its own rename put there.

The other properties need to know what every step of a removal may rely on, and
no lock says it of a replay. Each got an invariant of its own, checked by TLC on
both instances before it was proved, and each rests on the ones before it:

- `Typed`: tokens are given out once, a file anywhere was once at the path (so a
  generation yet to come is nobody's), an idle actor holds on to nothing.
- `PathInv`: the path's locks are held by who believes so, which keeps a download out
  from under a removal's moves and its companions.
- `ClaimInv`: the journal and a removal that have one token have one file, and what is in
  a claim is `Traced`, which is stronger than `ClaimsAreOwned`: the journal itself names the
  claim, whether or not anybody is at work. It is inductive only with what each step knows of
  the claims behind it (`NoClaim`, `ClaimSpent`, `RecordSpent`, `CommitSpent`): whoever
  drops an intent, however old the journal it read, has found both claims empty, and
  nobody fills a claim but its owner, who holds the lease.
- `LeftInv`: after a certain step of a removal or a replay, and after the commit of an
  intent, the file is neither at the path nor in the hands of a removal that could move it
  back. A replay at `mark` knows that only while the journal is still its own
  (`HasLeft`), which is why `mark_committed` looks again.
- `GoneInv`: a file destroyed, or about to be, is bound by no record that can return: not
  by the one at its name, nor by one in a claim that its removal would put back
  (`Withdrawn`, `Reviving`).
- `Strangers`: what a removal has at the path after its rename is no download's, since
  downloads take the lock it holds.
- `Forgetting`: a store that still refers to the removed file is among those left to clean,
  unless one has failed, and then the intent stays.
- `Aside`: a file in the trash is nowhere else, and there once. With the invariants above
  it makes `FateOf` tell where a file is, and every step of
  every actor a step of `FileFate` or a stutter.

**StateFile.** `LockInv` (whoever is past the lock is alone there) and `Seen` (what
each step knows of the document it read and of the one it moved) make every step of
the detailed specification a step of `SharedList` or a stutter.

**Upgrade.** Texts are written once, so they tell files apart: `FilesInv`,
`ApartInv` and `PlanInv` say that no text is in two places and that a text of
the plan is the planned file; `RunInv` what the run relies on between its steps.
`NothingIsLost` is one of its conjuncts. `ResumeWorks` counts: each stop uses up
at most one slot of each file. `JournalGoesLast` adds that every claim the run has
passed was judged.

**HealthSync.** What a status reports as durable was marked in its document
(`Honest`), so when that is the document of the stores the mark is there already.
What it reports as the session's own was not taken back since, as long as the status
may be used at all (`Untouched`): taking back needs the lock, which the timer holds
from its question to its end, makes every request of the window an old one, and is not
for good (`TakenBack`) while a status on its way to the window tells of the finding.
A request that may be used is of the window's Library (`Waiting`), and a Library with a
valid inventory names nothing that is gone (`InventoryInv`), so that only a window
without one marks a wallpaper that is gone.

Every invariant and action property of the passing runs is proved; `PlayingMoves`,
`TransportHonoured` and `BatteryKept` under the assumptions their
runs make. Only model-checked, because it needs fairness and `ENABLED`, which are out
of the prover's reach: liveness (`SavesReachTheService`, `HandoverEnds`,
`RemovalSettles`, `UpgradeSettles`, `FindingsSettle`).

## Disagreements found while modelling

Each has a run that TLC ends with a counterexample.

1. `next_gives_up`: `move_cursor_forward` returns at the first usable entry of
   `forward`, also when it is the one in force, and then answers "active display
   playlists are empty or taboo" while another entry can play.
2. `reload_on_battery`: `reload` changes the policy and the observation, but not
   `applied_power_inhibition`. After the policy is turned off by a reload that
   applies, and on again by one that does not, both before the loop looks at the
   battery, `observe_power` sees no change and leaves the renderers running.

Met on the way, with no run of their own:

- `serve` (`service/src/main.rs`) sets `was_reload` from the verb alone. A `reload` with
  an argument is refused without reading anything, but the fingerprint captured
  before it becomes `known`: a pair published since the last load counts as loaded
  until the next publication. The run `service_watch` sends such requests;
  `NothingMissed` without its `~refused` is violated.
- A first apply that had to wait for the desktop and then fails otherwise is given
  up at once, not retried three times as `docs/runtime-config.md` says of a start.
- `Try again` does not always last. When the service never loaded the document with
  the mark (the publication failed, or its reload was lost or refused), taking the
  mark back makes the document again what the service holds; its finding is still
  its own (`session`), survives every reload, and the next sync marks the wallpaper
  again although nothing was tried. And a status the window's pool thread fetched before
  the edit can be adopted after it: its request is stamped with the generation and
  the Library of its adoption, and where the documents are equal again the mark is
  saved. `RetractionStands` is stated without these two cases (`TakenBack`), and is
  violated without the second one. `docs/runtime-config.md` says that only a durable
  record is cleared by a reload; `retry_wallpaper` promises that "the republished
  configuration drops the taboo", and `cli.py` avoids an old observation because "it
  may be precisely what Clear+retry was intended to retract".
- A wallpaper that is gone can be marked. After a removal whose own scan failed, or
  read folders the settings no longer name, `session.library` names it until a scan
  lands; a status adopted meanwhile is of the current generation and Library, and
  `_ingest_runtime_health` saves its marks before `_inventory_installable` stops the
  publication. Nothing removes the mark when the scan lands, and the same path
  downloaded again starts with it; `docs/runtime-config.md` says of the marker that
  "reinstalling the media starts clean". `MarksOfTheLiving` is stated with this
  exception (`~valid`), and is violated without it.
- With more than 64 findings the oldest are in no status, and
  nothing lists them again before the service restarts: they do not reach the
  document.
- `removals.discard` drops the intent whether or not it was committed meanwhile. A
  replay that saw the wallpaper in place and cancels can drop what another replay has
  found gone and committed since; that one cleans from its own copy, and references
  dangle only if it fails or dies as well.
- An absent overrides file has the same fingerprint whenever it is absent. Two
  ordinary saves are enough: the service stats while there are no overrides, the first
  save publishes some, its load reads them, and the second save removes them again. What is on disk then has the fingerprint `known`, and the
  service plays overrides that are on no disk until the document changes, the next
  `reload` or a restart. The
  comment on `fingerprint` (`service/src/main.rs`) says that "Either changing, appearing
  or disappearing is a new generation to load", and `docs/runtime-config.md` calls the
  one-second watcher the fallback for an app that could not reach the socket.
  `NothingMissed` with `tried = Pair` for `InForce(tried)` is violated in the run's own
  instance, also without a failed step. An app whose `reload` follows each save repairs it.
- The converse of 2: on battery, a reload that samples the mains as returned updates the
  observation without applying; `observe_power` then finds nothing changed and
  released motion does not come back by itself. And `pause` leaves motion to the battery
  policy while the observation inhibits it: when a reload made that observation and the
  mains are back before `observe_power`, which then sees no change, status says
  paused and the renderer runs. For this reason `PlayingMoves` and `TransportHonoured`
  are checked without reloads.
- `attempt_automatic` sets `renderer_failed` from its own rollback only. When the
  baseline was a taboo entry's still with the failure reported, the report is withdrawn.
- When motion resumes after a failed apply that left the previous entry's still up
  (`observe_power` starts motion only), `failed` is cleared and the still below
  is not the selected entry's; a `stop` then shows it.

## What is not modelled

In the modelled components: overrides declared by a newer build, a service that
cannot read a schema, and the not-durable report (`Publication`); the legacy
`--service` lane, whose settings are an earlier snapshot; decoding of the document
(`ServiceWatch`); refused scenes and the playlists that stand in for refused or
empty ones, missing programs, palette failures, a change of display mode,
`dynamics_enabled` off, audio settings, requests refused before they are accepted
(they change the last error only), more than one mirrored output with
assignments (`Playback`). A failed `set_paused` is taken to leave motion as it was.
The size of a batch is unbounded in `Playback`, which allows more.

At a wallpaper's path: the window's own lanes replay only, and refreshes of the
command line never do; Workshop records, roots no longer configured, adopted captures,
tombstones, hard links, `.trashinfo` files, and the order of `fsync`s at a power cut
(`Removal`); the transfer and its staging folders (`Download`). In the stores: the
richer mutations of playlists and pairings and the deltas they adopt from a worker, unknown
fields, size caps, power loss (`StateFile`). What the upgrade and the health
write-back leave out is said in their sections.

Components not modelled are in `PROJECT.json` with the reason; the ones worth
modelling are in the plan.

## Plan

Next, in this order:

1. `SocketClaim`: two services, the lock's and the socket's inodes, replacement of either,
   stale sockets, crashes; one owner, nobody's socket removed by another. Provable.
2. `PowerObserver`: mailbox, generations, debounce, and its refinement of the
   environment variable `battery` of `Playback`.
3. `Routes`: the independent displays, with hot-plug; `Playback`'s operators per
   display.
4. `Schedule`: rule resolution against a reference definition, as a pure module.
5. `Lanes`: superseded scans, the authoring lane, cancellation racing spawn.

Abstract specification worth stating: `AtomicPair` read by a service, which
`ServiceWatch` implements up to the tears and the two exceptions named above. Its refinement
is the next proof.
