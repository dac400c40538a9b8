----------------------------- MODULE MCPlayback -----------------------------
(* Two playlists that share an entry, and two documents of them. *)
EXTENDS Playback, TLC

CONSTANTS video, scene, still, home, work

Shelf(onBattery) ==
  [holds |-> (home :> {video, scene} @@ work :> {scene, still}),
   policy |-> onBattery, borked |-> {}]
Shorter(found) ==
  [holds |-> (home :> {video} @@ work :> {still}), policy |-> FALSE, borked |-> found]

SmallDocuments   == {[holds |-> (home :> {video, scene} @@ work :> {scene}),
                       policy |-> TRUE, borked |-> {}]}
HealthDocuments  == {Shelf(TRUE), Shorter({video})}
PolicyDocuments  == {Shelf(TRUE), Shelf(FALSE)}
=============================================================================
