--------------------------- MODULE MCWallpaperLife ---------------------------
(* Two lanes and one download at one path. *)
EXTENDS WallpaperLife, TLC

TwoStores == <<"favourites", "playlists">>
OneStore  == <<"favourites">>
Twins     == Permutations(Actors)
=============================================================================
