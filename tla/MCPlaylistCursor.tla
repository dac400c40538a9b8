-------------------------- MODULE MCPlaylistCursor --------------------------
EXTENDS PlaylistCursor
=============================================================================
