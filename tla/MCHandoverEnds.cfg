CONSTANTS
  video = video
  scene = scene
  still = still
  home = home
  work = work
  Media = {video, scene}
  Stills = {}
  Scenes = {scene}
  Playlists = {home, work}
  None = none
  MaxAttempts = 3
  Documents <- SmallDocuments
  Reloads = {}
SPECIFICATION FairSpec
INVARIANTS TransportHonoured PlayingMoves BatteryKept
PROPERTY HandoverEnds
