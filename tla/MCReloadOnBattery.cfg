CONSTANTS
  video = video
  scene = scene
  still = still
  home = home
  work = work
  Media = {video, scene, still}
  Stills = {still}
  Scenes = {scene}
  Playlists = {home, work}
  None = none
  MaxAttempts = 3
  Documents <- PolicyDocuments
  Reloads <- PolicyDocuments
SPECIFICATION Spec
INVARIANT BatteryKept
