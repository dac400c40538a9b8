CONSTANTS
  video = video
  scene = scene
  still = still
  home = home
  work = work
  Media = {video, scene, still}
  Stills = {still}
  Scenes = {scene}
  Playlists = {home, work}
  None = none
  MaxAttempts = 3
  Documents <- HealthDocuments
  Reloads <- HealthDocuments
SPECIFICATION Spec
INVARIANTS TypeOK BaselineKept MotionIsSelected ManualWins PauseHolds
PROPERTY TabooNeverStarted
