\* Two requests of any kind at a time, failing writes, crashes.
CONSTANTS
  p1 = p1
  k1 = k1
  Plugins = {p1}
  Rules = {k1}
  NoProfile = NoProfile
  Profile = Profile
  NoSnapshot = NoSnapshot
  NoFile = NoFile
  BadFile = BadFile
  Requests = {r1, r2}
  Plans <- MCPlans
  Trials = {t1}
  NoTrial = NoTrial
SPECIFICATION Spec
SYMMETRY Symmetry
INVARIANTS
  SurvivesRestart
  RestartIsInvisible
  UndoIsExact
PROPERTY
  RolledBackStaysOff
