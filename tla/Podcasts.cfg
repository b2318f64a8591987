SPECIFICATION Spec
CONSTANTS
  Episode = {e1, e2}
  MaxChapters = 1
  Years = 2
  MaxFaults = 1
SYMMETRY Scans
INVARIANTS
  PublishedHasAudio
  NoAudioLeaks
PROPERTIES
  NumbersOnlyGrow
  KeepsCatalogue
CHECK_DEADLOCK FALSE
