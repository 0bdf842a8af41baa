SPECIFICATION MCSpec
CONSTANTS
  Widths = {2, 4}
  Heights = {2, 4, 6}
  Align = 4
  CamModes = {"auto", "hardware", "software"}
  CaptureBuf = {"k1", "k2"}
  SessionCap = 2
  InnerCap = 1
  EventCap = 2
  TapCap = 1
  IPeriod = 4
  FpsDiv = 2
  MaxIdr = 1
  MaxCamFailures = 1
  OutBuf = {"o1", "o2"}
  CapBuf = {"c1", "c2"}
  MaxEncodes = 4
  IoctlsFail = TRUE
  Units <- MCNals
  MaxNals = 3
  Kinds = {"I", "k", "P"}
  MaxAus = 4
  Conn = {c1, c2, c3}
  Elapsed = {0, 3000, 30000}
  MaxFrames = 2
  RecCap = 1
  AsyncCap = 1
  RecMaxAus = 5
  MaxToggles = 2
  CanStop = TRUE
  Sizes = {1, 3}
  MaxTotal = 2
  MaxSegments = 3
  MaxCrashes = 1
  MaxFaults = 2
INVARIANTS MCTypeOK UprightFrames FramesPaired UnitsArriveWhole
  HoleOnlyBehindOvertakenKey Handoff RecordingsWhole DirectorySound
PROPERTY FairMedia
CHECK_DEADLOCK FALSE
