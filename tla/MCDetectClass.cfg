SPECIFICATION MCSpec
CONSTANTS
  Builds = {{}, {"ai", "software-encoder"}, {"ai", "software-encoder", "gb35114"}}
  Serials = {"", "board"}
  Handlers = {1, 2}
  LogCap = 2
  RequestCap = 2
  Verbosity = "debug"
  MaxRequests = 3
  MaxOther = 2
  Work <- WorkSet
  Steps <- StepSet
  MaxPasses = 3
  Hosts <- HostSet
  MaxSoap = 2
  MaxStarts = 2
  AddressBits = 3
  Input = 32
  Fine = 2
  Frames <- FrameSet
  Outputs <- OutSet
  DetectWidth = 2
  DetectHeight = 2
  Pictures <- PictureSet
  MinArea = 2
  EventGap = 2
  MaxMotionTime = 4
  ParamDefs <- DefaultParamDefs
  Parts = 12
  MaxControlOps = 2
  GiveUpAfter = 1
  MaxEngines = 2
  MaxClosures = 2
  MaxRebuilds = 2
  MaxWaiting = 1
  MaxConns = 2
  MaxFaults = 1
  Font <- FontDef
  Margin = 2
  MarkTexts <- TextSet
  MarkFrames <- MarkFrameSet
  Clocks <- ClockSet
  ThermalSizes <- ThermalSizeSet
  Grids <- GridSet
  IPeriod = 3
INVARIANT BestClassWins
CHECK_DEADLOCK FALSE
