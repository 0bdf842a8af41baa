SPECIFICATION MCSpec
CONSTANTS
  WebReq = {"r1", "r2"}
  Passwords = {"p1", "p2"}
  EnvSet <- MiscSet
  MaxWebOps = 3
  MaxWebRestarts = 1
  WritesFail = TRUE
  LoginReq = {"l1", "l2"}
  MaxTokens = 2
  Ttl = 5
  Sec = 2
  MaxFailures = 1
  LockTicks = 1
  MaxAttempts = 2
  MaxSessTicks = 5
  MaxSaveFaults = 1
  SessRestarts = 1
  Builtin = {"b"}
  Uploadable = {"u"}
  AiReq = {r1, r2}
  Interval = 2
  MaxAiOps = 3
  MaxRestarts = 1
  DiskFails = TRUE
  SseClient = {c1, c2}
  BusCap = 2
  MaxAiEvents = 4
  MaxHandlerEvents = 1
  Cooldown = 3
  TempCooldown = 3
  Sustain = 2
  MaxBack = 1
  MaxSteps = 1
  main = main
  thermal = thermal
  Sups <- BothSups
  Enabled = {main, thermal}
  Task = {sig, rst}
  SignalTask = sig
  Addr = {1, 2}
  Buses = {"twi", "gpio", "auto"}
  PutReq = {"p1"}
  Remount = FALSE
  MaxMoves = 3
  MaxScans = 1
  MaxBoots = 1
  Bits = 3
  Sensor = 2
  Clocks = 10
  Count = 2
  MaxDeaths = 2
PROPERTIES StaysDeregistered
CHECK_DEADLOCK FALSE
