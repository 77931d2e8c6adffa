CONSTANTS
  Threads = {t1, t2}
  Fields = {a, b}
  VersionMod = 3
  MaxWrites = 2
  NoValue = NoValue
  Capacity = 2
  Users = {u1, u2, u3}
  Configs = {c1, c2}
  Bindings = {b1, b2}
  NoConfig = NoConfig
  Cap = 2
  MaxSessions = 3
  MaxSend = 2
  FileLen = 2
  Bad = {"bad"}
  Items = {"good", "bad"}
  Requests = {"Disconnect", "SendStatus", "SetTimeout", "DownloadUpdate"}
  Messages = {"CommandReceived", "FirmwareUpdateAnnounced", "FWChunkReceived", "FWDownloadFailed", "FWDownloadComplete"}
  MIN_RETRY_DELAY_SEC = 1
  RETRY_TIMEOUT_SEC = 3
  NETWORK_CONNECTING_TIMEOUT_SEC = 2
  ConnectSecs = {0, 1}
  MaxBreaks = 3
  Slots = {0, 1}
  QueueCap = 2
  MaxMsgId = 2
  MaxPublishes = 3
  MaxMessages = 3
  MaxUrcFaults = 1
  LoopLimit <- LoopLimits
  INTERVAL = 1
  COUNT_MASK = 5
  MaxBoots = 3
  MaxLosses = 1
  MaxEvents = 1
  MaxBusFaults = 1
  MaxOps = 2
  Sensors = {"PT100", "PT1000"}
  MaxReads = 3
  MaxSyncs = 4
  MaxSpiFaults = 1
  BucketWidths <- Widths
  MAX_NUM_SAMPLES = 3
  Series <- AllSeries
  MaxPointsSet = {1, 2, 3, 5}
  WidthSet = {2, 3, 5}
  Firmwares = {"f", "g", "h"}
  MaxRecommends = 3
  MaxRecFaults = 1
  RingLen = 2
  DstLen = 2
  ConsumerLooks = TRUE
  MaxBytes = 5
  MaxStops = 2
  MaxFaults = 1
  page_size = 2
  erase_size = 4
  total_size = 8
  Large = TRUE
  Bytes = {"x"}
  Erased = "ff"
  Mixed = "mix"
  FlashRequests <- FlashOps
  WakeAttempts = 2
  ReadyPolls = 2
  MaxFlashOps = 3
  MaxFlashFaults = 2
  MaxResets = 1
  Free = Free
  FF = FF
  Junk = Junk
SPECIFICATION SafetySpec
INVARIANTS  UrcsAreHandled BootsAreCounted ConfigIsCurrent SharingIsSafe SessionsAreApart
  SamplesSurvive
  MeasurementsAreTrue SeriesAreWhole
PROPERTIES BufferIsConsistent  ClocksAreSound 
CHECK_DEADLOCK FALSE
