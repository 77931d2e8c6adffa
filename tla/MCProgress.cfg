CONSTANTS
  BINARY_SIZE = 2
  CHUNK_SIZE = 2
  RegionSize = 5
  Builds <- SmallBuilds
  ThisDevice = "a"
  MaxFaults = 1
  MaxCrashes = 2
  Rates = {1, 2}
  MaxChunks = 2
  MaxControls = 4
  MaxWrites = 2
  MaxRxBytes = 1
  FileLens = {4, 5}
  DOWNLOAD_SLICE_LEN = 2
  ChunkSize = 3
  SLICE_ATTEMPTS = 3
  MaxDownloads = 3
  MaxDownFaults = 5
  Reference <- Certificates
  OldFiles <- OtherCertificates
  FileChunk = 2
  MaxStartFaults = 2
  MaxRestarts = 1
  MaxRuns = 2
  MqttTopics = {"f", "sms"}
  RequestCap = 3
  ConsumerCap = 1
  MaxMqttDrops = 2
  MaxMqttIn = 1
  MaxMqttOut = 1
  MaxPanics = 2
  Uids = {"u", "v"}
  MaxJobs = 3
  MaxStepFaults = 2
  LoggedBefore <- SeenBefore
  DataSets = {"a"}
  MaxPoint = 2
  seconds_per_sample <- Resolutions
  THRESHOLD_RECEIVE_IDLE = 1
  THRESHOLD_REPROCESS = 1
  THRESHOLD_STALE = 5
  max_parallel_tasks = 2
  JobCap = 1
  StartTime = 10
  InsertUntil = 12
  MaxNow = 24
  MaxInserts = 2
  MaxFailures = 1
  MaxClears = 1
  Channels = {1, 2}
  FirstChannel = 1
  Times = {0, 1, 2, 4}
  From = 0
  Until = 4
  EXPORT_CHUNK_DURATION = 4
  MIN_EXPORT_CHUNK_DURATION = 1
  LIMIT = 2
  MaxExports = 2
  MaxExportInserts = 1
  MaxExportFaults = 1
  EmailEvents = {"m"}
  SmsEvents = {"s"}
  SMS_RETRY_AFTER_SEC = 1
  SMS_RETRY_WINDOW_SEC = 2
  START_OFFSET_SEC = 2
  GATEWAY_LIMIT_SEC = 1
  Limit = 1
  ChannelCap = 1
  MaxAlarmNow = 4
  MaxAlarmFaults = 1
  MaxAlarmRestarts = 1
  MINUTE = 1
  HOUR = 2
  DAY = 4
  per_minute = 2
  per_hour = 2
  per_day = 3
  max_queued = 2
  RELEASE_STARVATION_LIMIT = 1
  SHUTDOWN_DRAIN_GRACE = 3
  Counts = {1, 3}
  MailCap = 1
  MaxSends = 3
SPECIFICATION ProgressSpec
INVARIANTS BootIsSafe ModemIsSafe UartIsSafe  
   ProvisioningIsTrue
PROPERTIES NotificationsAreTrue DeviceGetsOn  
CHECK_DEADLOCK FALSE
