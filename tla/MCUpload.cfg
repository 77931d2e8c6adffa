SPECIFICATION LiveSpec
CONSTANTS
  Events = {1,2}
  Data = {3}
  MAX_PEEKS = 2
  UploadLen = 1
  MaxFaults = 1
  MaxRequests = 1
  FileLen = 0
  Bad = {}
  Messages = {"CommandReceived"}
  MIN_RETRY_DELAY_SEC = 1
  RETRY_TIMEOUT_SEC = 1
  NETWORK_CONNECTING_TIMEOUT_SEC = 0
  ConnectSecs = {0}
  MaxBreaks = 1
INVARIANTS NothingLost OneHolder
PROPERTIES EventuallySent BarrierCovers
