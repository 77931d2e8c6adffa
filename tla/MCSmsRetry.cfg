SPECIFICATION AlarmSpec
CONSTANTS
  EmailEvents = {"m"}
  SmsEvents = {"s"}
  SMS_RETRY_AFTER_SEC = 1
  SMS_RETRY_WINDOW_SEC = 4
  START_OFFSET_SEC = 4
  GATEWAY_LIMIT_SEC = 1
  Limit = 1
  ChannelCap = 1
  MaxAlarmNow = 4
  MaxAlarmFaults = 0
  MaxAlarmRestarts = 0
PROPERTY TimedOutIsRetried
CHECK_DEADLOCK FALSE
