SPECIFICATION Spec
CONSTANTS
  Direct = {}
  Relay = {y1}
  Bots = {b1}
  Replicas = {r1}
  Telegram = {t1}
  Uploads = {u1, u2}
  Calls = {c1}
  MaxPerSender = 1
  MaxRetries = 1
  Budget = 1
  MaxFaults = 2
  None = None
CHECK_DEADLOCK FALSE
INVARIANTS SendersAccounted TelegramSerial
PROPERTY UploadsEnd
