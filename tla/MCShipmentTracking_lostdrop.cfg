\* The server is killed between the two commits, then polled for ever.
CONSTANTS
  Pollers = {p1}
  ScanStatus <- ShortLog
  Undated = {}
  MaxRows = 2
  MaxRestarts = 1
SPECIFICATION PolledSpec
PROPERTY DeliveredIsDropped
