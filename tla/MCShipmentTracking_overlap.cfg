\* Two polls that overlap anywhere and may be killed; a delivered parcel comes back.
CONSTANTS
  Pollers = {p1, p2}
  ScanStatus <- ReturnedLog
  Undated = {2}
  MaxRows = 2
  MaxRestarts = 1
SPECIFICATION Spec
INVARIANT TrackingTypeOK
INVARIANT DropIsDocumented
PROPERTY LonePollStoresOnce
PROPERTY LonePollStoresNewest
PROPERTY DropsUnlessKilled
