SPECIFICATION Spec
CONSTANTS
  Events = {e1, e2}
  S0 = 4
  S1 = 2
  S2 = 2
  MaxTimeout = 16
  SessionTimeouts = {2, 5, 20}
  RefreshTimeouts = {3}
INVARIANTS TypeOK SlotInRange OnTime
PROPERTIES NeverEarly LostOnlyAcrossWrap
