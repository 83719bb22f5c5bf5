SPECIFICATION Spec
CONSTANTS
  Events = {e1}
  S0 = 6
  S1 = 3
  S2 = 2
  MaxTimeout = 36
  SessionTimeouts = {3, 9, 40}
  RefreshTimeouts = {4, 9}
PROPERTY SupportsAllTimeouts
