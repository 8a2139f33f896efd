\* A watch whose enumeration finds a host; nothing else happens.
SPECIFICATION MonSpec
CONSTANTS
  Passes = {1, 2}
  MaxNews = 1
  MaxMishaps = 0
  MaxRestarts = 0
PROPERTIES NewSubdomainsEscalate
CHECK_DEADLOCK FALSE
