SPECIFICATION Spec
CONSTANTS
  a = a
  b = b
  h1 = h1
  h2 = h2
  e1 = e1
  Absent = Absent
  Broken = Broken
  Torn = Torn
  Keys <- MCKeys
  Founder = a
  Handlers <- MCHandlers
  Events <- MCEvents
  FirstFiles <- MCFirstFiles
  MaxRequests = 3
  MaxCrashes = 1
INVARIANT SavedSettingsLoad
INVARIANT ClaimedStaysClaimed
INVARIANT AdminsOnDisk
INVARIANT CompactionSafe
SYMMETRY MCSymmetry
CHECK_DEADLOCK FALSE
