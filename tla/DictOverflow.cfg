\* More keys of one bucket than it has room for.
CONSTANTS
  Programs <- BeyondCapacity
  PageWords = 61
SPECIFICATION Spec
PROPERTY DictsRemember
CHECK_DEADLOCK FALSE
