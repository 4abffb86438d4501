CONSTANTS
  Byte <- BoundaryBytes
  Lengths <- BoundaryLengths
SPECIFICATION Spec
PROPERTIES FourBytesAllowed
CHECK_DEADLOCK FALSE
