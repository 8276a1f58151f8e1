\* A controller and a device of another class in the neighbourhood; the
\* depths are the ones of the code, the 4 first reports cut to 2: one more
\* than the first cannot take a buffer without waiting.
SPECIFICATION Spec
CONSTANTS
  Remotes = {"pad", "phone"}
  Peripherals = {"pad"}
  Controllers = {"pad"}
  BTREQ_DEPTH = 3
  BTREPQ_DEPTH = 2
  InitialReports = 2
  Failures = 1
INVARIANTS HeardUnlessScan StallsOnlyInBurst
PROPERTIES DisconnectServed PadTried
