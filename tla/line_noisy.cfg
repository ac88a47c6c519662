SPECIFICATION LineSpec
CONSTANTS
  BufLen = 6
  SIZE_MAX = 9
  Lengths = {4, 5, 6, 8}
  Noisy = TRUE
PROPERTIES WritesInBuffer BackInStep
