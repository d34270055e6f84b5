CONSTANTS
  k0 = k0
  k1 = k1
  again = again
  renumbered = renumbered
  Keys <- MCKeys
  BlockOf <- MCBlockOf
  HeaderOf <- MCHeaderOf
  Bad <- None
  Unlucky <- None
  Capacity = 3
SPECIFICATION Spec
INVARIANT StateKeepsRunning
