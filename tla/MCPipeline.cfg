CONSTANTS
  k0 = k0
  k1 = k1
  again = again
  renumbered = renumbered
  Keys <- MCKeys
  BlockOf <- MCBlockOf
  HeaderOf <- MCHeaderOf
  Bad <- OnlyK1
  Unlucky <- OnlyK0
  Capacity = 1
SPECIFICATION LiveSpec
INVARIANTS AnnouncedIsStored AppliedAscending
PROPERTIES NothingStuck CacheDrains Delivered
