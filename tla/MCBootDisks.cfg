\* The player changes disks and EEPROMs at any time.
CONSTANTS
  Disks = {d1, d2, d3}
  Eeproms = {e1, e2}
SPECIFICATION FairSpec
INVARIANTS
  KernelIsStored
PROPERTIES
  FailsForAReason
  BootEnds
