\* Two threads, two devices, six ticks, one change of the listing.
SPECIFICATION Spec
CONSTANTS
  kept = kept
  loose = loose
  gui = gui
  worker = worker
  Devices = {kept, loose}
  Steady = {kept}
  Threads = {gui, worker}
  Opened = {kept, loose}
  Slices <- MCSlices
  Captured = {"bgp", "config"}
  Ttl = 1
  Timeout = 1
  MaxTime = 6
  MaxChanges = 1
SYMMETRY MCThreadSymmetry
PROPERTIES
  NeverLost
  OldFailuresAreCaveated
CHECK_DEADLOCK FALSE
