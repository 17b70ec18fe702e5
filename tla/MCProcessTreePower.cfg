SPECIFICATION Spec
CONSTANTS
  Leaders = {l1, l2}
  Kids = {k1, k2}
  Caffeinate = caffeinate
  Checkloop = checkloop
  InitProcess = init
  Nobody = nobody
SYMMETRY Symmetry
INVARIANT HostStaysAwake
