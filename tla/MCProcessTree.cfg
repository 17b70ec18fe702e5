SPECIFICATION Spec
CONSTANTS
  Leaders = {l1, l2}
  Kids = {k1, k2, k3}
  Caffeinate = caffeinate
  Checkloop = checkloop
  InitProcess = init
  Nobody = nobody
SYMMETRY Symmetry
INVARIANT TypeOK
INVARIANT OneLeader
INVARIANT KilledTreeIsGone
INVARIANT ExitEndsTree
