SPECIFICATION Spec
CONSTANTS
  t1 = t1
  t2 = t2
  NoFiles = NoFiles
  NoTree = NoTree
  Trees <- MCTrees
  MaxEdits = 2
INVARIANT TypeOK
INVARIANT MapFitsTree
