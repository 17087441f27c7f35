CONSTANTS k1 = k1  k2 = k2  v1 = v1  b1 = b1  b2 = b2  s1 = s1
CONSTANTS Absent = Absent  NoOp = NoOp
CONSTANT Keys <- MCKeys
CONSTANT Vals <- MCVals
CONSTANT Batches <- MCBatches
CONSTANT Snaps <- MCSnaps
CONSTANT MaxOps = 2
SPECIFICATION Spec
PROPERTY Refinement
