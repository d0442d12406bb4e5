SPECIFICATION MapSpec
CONSTANTS
  p1 = p1
  p2 = p2
  p3 = p3
  x = x
  y = y
  z = z
  nx = nx
  mx = mx
  ny = ny
  nz = nz
  mz = mz
  oz = oz
  Null = Null
  Thread <- MCThread
  Node <- MCNode
  Key <- MCKey
  Hash <- MCHash
  NodeKey <- MCNodeKey
  Use <- MCUse
  Setups <- MixedSetups
INVARIANT GetReflectsOwnCalls
