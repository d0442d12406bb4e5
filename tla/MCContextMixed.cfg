SPECIFICATION ContextSpec
CONSTANTS
  t1 = t1
  t2 = t2
  t3 = t3
  A = A
  B = B
  C = C
  D = D
  init = init
  x = x
  x0 = x0
  x1 = x1
  xA = xA
  xAp = xAp
  None = None
  Thread <- MCThread
  Str <- MCStr
  Spec0 <- MCSpec0
  Hash <- MCHash
  Type <- MCType
  Setup <- MixedSetup
  Numbered <- MCNumbered
  Parts <- MCParts
  Constructor = {init}
  MaxMethod = 4
  MaxCalls = 2
  n_slots = 2
  max_containers = 2
INVARIANT OneMethodPerSpec
