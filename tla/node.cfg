CONSTANTS
  alpha = alpha
  beta = beta
  p = p
  q = q
  u = u
  m1 = m1
  m2 = m2
  None = None
  Nodes <- MCNodes
  Ulas = {u}
  Addrs = {p, q}
  Msgs = {m1, m2}
  MaxOps = 2
  primary = primary
  secondary = secondary
  Daemons = {primary, secondary}
  JoinArgs <- MCArgs
  Serials = {1, 2, 3, 4}
  BindRetryAttempts = 2
  Reclaim = 1
  Nobody = Nobody
  MaxJoins = 2
  MaxFaults = 1
SPECIFICATION MCSpec
INVARIANTS SentOnce PoolFollowsPeer LeavesNoStatus StablePort
PROPERTIES QueueFlushed StatusSettles
CHECK_DEADLOCK FALSE
