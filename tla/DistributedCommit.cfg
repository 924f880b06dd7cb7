CONSTANTS
  s1 = s1
  s2 = s2
  DTCallers = {c1, c2}
  DTShards <- TwoShards
SPECIFICATION DTSpec
INVARIANT DTAtomic
CHECK_DEADLOCK FALSE
