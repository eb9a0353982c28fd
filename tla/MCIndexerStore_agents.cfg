\* Two users race for one agent_id while receipts are pruned and an
\* administrator deletes the row or its owner; or two agents write to one
\* target, where the lock on the agent row does not keep the transactions apart,
\* only the ones on receipts and checkpoint do, and they never leave a handler
\* waiting for ever.
SPECIFICATION FairSpec
CONSTRAINT Scenes
CONSTANTS
  Conns = {n1, n2}
  Users = {u1, u2}
  AgentIds = {a1, a2}
  Targets = {t1}
  BatchIds = {b1, b2}
  Cursors = {k1}
  Contents = {x1}
  Invalid = {}
  x1 = x1
  bad = bad
  u1 = u1
  a1 = a1
  b1 = b1
  Size <- MCSize
  None = None
  MaxAgentRows = 2
  MaxPrunes = 1
  MaxDbErrors = 1
  MaxCrashes = 0
INVARIANTS
  ExactlyOnce
  AgentCountsEvents
  CheckpointCountsRows
PROPERTIES
  NoTakeover
  EveryMessageAnswered
