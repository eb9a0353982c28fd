\* Two connections of one agent race on two batch ids of one target, with
\* conflicting cursors, database errors, crashes and deleted agent rows.
SPECIFICATION Spec
CONSTANTS
  Conns = {n1, n2}
  Users = {u1}
  AgentIds = {a1}
  Targets = {t1}
  BatchIds = {b1, b2}
  Cursors = {k1, k2}
  Contents = {x1, bad}
  Invalid = {bad}
  x1 = x1
  u1 = u1
  a1 = a1
  b1 = b1
  bad = bad
  Size <- MCSize
  None = None
  MaxAgentRows = 2
  MaxPrunes = 0
  MaxDbErrors = 1
  MaxCrashes = 1
SYMMETRY MCSymmetry
INVARIANTS
  TypeOK
  ExactlyOnce
  AckMeansStored
  CheckpointBacked
PROPERTIES
  LedgerSpec
