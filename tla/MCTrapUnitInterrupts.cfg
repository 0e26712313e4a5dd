SPECIFICATION Spec
CONSTANTS
  PC = {a}
  a = a
  MtvecBase = a
  StvecBase = a
  CsrOps <- InterruptOps
  Snapshots <- SomeSnapshots
INVARIANT ShadowsAgree
PROPERTY CausesAreReal ForcedAsAsked TrapNeverDescends
