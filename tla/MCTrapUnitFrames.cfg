SPECIFICATION Spec
CONSTANTS
  PC = {vec, a}
  vec = vec
  a = a
  MtvecBase = vec
  StvecBase = vec
  CsrOps <- PagingOps
  Snapshots <- NoSnapshots
INVARIANT FramesIntact
PROPERTY ReturnsToOrigin
