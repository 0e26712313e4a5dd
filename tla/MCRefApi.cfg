SPECIFICATION Spec
CONSTANTS
  Contexts = {c1, c2}
  T = 3
  Values = {0, 1}
  Times = {0, 1}
  Hosts <- MCHosts
SYMMETRY Symmetry
INVARIANT TimerIsOwn CloneIsFaithful GivenOnce
