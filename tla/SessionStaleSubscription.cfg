SPECIFICATION Spec
CONSTANTS
  None = None
  c1 = c1
  c2 = c2
  Callers = {c1, c2}
  g1 = g1
  g2 = g2
  Instances = {g1, g2}
  p1 = p1
  p2 = p2
  Pumps = {p1, p2}
  ChanCap = 1
  MaxEmitters = 2
SYMMETRY Symmetry
INVARIANT LiveSessionHasPump
