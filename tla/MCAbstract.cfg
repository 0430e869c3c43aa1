SPECIFICATION AbstractSpec
CONSTANTS
  Block = {b1, b2, b3}
  Sizes = {0, 1, 2}
  Gran = 2
  Limit = 6
  Name = {n1, n2}
  Place = {a1, a2}
  Asker = {c1, c2}
  Nobody = Nobody
INVARIANTS
  BlocksDisjoint
  Agreement
SYMMETRY Symmetry
CHECK_DEADLOCK FALSE
