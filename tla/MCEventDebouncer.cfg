SPECIFICATION Spec
CONSTANTS
  Path = {p1, p2, p3}
  Stamp = {s1}
INVARIANTS TypeOK TableIndexes NetEffect NoGhostFile
PROPERTY ImplementsNetChange
SYMMETRY Symmetry
